--------------------------- MODULE Selector_proofs ---------------------------
(***************************************************************************)
(* Proofs about Selector for any viewers and circumstances, sizes of what  *)
(* is printed and capacities of the channels.                              *)
(***************************************************************************)
EXTENDS Selector, Folding, SequenceTheorems

(* What the sizes are.                                                                   *)
LEMMA Sizes == Shell \notin Viewers /\ PrintSize \in Nat \ {0} /\ Capacity \in Nat \ {0}
BY SelectorAssumption

(* The calls at the bottom of the stack, and those above.                                *)
Bottom == {"prompt", "command", "failed", "aborted"}
Calls  == {"read", "write", "flush", "print", "drop", "feedback"}

Frames == [op : Bottom \cup Calls, m : Viewers \cup {Shell}, r : SUBSET (Viewers \cup {Shell}),
           w : SUBSET Viewers, pos : Nat]

States == {"idle", "talking", "gone"}
Pieces == {"part", "line"}
Links  == [state : States, told : Nat, in : Seq(Pieces), out : Seq(Nat), got : Nat,
           sent : Nat, rbuffer : Seq(Pieces), wbuffer : Seq(Nat)]

(* A frame in its place on the stack st, with what holds of it when nothing is printed   *)
(* while output is pending: then a print is done at once.                                *)
Placed(st, i) ==
  /\ st[i].op \in IF i = 1 THEN Bottom ELSE Calls
  /\ st[i].op \in Calls \ {"read"} => st[i].m \in world.viewers
  /\ ~world.burst => /\ st[i].op \notin {"write", "drop"}
                     /\ st[i].op = "print" => i = Len(st)

StackOf(st) == st \in Seq(Frames) /\ st # <<>> /\ \A i \in 1..Len(st) : Placed(st, i)

Typed ==
  /\ world \in Circumstances
  /\ StackOf(stack)
  /\ channels \subseteq world.viewers /\ wmask \subseteq world.viewers
  /\ link \in [world.viewers -> Links]
  /\ \A p \in world.viewers : Len(link[p].out) <= Capacity

(* What has been printed and not received.                                               *)
Pending(l) == l.out \o l.wbuffer

(* It is in order, younger than what has been received, and of what has been printed.    *)
Sorted(l) ==
  /\ l.got <= l.sent
  /\ \A i \in 1..Len(Pending(l)) : l.got < Pending(l)[i] /\ Pending(l)[i] <= l.sent
  /\ \A i, j \in 1..Len(Pending(l)) : i < j => Pending(l)[i] < Pending(l)[j]

(* Nothing is missing.                                                                   *)
Gapless(l) ==
  /\ Len(Pending(l)) = l.sent - l.got
  /\ \A i \in 1..Len(Pending(l)) : Pending(l)[i] = l.got + i

OrderInv ==
  /\ \A p \in world.viewers : Sorted(link[p])
  /\ ~world.burst => /\ \A p \in channels : Gapless(link[p])
                     /\ Top.op = "print" => link[Top.m].wbuffer = <<>>

(* The inductive invariant.                                                              *)
Inv == Typed /\ OrderInv

-----------------------------------------------------------------------------
(* The stack.                                                                            *)

(* What a stack is made of.                                                               *)
LEMMA StackFacts ==
  ASSUME NEW st, StackOf(st)
  PROVE  /\ Len(st) \in Nat \ {0} /\ DOMAIN st = 1..Len(st) /\ st \in [1..Len(st) -> Frames]
         /\ st[Len(st)] \in Frames
<1>1. st \in Seq(Frames) /\ Len(st) \in Nat \ {0}
  BY EmptySeq DEF StackOf
<1>2. st \in [1..Len(st) -> Frames] /\ DOMAIN st = 1..Len(st)
  BY <1>1, LenProperties
<1> QED BY <1>1, <1>2

(* A call made from the frame on top.                                                    *)
LEMMA CallMade ==
  ASSUME NEW st, StackOf(st), NEW f \in Frames, f.op \in Calls,
         f.op # "read" => f.m \in world.viewers,
         ~world.burst => f.op \notin {"write", "drop"} /\ st[Len(st)].op # "print"
  PROVE  StackOf(Append(st, f)) /\ Append(st, f)[Len(Append(st, f))] = f
<1> DEFINE new == Append(st, f)
<1>1. st \in Seq(Frames) /\ Len(st) \in Nat \ {0}
  BY StackFacts DEF StackOf
<1>2. /\ new \in Seq(Frames) /\ new # <<>> /\ Len(new) = Len(st) + 1
      /\ \A i \in 1..Len(st) : new[i] = st[i]
      /\ new[Len(st) + 1] = f
  BY <1>1, AppendProperties
<1> HIDE DEF new
<1>3. ASSUME NEW i \in 1..Len(new) PROVE Placed(new, i)
  <2>1. CASE i = Len(st) + 1
    BY <1>1, <1>2, <2>1 DEF Placed, Calls
  <2>2. CASE i \in 1..Len(st)
    <3>1. Placed(st, i) /\ new[i] = st[i] /\ i # Len(new)
      BY <1>1, <1>2, <2>2 DEF StackOf
    <3>2. ~world.burst => st[i].op # "print"
      BY <1>1, <2>2, <3>1 DEF Placed
    <3> QED BY <3>1, <3>2 DEF Placed
  <2> QED BY <1>1, <1>2, <2>1, <2>2
<1>4. StackOf(new) /\ new[Len(new)] = f
  BY <1>1, <1>2, <1>3 DEF StackOf
<1> QED BY <1>4 DEF new

(* A call returns.                                                                       *)
LEMMA CallReturns ==
  ASSUME NEW st, StackOf(st), st[Len(st)].op \notin Bottom
  PROVE  /\ StackOf(Front(st)) /\ Len(Front(st)) = Len(st) - 1
         /\ ~world.burst => Front(st)[Len(Front(st))].op # "print"
         /\ Front(st)[Len(Front(st))].op = "print" => Front(st)[Len(Front(st))].op \notin Bottom
<1> DEFINE new == Front(st)
<1>1. st \in Seq(Frames) /\ Len(st) \in Nat \ {0} /\ \A i \in 1..Len(st) : Placed(st, i)
  BY StackFacts DEF StackOf
<1>2. Len(st) > 1
  BY <1>1 DEF Placed
<1>3. /\ new \in Seq(Frames) /\ Len(new) = Len(st) - 1
      /\ \A i \in 1..Len(new) : new[i] = st[i]
  <2>1. \A i \in 1..Len(st) - 1 : st[i] \in Frames
    BY <1>1, ElementOfSeq
  <2> QED BY <1>1, <1>2, <2>1, SubSeqProperties DEF Front
<1> HIDE DEF new
<1>4. \A i \in 1..Len(new) : Placed(new, i) /\ (~world.burst => new[i].op # "print")
  BY <1>1, <1>2, <1>3 DEF Placed
<1>5. new # <<>>
  BY <1>2, <1>3
<1>6. Len(new) \in 1..Len(new)
  BY <1>1, <1>2, <1>3
<1>7. StackOf(new)
  BY <1>3, <1>4, <1>5 DEF StackOf
<1>8. new[Len(new)].op = "print" => new[Len(new)].op \notin Bottom
  BY DEF Bottom
<1> QED BY <1>3, <1>4, <1>6, <1>7, <1>8 DEF new

(* The frame on top gets other channels to serve.                                        *)
LEMMA FrameServed ==
  ASSUME NEW r \in SUBSET (Viewers \cup {Shell}), NEW w \in SUBSET Viewers, StackOf(stack)
  PROVE  LET st == Served(r, w)
         IN  /\ StackOf(st) /\ Len(st) = Len(stack)
             /\ st[Len(st)].op = Top.op /\ st[Len(st)].m = Top.m
<1> DEFINE st == Served(r, w)
           f == [Top EXCEPT !.r = r, !.w = w]
<1>1. stack \in Seq(Frames) /\ Len(stack) \in Nat \ {0} /\ Top \in Frames
  BY StackFacts DEF StackOf, Top
<1>2. f \in Frames /\ f.op = Top.op /\ f.m = Top.m
  BY <1>1 DEF Frames
<1>3. st = [stack EXCEPT ![Len(stack)] = f]
  BY DEF Served, Top
<1> HIDE DEF f, st
<1>4. /\ st \in Seq(Frames) /\ Len(st) = Len(stack)
      /\ \A j \in 1..Len(stack) : st[j] = IF j = Len(stack) THEN f ELSE stack[j]
  BY <1>1, <1>2, <1>3, ExceptSeq
<1>5. st # <<>>
  BY <1>1, <1>4, EmptySeq
<1>6. \A i \in 1..Len(st) : Placed(st, i)
  <2> SUFFICES ASSUME NEW i \in 1..Len(st) PROVE Placed(st, i)
    OBVIOUS
  <2>1. st[i].op = stack[i].op /\ st[i].m = stack[i].m /\ Placed(stack, i)
    BY <1>1, <1>2, <1>4 DEF StackOf, Top
  <2> QED BY <1>4, <2>1 DEF Placed
<1>7. StackOf(st)
  BY <1>4, <1>5, <1>6 DEF StackOf
<1> QED BY <1>1, <1>2, <1>4, <1>7 DEF st, Top

(* A stack of one frame.                                                                 *)
LEMMA OneFrame ==
  ASSUME NEW f \in Frames, f.op \in Bottom
  PROVE  StackOf(<<f>>) /\ <<f>>[Len(<<f>>)] = f
<1>1. <<f>> \in Seq(Frames) /\ <<f>> # <<>> /\ Len(<<f>>) = 1 /\ <<f>>[1] = f
  OBVIOUS
<1> QED BY <1>1 DEF StackOf, Placed, Bottom, Calls

(* A new call.                                                                            *)
LEMMA FrameTyped ==
  ASSUME NEW op \in Bottom \cup Calls, NEW m \in Viewers \cup {Shell}
  PROVE  Frame(op, m) \in Frames /\ Frame(op, m).op = op /\ Frame(op, m).m = m
BY DEF Frame, Frames

-----------------------------------------------------------------------------
(* Steps that leave alone what has been printed.                                         *)
Apart(l, k) == l.out = k.out /\ l.wbuffer = k.wbuffer /\ l.got = k.got /\ l.sent = k.sent

(* The order is kept when neither the links nor their output change.                      *)
LEMMA OutputKept ==
  ASSUME OrderInv, world' = world, channels' \subseteq channels, channels \subseteq world.viewers,
         \A p \in world.viewers : Apart(link'[p], link[p]),
         ~world.burst /\ Top'.op = "print" =>
           Top'.m \in world.viewers /\ link[Top'.m].wbuffer = <<>>
  PROVE  OrderInv'
<1>1. \A p \in world.viewers : Pending(link'[p]) = Pending(link[p])
  BY DEF Apart, Pending
<1>2. \A p \in world.viewers : Sorted(link'[p])
  BY <1>1 DEF OrderInv, Sorted, Apart
<1>3. ~world.burst => \A p \in channels' : Gapless(link'[p])
  BY <1>1 DEF OrderInv, Gapless, Apart
<1>4. ~world.burst /\ Top'.op = "print" => link'[Top'.m].wbuffer = <<>>
  BY DEF Apart
<1> QED BY <1>2, <1>3, <1>4 DEF OrderInv

-----------------------------------------------------------------------------
(* A link and what is pending.                                                           *)

(* The parts of a link.                                                                   *)
LEMMA LinkParts ==
  ASSUME NEW l \in Links
  PROVE  /\ l.state \in States /\ l.told \in Nat /\ l.in \in Seq(Pieces) /\ l.out \in Seq(Nat)
         /\ l.got \in Nat /\ l.sent \in Nat /\ l.rbuffer \in Seq(Pieces) /\ l.wbuffer \in Seq(Nat)
         /\ Len(l.out) \in Nat /\ Len(l.wbuffer) \in Nat
BY DEF Links

(* Positions in a sequence of a and then b elements.                                     *)
LEMMA Positions ==
  ASSUME NEW a \in Nat, NEW b \in Nat, NEW i \in 1..a + b
  PROVE  /\ i \in Nat \ {0}
         /\ i <= a => i \in 1..a
         /\ ~(i <= a) => i - a \in 1..b
OBVIOUS

(* The first position is in the first part, when there is one.                            *)
LEMMA Positions1 ==
  ASSUME NEW a \in Nat \ {0}, NEW b \in Nat
  PROVE  1 \in 1..a + b /\ 1 <= a
OBVIOUS

(* A position in the first part is one of the whole.                                      *)
LEMMA Farther ==
  ASSUME NEW a \in Nat, NEW b \in Nat, NEW i \in 1..a
  PROVE  i \in 1..a + b
OBVIOUS

(* The next position in a sequence that is longer by one.                                *)
LEMMA NextPosition ==
  ASSUME NEW n \in Nat, NEW m \in Nat, m = n - 1, NEW i \in 1..m
  PROVE  i \in Nat \ {0} /\ i + 1 \in 1..n /\ 1 < i + 1
OBVIOUS

(* What is pending is what is on its way and then what waits.                            *)
LEMMA PendingLength ==
  ASSUME NEW l \in Links
  PROVE  /\ Pending(l) \in Seq(Nat) /\ Len(Pending(l)) \in Nat
         /\ Len(Pending(l)) = Len(l.out) + Len(l.wbuffer)
<1>1. l.out \in Seq(Nat) /\ l.wbuffer \in Seq(Nat)
  BY LinkParts
<1>2. Pending(l) \in Seq(Nat) /\ Len(Pending(l)) = Len(l.out) + Len(l.wbuffer)
  BY <1>1, ConcatProperties DEF Pending
<1> QED BY <1>2, LenProperties

(* Each piece pending is on its way or waits.                                             *)
LEMMA PendingAt ==
  ASSUME NEW l \in Links, NEW i \in 1..Len(Pending(l))
  PROVE  /\ i \in Nat \ {0} /\ Pending(l)[i] \in Nat
         /\ i <= Len(l.out) => Pending(l)[i] = l.out[i] /\ i \in 1..Len(l.out)
         /\ ~(i <= Len(l.out)) => /\ Pending(l)[i] = l.wbuffer[i - Len(l.out)]
                                  /\ i - Len(l.out) \in 1..Len(l.wbuffer)
<1>1. /\ l.out \in Seq(Nat) /\ l.wbuffer \in Seq(Nat) /\ Len(l.out) \in Nat /\ Len(l.wbuffer) \in Nat
  BY LinkParts
<1>2. Pending(l) \in Seq(Nat) /\ Len(Pending(l)) = Len(l.out) + Len(l.wbuffer)
  BY PendingLength
<1>3. i \in 1..Len(l.out) + Len(l.wbuffer)
  BY <1>2
<1>4. /\ i \in Nat \ {0}
      /\ i <= Len(l.out) => i \in 1..Len(l.out)
      /\ ~(i <= Len(l.out)) => i - Len(l.out) \in 1..Len(l.wbuffer)
  BY <1>1, <1>3, Positions
<1>5. Pending(l)[i] = IF i <= Len(l.out) THEN l.out[i] ELSE l.wbuffer[i - Len(l.out)]
  BY <1>1, <1>3, ConcatProperties DEF Pending
<1>6. Pending(l)[i] \in Nat
  BY <1>2, ElementOfSeq
<1> QED BY <1>4, <1>5, <1>6

(* The first piece has arrived.                                                          *)
LEMMA Received ==
  ASSUME NEW l \in Links, l.out # <<>>, NEW k \in Links,
         k.got = Head(l.out), k.out = Tail(l.out), k.wbuffer = l.wbuffer, k.sent = l.sent, Sorted(l)
  PROVE  Sorted(k) /\ (Gapless(l) => Gapless(k))
<1>1. /\ l.out \in Seq(Nat) /\ Len(l.out) \in Nat \ {0} /\ Len(l.wbuffer) \in Nat /\ l.got \in Nat
      /\ l.sent \in Nat /\ k.out \in Seq(Nat) /\ Len(k.out) \in Nat
  BY LinkParts, EmptySeq
<1>0. /\ Len(l.out) \in Nat \ {0} /\ Len(l.wbuffer) \in Nat /\ l.got \in Nat
      /\ l.sent \in Nat /\ Len(k.out) \in Nat
  BY <1>1
<1>2. Len(k.out) = Len(l.out) - 1 /\ k.got = l.out[1]
  BY <1>1, HeadTailProperties
<1>3. /\ Len(Pending(l)) = Len(l.out) + Len(l.wbuffer) /\ Len(Pending(l)) \in Nat
      /\ Len(Pending(k)) = Len(k.out) + Len(l.wbuffer) /\ Len(Pending(k)) \in Nat
  BY PendingLength
<1>4. Len(Pending(k)) = Len(Pending(l)) - 1
  BY ONLY <1>0, <1>2, <1>3
<1>5. 1 \in 1..Len(Pending(l)) /\ Pending(l)[1] = l.out[1]
  <2>1. 1 \in 1..Len(Pending(l)) /\ 1 <= Len(l.out)
    BY <1>0, <1>3, Positions1
  <2> QED BY <2>1, PendingAt
<1>6. ASSUME NEW i \in 1..Len(Pending(k))
      PROVE  /\ i + 1 \in 1..Len(Pending(l)) /\ 1 < i + 1 /\ i \in Nat
             /\ Pending(k)[i] = Pending(l)[i + 1] /\ Pending(l)[i + 1] \in Nat
  <2>1. i \in Nat \ {0} /\ i + 1 \in 1..Len(Pending(l)) /\ 1 < i + 1
    BY <1>3, <1>4, NextPosition
  <2>2. CASE i <= Len(k.out)
    <3>1. i + 1 <= Len(l.out) /\ i \in 1..Len(Tail(l.out))
      BY ONLY <1>0, <1>2, <2>1, <2>2, k.out = Tail(l.out)
    <3>2. k.out[i] = l.out[i + 1]
      BY <1>1, <3>1, HeadTailProperties
    <3>3. Pending(k)[i] = k.out[i]
      BY <2>2, PendingAt
    <3>4. Pending(l)[i + 1] = l.out[i + 1] /\ Pending(l)[i + 1] \in Nat
      BY <2>1, <3>1, PendingAt
    <3> QED BY <2>1, <3>2, <3>3, <3>4
  <2>3. CASE ~(i <= Len(k.out))
    <3>1. ~(i + 1 <= Len(l.out)) /\ i - Len(k.out) = (i + 1) - Len(l.out)
      BY ONLY <1>0, <1>2, <2>1, <2>3
    <3>2. Pending(k)[i] = l.wbuffer[i - Len(k.out)]
      BY <2>3, PendingAt
    <3>3. Pending(l)[i + 1] = l.wbuffer[(i + 1) - Len(l.out)] /\ Pending(l)[i + 1] \in Nat
      BY <2>1, <3>1, PendingAt
    <3> QED BY <2>1, <3>1, <3>2, <3>3
  <2> QED BY <2>2, <2>3
<1>7. Sorted(k)
  <2>1. k.got <= k.sent
    BY <1>2, <1>5 DEF Sorted
  <2>2. ASSUME NEW i \in 1..Len(Pending(k))
        PROVE  k.got < Pending(k)[i] /\ Pending(k)[i] <= k.sent
    BY <1>2, <1>5, <1>6 DEF Sorted
  <2>3. ASSUME NEW i \in 1..Len(Pending(k)), NEW j \in 1..Len(Pending(k)), i < j
        PROVE  Pending(k)[i] < Pending(k)[j]
    <3>1. /\ i + 1 \in 1..Len(Pending(l)) /\ j + 1 \in 1..Len(Pending(l)) /\ i \in Nat /\ j \in Nat
          /\ Pending(k)[i] = Pending(l)[i + 1] /\ Pending(k)[j] = Pending(l)[j + 1]
      BY <1>6
    <3>2. i + 1 < j + 1
      BY ONLY <2>3, <3>1
    <3> QED BY <3>1, <3>2 DEF Sorted
  <2> QED BY <2>1, <2>2, <2>3 DEF Sorted
<1>8. ASSUME Gapless(l) PROVE Gapless(k)
  <2>1. k.got = l.got + 1 /\ Len(Pending(l)) = l.sent - l.got
    BY <1>2, <1>5, <1>8 DEF Gapless
  <2>2. ASSUME NEW i \in 1..Len(Pending(k)) PROVE Pending(k)[i] = k.got + i
    <3>1. i + 1 \in 1..Len(Pending(l)) /\ Pending(k)[i] = Pending(l)[i + 1] /\ i \in Nat
      BY <1>6
    <3>2. Pending(l)[i + 1] = l.got + (i + 1)
      BY <1>8, <3>1 DEF Gapless
    <3>3. l.got + (i + 1) = (l.got + 1) + i
      <4>1. l.got \in Nat /\ i \in Nat
        BY <1>0, <3>1
      <4> QED BY ONLY <4>1
    <3> QED BY <2>1, <3>1, <3>2, <3>3
  <2>3. Len(Pending(k)) = k.sent - k.got
    <3>1. (l.sent - l.got) - 1 = l.sent - (l.got + 1)
      BY ONLY <1>0
    <3> QED BY <1>4, <2>1, <3>1
  <2> QED BY <2>2, <2>3 DEF Gapless
<1> QED BY <1>7, <1>8

(* The lesser of two numbers.                                                            *)
LEMMA Lesser ==
  ASSUME NEW a \in Int, NEW b \in Int
  PROVE  /\ Min({a, b}) = IF a <= b THEN a ELSE b
         /\ a >= 0 /\ b >= 0 => Min({a, b}) \in 0..b /\ Min({a, b}) <= a
<1>1. \E x \in {a, b} : \A y \in {a, b} : x <= y
  OBVIOUS
<1>2. Min({a, b}) \in {a, b} /\ \A y \in {a, b} : Min({a, b}) <= y
  BY <1>1 DEF Min
<1> QED BY <1>2

(* q is written as far as there is room: nothing of it is lost.                          *)
LEMMA FlushedParts ==
  ASSUME NEW l \in Links, Len(l.out) <= Capacity, NEW q \in Seq(Nat)
  PROVE  LET k == Flushed(l, q)
         IN  /\ k \in Links /\ k.got = l.got /\ k.sent = l.sent /\ Len(k.out) <= Capacity
             /\ Pending(k) = l.out \o q
<1> DEFINE n == Min({Capacity - Len(l.out), Len(q)})
           a == SubSeq(q, 1, n)
           b == SubSeq(q, n + 1, Len(q))
           k == Flushed(l, q)
<1>1. /\ l.out \in Seq(Nat) /\ Len(l.out) \in Nat /\ Len(q) \in Nat /\ n \in 0..Len(q)
      /\ Len(l.out) + n <= Capacity
  <2>1. Len(l.out) \in Nat /\ Len(q) \in Nat /\ Capacity \in Nat
    BY LinkParts, LenProperties, Sizes
  <2>2. Capacity - Len(l.out) \in Int /\ Len(q) \in Int /\ Capacity - Len(l.out) >= 0
    BY ONLY <2>1, Len(l.out) <= Capacity
  <2>3. n \in 0..Len(q) /\ n <= Capacity - Len(l.out)
    <3>1. Len(q) >= 0
      BY ONLY <2>1
    <3> QED BY ONLY <2>2, <3>1, Lesser
  <2> HIDE DEF n
  <2>4. Len(l.out) + n <= Capacity
    BY ONLY <2>1, <2>3
  <2> QED BY <2>1, <2>3, <2>4, LinkParts
<1> HIDE DEF n
<1>2. a \in Seq(Nat) /\ b \in Seq(Nat) /\ Len(a) = n
  <2>1. \A i \in 1..Len(q) : q[i] \in Nat
    BY ElementOfSeq
  <2>2. n \in Int /\ n + 1 \in Int /\ Len(q) \in Int
        /\ (\A i \in 1..n : i \in 1..Len(q)) /\ (\A i \in n + 1 .. Len(q) : i \in 1..Len(q))
    BY <1>1
  <2>3. a \in Seq(Nat) /\ Len(a) = IF 1 <= n THEN n - 1 + 1 ELSE 0
    BY <2>1, <2>2, SubSeqProperties
  <2>4. b \in Seq(Nat)
    BY <2>1, <2>2, SubSeqProperties
  <2> QED BY <1>1, <2>3, <2>4
<1>3. a \o b = q
  <2>1. n \in 1-1 .. Len(q) /\ 1 \in 1 .. Len(q) + 1 /\ Len(q) \in n .. Len(q)
    BY <1>1
  <2>2. a \o b = SubSeq(q, 1, Len(q))
    BY <2>1, ConcatAdjacentSubSeq
  <2> QED BY <2>2, SubSeqFull
<1>4. l.out \o a \in Seq(Nat) /\ Len(l.out \o a) = Len(l.out) + n
  BY ZenonT(30), <1>1, <1>2, ConcatProperties
<1>5. k = [l EXCEPT !.out = l.out \o a, !.wbuffer = b]
  BY DEF Flushed, n
<1> HIDE DEF a, b, k
<1>6. k \in Links /\ k.got = l.got /\ k.sent = l.sent /\ k.out = l.out \o a /\ k.wbuffer = b
  BY <1>2, <1>4, <1>5 DEF Links
<1>7. Pending(k) = l.out \o q
  <2>1. Pending(k) = (l.out \o a) \o b
    BY <1>6 DEF Pending
  <2>2. (l.out \o a) \o b = l.out \o (a \o b)
    <3>1. \A s, t, u \in Seq(Nat) : (s \o t) \o u = s \o (t \o u)
      BY ConcatAssociative
    <3> QED BY ONLY <1>1, <1>2, <3>1
  <2> QED BY <1>3, <2>1, <2>2
<1> QED BY <1>1, <1>4, <1>6, <1>7 DEF k

(* What is printed next is appended to what is on its way.                               *)
LEMMA Printed ==
  ASSUME NEW l \in Links, Sorted(l), NEW q \in Seq(Nat), Len(q) = PrintSize,
         \A i \in 1..PrintSize : q[i] = l.sent + i,
         NEW k \in Links, k.got = l.got, k.sent = l.sent + PrintSize, Pending(k) = l.out \o q
  PROVE  Sorted(k) /\ (Gapless(l) /\ l.wbuffer = <<>> => Gapless(k))
<1>1. l.out \in Seq(Nat)
  BY LinkParts
<1>0. /\ Len(l.out) \in Nat /\ Len(l.wbuffer) \in Nat /\ l.got \in Nat /\ l.sent \in Nat
      /\ PrintSize \in Nat /\ l.got <= l.sent
  BY LinkParts, Sizes DEF Sorted
<1>2. Len(Pending(k)) = Len(l.out) + PrintSize
  <2>1. Len(l.out \o q) = Len(l.out) + Len(q)
    BY <1>1, ConcatProperties
  <2> QED BY <2>1
<1>3. Len(Pending(l)) = Len(l.out) + Len(l.wbuffer)
  BY PendingLength
<1>4. ASSUME NEW i \in 1..Len(Pending(k))
      PROVE  /\ i \in Nat
             /\ i <= Len(l.out) => /\ i \in 1..Len(Pending(l)) /\ Pending(k)[i] = Pending(l)[i]
                                   /\ Pending(l)[i] \in Nat
             /\ ~(i <= Len(l.out)) => /\ i - Len(l.out) \in 1..PrintSize
                                      /\ Pending(k)[i] = l.sent + (i - Len(l.out))
  <2>1. i \in 1..Len(l.out) + PrintSize
    BY <1>2
  <2>2. /\ i \in Nat \ {0}
        /\ i <= Len(l.out) => i \in 1..Len(l.out)
        /\ ~(i <= Len(l.out)) => i - Len(l.out) \in 1..PrintSize
    BY <1>0, <2>1, Positions
  <2>3. Pending(k)[i] = IF i <= Len(l.out) THEN l.out[i] ELSE q[i - Len(l.out)]
    BY <1>1, <2>1, ConcatProperties
  <2>4. CASE i <= Len(l.out)
    <3>1. i \in 1..Len(Pending(l))
      <4>1. i \in 1..Len(l.out) + Len(l.wbuffer)
        BY <1>0, <2>2, <2>4, Farther
      <4> QED BY <1>3, <4>1
    <3>2. Pending(l)[i] = l.out[i] /\ Pending(l)[i] \in Nat
      BY <2>4, <3>1, PendingAt
    <3> QED BY <2>2, <2>3, <2>4, <3>1, <3>2
  <2>5. CASE ~(i <= Len(l.out))
    <3>1. q[i - Len(l.out)] = l.sent + (i - Len(l.out))
      BY <2>2, <2>5
    <3> QED BY <2>2, <2>3, <2>5, <3>1
  <2> QED BY <2>4, <2>5
<1>5. Sorted(k)
  <2>1. k.got <= k.sent
    BY ONLY <1>0, k.got = l.got, k.sent = l.sent + PrintSize
  <2>2. ASSUME NEW i \in 1..Len(Pending(k))
        PROVE  k.got < Pending(k)[i] /\ Pending(k)[i] <= k.sent
    <3>1. CASE i <= Len(l.out)
      <4>1. k.got < Pending(k)[i] /\ Pending(k)[i] <= l.sent /\ Pending(k)[i] \in Nat
        BY <1>4, <3>1 DEF Sorted
      <4>2. ASSUME NEW x \in Nat, x <= l.sent PROVE x <= l.sent + PrintSize
        BY <1>0, <4>2
      <4> QED BY <4>1, <4>2
    <3>2. CASE ~(i <= Len(l.out))
      <4>1. Pending(k)[i] = l.sent + (i - Len(l.out)) /\ i - Len(l.out) \in 1..PrintSize
        BY <1>4, <3>2
      <4>2. ASSUME NEW x \in 1..PrintSize PROVE l.got < l.sent + x /\ l.sent + x <= l.sent + PrintSize
        BY ONLY <1>0, x \in 1..PrintSize
      <4> QED BY <4>1, <4>2
    <3> QED BY <3>1, <3>2
  <2>3. ASSUME NEW i \in 1..Len(Pending(k)), NEW j \in 1..Len(Pending(k)), i < j
        PROVE  Pending(k)[i] < Pending(k)[j]
    <3>0. i \in Nat /\ j \in Nat
      BY <1>4
    <3>1. CASE j <= Len(l.out)
      <4>1. i <= Len(l.out)
        BY ONLY <1>0, <2>3, <3>0, <3>1
      <4> QED BY <1>4, <2>3, <3>1, <4>1 DEF Sorted
    <3>2. CASE ~(j <= Len(l.out)) /\ i <= Len(l.out)
      <4>1. Pending(k)[i] <= l.sent /\ Pending(k)[i] \in Nat
        BY <1>4, <3>2 DEF Sorted
      <4>2. Pending(k)[j] = l.sent + (j - Len(l.out)) /\ j - Len(l.out) \in 1..PrintSize
        BY <1>4, <3>2
      <4>3. ASSUME NEW x \in Nat, x <= l.sent, NEW y \in 1..PrintSize PROVE x < l.sent + y
        BY ONLY <1>0, <4>3
      <4> QED BY <4>1, <4>2, <4>3
    <3>3. CASE ~(j <= Len(l.out)) /\ ~(i <= Len(l.out))
      <4>1. /\ Pending(k)[i] = l.sent + (i - Len(l.out)) /\ Pending(k)[j] = l.sent + (j - Len(l.out))
        BY <1>4, <3>3
      <4>2. l.sent + (i - Len(l.out)) < l.sent + (j - Len(l.out))
        BY ONLY <1>0, <2>3, <3>0
      <4> QED BY <4>1, <4>2
    <3> QED BY <3>1, <3>2, <3>3
  <2> QED BY <2>1, <2>2, <2>3 DEF Sorted
<1>6. ASSUME Gapless(l), l.wbuffer = <<>> PROVE Gapless(k)
  <2>1. Len(Pending(l)) = l.sent - l.got /\ Len(l.wbuffer) = 0
    BY <1>6, EmptySeq DEF Gapless
  <2>2. Len(l.out) = l.sent - l.got
    BY ONLY <1>0, <1>3, <2>1
  <2>3. ASSUME NEW i \in 1..Len(Pending(k)) PROVE Pending(k)[i] = k.got + i
    <3>1. CASE i <= Len(l.out)
      BY <1>4, <1>6, <3>1 DEF Gapless
    <3>2. CASE ~(i <= Len(l.out))
      <4>1. Pending(k)[i] = l.sent + (i - Len(l.out)) /\ i \in Nat
        BY <1>4, <3>2
      <4>2. l.sent + (i - (l.sent - l.got)) = l.got + i
        BY ONLY <1>0, <4>1
      <4> QED BY <2>2, <4>1, <4>2
    <3> QED BY <3>1, <3>2
  <2>4. (l.sent - l.got) + PrintSize = (l.sent + PrintSize) - l.got
    BY ONLY <1>0
  <2> QED BY <1>2, <2>2, <2>3, <2>4 DEF Gapless
<1> QED BY <1>5, <1>6

-----------------------------------------------------------------------------
(* Steps of the viewers and the user.                                                    *)

(* The invariant when the call on top stays the same, and what is pending as well.       *)
LEMMA StackKept ==
  ASSUME Inv, UNCHANGED <<stack, world>>
  PROVE  /\ StackOf(stack)' /\ Top' = Top
         /\ ~world.burst /\ Top'.op = "print" => Top'.m \in world.viewers /\ link[Top'.m].wbuffer = <<>>
<1>1. Placed(stack, Len(stack)) /\ Top' = Top
  BY StackFacts DEF Inv, Typed, StackOf, Top
<1> QED BY <1>1 DEF Inv, Typed, OrderInv, StackOf, Placed, Top, Calls

(* One link is given other contents, which nothing is printed to.                        *)
LEMMA LinkChanged ==
  ASSUME Typed, NEW p \in world.viewers, NEW l \in Links, Apart(l, link[p]),
         link' = [link EXCEPT ![p] = l]
  PROVE  /\ link' \in [world.viewers -> Links] /\ \A o \in world.viewers : Len(link'[o].out) <= Capacity
         /\ \A o \in world.viewers : Apart(link'[o], link[o])
BY DEF Typed, Apart

(* No link changes.                                                                       *)
LEMMA LinkSame ==
  ASSUME Typed, UNCHANGED link
  PROVE  /\ link' \in [world.viewers -> Links] /\ \A o \in world.viewers : Len(link'[o].out) <= Capacity
         /\ \A o \in world.viewers : Apart(link'[o], link[o])
BY DEF Typed, Apart

(* What viewers send, their leaving, and what the user types, do not touch the output.    *)
LEMMA OutsideStep ==
  ASSUME Inv,
         \/ \E p \in world.viewers : Talk(p) \/ GoOn(p) \/ GoAway(p)
         \/ Type \/ Idle
  PROVE  Inv'
<1>1. /\ UNCHANGED <<stack, channels, wmask, world>>
      /\ link' \in [world.viewers -> Links] /\ \A p \in world.viewers : Len(link'[p].out) <= Capacity
      /\ \A p \in world.viewers : Apart(link'[p], link[p])
  <2>1. CASE \E p \in world.viewers : Talk(p)
    <3>1. PICK p \in world.viewers : Talk(p)
      BY <2>1
    <3>2. PICK l \in Links : l = link[p]
      BY DEF Inv, Typed
    <3>3. Append(l.in, Head(Message)) \in Seq(Pieces) /\ l.told + 1 \in Nat
      <4>1. l.in \in Seq(Pieces) /\ l.told \in Nat
        BY LinkParts
      <4>2. Head(Message) \in Pieces
        BY DEF Message, Pieces
      <4> QED BY <4>1, <4>2, AppendProperties
    <3>4. PICK in \in Seq(Pieces), told \in Nat, s \in States :
            link' = [link EXCEPT ![p] = [l EXCEPT !.in = in, !.told = told, !.state = s]]
      BY ZenonT(30), <3>1, <3>2, <3>3 DEF Talk, States
    <3>5. [l EXCEPT !.in = in, !.told = told, !.state = s] \in Links
          /\ Apart([l EXCEPT !.in = in, !.told = told, !.state = s], l)
      BY DEF Links, Apart, States
    <3> QED BY <3>1, <3>2, <3>4, <3>5, LinkChanged DEF Talk, Outside, Inv
  <2>2. CASE \E p \in world.viewers : GoOn(p)
    <3>1. PICK p \in world.viewers : GoOn(p)
      BY <2>2
    <3>2. PICK l \in Links : l = link[p]
      BY DEF Inv, Typed
    <3>3. Append(l.in, "line") \in Seq(Pieces)
      BY LinkParts, AppendProperties DEF Pieces
    <3>4. PICK in \in Seq(Pieces) : link' = [link EXCEPT ![p] = [l EXCEPT !.in = in, !.state = "idle"]]
      BY <3>1, <3>2, <3>3 DEF GoOn
    <3>5. [l EXCEPT !.in = in, !.state = "idle"] \in Links /\ Apart([l EXCEPT !.in = in, !.state = "idle"], l)
      BY DEF Links, Apart, States
    <3> QED BY <3>1, <3>2, <3>4, <3>5, LinkChanged DEF GoOn, Outside, Inv
  <2>3. CASE \E p \in world.viewers : GoAway(p)
    <3>1. PICK p \in world.viewers : GoAway(p)
      BY <2>3
    <3>2. PICK l \in Links : l = link[p]
      BY DEF Inv, Typed
    <3>3. link' = [link EXCEPT ![p] = [l EXCEPT !.state = "gone"]]
      BY <3>1, <3>2 DEF GoAway
    <3>4. [l EXCEPT !.state = "gone"] \in Links /\ Apart([l EXCEPT !.state = "gone"], l)
      BY DEF Links, Apart, States
    <3> QED BY <3>1, <3>2, <3>3, <3>4, LinkChanged DEF GoAway, Outside, Inv
  <2>4. CASE Type \/ Idle
    BY <2>4, LinkSame DEF Type, Outside, Idle, vars, Inv
  <2> QED BY <2>1, <2>2, <2>3, <2>4
<1>2. Typed'
  BY <1>1, StackKept DEF Inv, Typed
<1>3. OrderInv'
  BY <1>1, StackKept, OutputKept DEF Inv, Typed
<1> QED BY <1>2, <1>3 DEF Inv

(* One link changes, and what is pending for it, too.                                    *)
LEMMA OneLink ==
  ASSUME Inv, NEW p \in world.viewers, NEW l \in Links, link' = [link EXCEPT ![p] = l],
         world' = world, channels' \subseteq channels, Len(l.out) <= Capacity, Sorted(l),
         ~world.burst /\ p \in channels' => Gapless(l),
         ~world.burst /\ Top'.op = "print" => Top'.m \in world.viewers /\ link'[Top'.m].wbuffer = <<>>
  PROVE  /\ OrderInv' /\ link' \in [world.viewers -> Links]
         /\ \A o \in world.viewers : Len(link'[o].out) <= Capacity
<1>1. \A o \in world.viewers : link'[o] = IF o = p THEN l ELSE link[o]
  BY DEF Inv, Typed
<1>2. /\ link' \in [world.viewers -> Links] /\ \A o \in world.viewers : Len(link'[o].out) <= Capacity
  BY <1>1 DEF Inv, Typed
<1>3. \A o \in world'.viewers : Sorted(link'[o])
  BY <1>1 DEF Inv, OrderInv
<1>4. ~world'.burst => \A o \in channels' : Gapless(link'[o])
  BY <1>1 DEF Inv, Typed, OrderInv
<1> QED BY <1>2, <1>3, <1>4 DEF OrderInv

(* The first of what is pending arrives.                                                 *)
LEMMA ReceiveStep ==
  ASSUME Inv, NEW p \in world.viewers, Receive(p)
  PROVE  Inv'
<1>1. PICK l \in Links : l = link[p]
  BY DEF Inv, Typed
<1>2. l.out # <<>> /\ UNCHANGED <<stack, channels, wmask, world>> /\ Len(l.out) <= Capacity
      /\ link' = [link EXCEPT ![p] = [l EXCEPT !.got = Head(l.out), !.out = Tail(l.out)]]
  BY <1>1 DEF Receive, Outside, Inv, Typed
<1>3. /\ Head(l.out) \in Nat /\ Tail(l.out) \in Seq(Nat) /\ Len(Tail(l.out)) <= Capacity
  <2>1. Head(l.out) \in Nat /\ Tail(l.out) \in Seq(Nat) /\ Len(Tail(l.out)) = Len(l.out) - 1 /\ Len(l.out) \in Nat
    BY <1>2, LinkParts, HeadTailProperties
  <2>2. Len(l.out) - 1 <= Capacity
    BY <1>2, <2>1, Sizes
  <2> QED BY <2>1, <2>2
<1>4. PICK k : k = [l EXCEPT !.got = Head(l.out), !.out = Tail(l.out)]
  OBVIOUS
<1>5. k \in Links /\ k.got = Head(l.out) /\ k.out = Tail(l.out) /\ k.wbuffer = l.wbuffer /\ k.sent = l.sent
  BY <1>3, <1>4 DEF Links
<1>6. Sorted(l) /\ (~world.burst /\ p \in channels => Gapless(l))
  BY <1>1 DEF Inv, OrderInv
<1>7. Sorted(k) /\ (~world.burst /\ p \in channels => Gapless(k))
  BY <1>2, <1>5, <1>6, Received
<1>8. ~world.burst /\ Top'.op = "print" => Top'.m \in world.viewers /\ link'[Top'.m].wbuffer = <<>>
  <2>1. \A o \in world.viewers : link'[o].wbuffer = link[o].wbuffer
    BY <1>1, <1>2, <1>4, <1>5 DEF Inv, Typed
  <2> QED BY <1>2, <2>1, StackKept
<1>9. /\ OrderInv' /\ link' \in [world.viewers -> Links] /\ \A o \in world.viewers : Len(link'[o].out) <= Capacity
  BY <1>2, <1>3, <1>4, <1>5, <1>7, <1>8, OneLink
<1> QED BY <1>2, <1>9, StackKept DEF Inv, Typed

-----------------------------------------------------------------------------
(* Steps of polymake that print nothing.                                                 *)

(* Channels, loops and the call on top are of viewers that run, or the shell.             *)
LEMMA WorldFacts ==
  ASSUME Typed
  PROVE  /\ world.viewers \subseteq Viewers /\ channels \subseteq world.viewers /\ wmask \subseteq world.viewers
         /\ ReadReady \in SUBSET (Viewers \cup {Shell}) /\ ReadReady \subseteq channels \cup {Shell}
         /\ WriteReady \in SUBSET Viewers
         /\ StackOf(stack) /\ Top \in Frames /\ Top.m \in Viewers \cup {Shell}
         /\ Placed(stack, Len(stack)) /\ Top = stack[Len(stack)]
<1>1. world.viewers \subseteq Viewers
  BY SelectorAssumption DEF Typed
<1>2. StackOf(stack) /\ Top = stack[Len(stack)] /\ Len(stack) \in 1..Len(stack)
  BY StackFacts DEF Typed, Top
<1>3. Top \in Frames /\ Placed(stack, Len(stack))
  BY <1>2, StackFacts DEF StackOf
<1>4. Top.m \in Viewers \cup {Shell}
  BY <1>3 DEF Frames
<1> QED BY <1>1, <1>2, <1>3, <1>4 DEF Typed, ReadReady, WriteReady

(* The stack after a step: what is on top does not print, or prints to a viewer with     *)
(* nothing pending.                                                                      *)
Prints(st) ==
  ~world.burst /\ st[Len(st)].op = "print" =>
    st[Len(st)].m \in world.viewers /\ link[st[Len(st)].m].wbuffer = <<>>

(* A step that leaves the output alone keeps the invariant when its stack is right.       *)
LEMMA QuietStep ==
  ASSUME Inv, world' = world, channels' \subseteq channels, wmask' \subseteq world.viewers,
         link' \in [world.viewers -> Links], \A o \in world.viewers : Len(link'[o].out) <= Capacity,
         \A o \in world.viewers : Apart(link'[o], link[o]),
         StackOf(stack'), Prints(stack')
  PROVE  Inv'
<1>1. channels' \subseteq world.viewers /\ channels \subseteq world.viewers
  BY DEF Inv, Typed
<1>2. StackOf(stack)'
  BY DEF StackOf, Placed
<1>3. Typed'
  BY <1>1, <1>2 DEF Inv, Typed
<1>4. Top' = stack'[Len(stack')]
  BY DEF Top
<1>5. OrderInv'
  BY <1>1, <1>4, OutputKept DEF Inv, Prints
<1> QED BY <1>3, <1>5 DEF Inv

(* The program starts anew at the bottom of the stack.                                    *)
LEMMA Bottomed ==
  ASSUME NEW op \in Bottom
  PROVE  StackOf(<<Frame(op, Shell)>>) /\ Prints(<<Frame(op, Shell)>>)
<1>1. Frame(op, Shell) \in Frames /\ Frame(op, Shell).op = op
  BY FrameTyped
<1> QED BY <1>1, OneFrame DEF Prints, Bottom

(* A new call prints only to a viewer with nothing pending.                               *)
LEMMA Called ==
  ASSUME NEW st, StackOf(st), NEW op \in Calls, NEW m \in Viewers \cup {Shell},
         op # "read" => m \in world.viewers,
         ~world.burst => op \notin {"write", "drop"} /\ st[Len(st)].op # "print",
         op = "print" => world.burst \/ link[m].wbuffer = <<>>
  PROVE  StackOf(Append(st, Frame(op, m))) /\ Prints(Append(st, Frame(op, m)))
<1>1. Frame(op, m) \in Frames /\ Frame(op, m).op = op /\ Frame(op, m).m = m
  BY FrameTyped
<1> QED BY <1>1, CallMade DEF Prints

(* What is below a call does not print when nothing is printed while output is pending.   *)
LEMMA Returned ==
  ASSUME Inv, Top.op \notin Bottom
  PROVE  StackOf(Return) /\ Prints(Return) /\ (~world.burst => Return[Len(Return)].op # "print")
BY CallReturns DEF Inv, Typed, Top, Return, Prints

(* A loop goes on.                                                                        *)
LEMMA ServedOn ==
  ASSUME Inv, NEW r \in SUBSET (Viewers \cup {Shell}), NEW w \in SUBSET Viewers, Looping
  PROVE  /\ StackOf(Served(r, w)) /\ Prints(Served(r, w))
         /\ Served(r, w)[Len(Served(r, w))].op # "print"
<1>1. StackOf(Served(r, w)) /\ Served(r, w)[Len(Served(r, w))].op = Top.op
  BY FrameServed DEF Inv, Typed
<1> QED BY <1>1 DEF Looping, Prints

(* What may be printed to.                                                               *)
LEMMA PrintTo ==
  ASSUME Inv, NEW p, MayPrint(p), Top.op # "print"
  PROVE  StackOf(Call(Printing(p), p)) /\ Prints(Call(Printing(p), p))
<1>1. p \in world.viewers /\ p \in Viewers
  BY WorldFacts DEF MayPrint, Inv
<1>2. Printing(p) \in Calls /\ (Printing(p) = "print" => link[p].wbuffer = <<>>)
      /\ (~world.burst => Printing(p) = "print")
  BY DEF Printing, Calls, MayPrint
<1> QED BY <1>1, <1>2, Called, WorldFacts DEF Call, Inv

(* The shell waits, runs commands, shows things in viewers and recovers.                  *)
LEMMA PromptSteps ==
  ASSUME Inv, Await \/ CommandEnds \/ Recover \/ (\E p \in world.viewers : Launch(p))
  PROVE  Inv'
<1>1. UNCHANGED <<channels, wmask, link, world>>
  BY DEF Await, CommandEnds, Recover, Launch
<1>2. StackOf(stack') /\ Prints(stack')
  <2>1. CASE Await
    <3>1. CASE stack' = <<Frame("command", Shell)>>
      BY <3>1, Bottomed DEF Bottom
    <3>2. CASE stack' = Call("read", Shell) /\ Top.op = "prompt"
      BY <3>2, Called, WorldFacts DEF Call, Inv, Calls
    <3> QED BY <2>1, <3>1, <3>2 DEF Await
  <2>2. CASE CommandEnds \/ Recover
    BY <2>2, Bottomed DEF CommandEnds, Recover, Prompt, Bottom
  <2>3. ASSUME NEW p \in world.viewers, Launch(p) PROVE StackOf(stack') /\ Prints(stack')
    BY <2>3, PrintTo DEF Launch
  <2> QED BY <2>1, <2>2, <2>3
<1> QED BY <1>1, <1>2, LinkSame, QuietStep DEF Inv, Typed

(* A loop finds out who is ready, or gives up.                                            *)
LEMMA LoopSteps ==
  ASSUME Inv, Select \/ WriteStalls
  PROVE  Inv'
<1>1. UNCHANGED <<channels, wmask, link, world>>
  BY DEF Select, WriteStalls
<1>2. StackOf(stack') /\ Prints(stack')
  <2>1. CASE Select
    BY <2>1, WorldFacts, ServedOn DEF Select, Selecting, Inv
  <2>2. CASE WriteStalls
    <3>1. Top.op = "write" /\ Top.op \notin Bottom /\ stack' = Append(Return, Frame("drop", Top.m))
      BY <2>2 DEF WriteStalls, Bottom
    <3>2. world.burst /\ Top.m \in world.viewers /\ Top.m \in Viewers
      BY <3>1, WorldFacts DEF Inv, Placed, Calls
    <3> QED BY <3>1, <3>2, Returned, Called DEF Calls
  <2> QED BY <2>1, <2>2
<1> QED BY <1>1, <1>2, LinkSame, QuietStep DEF Inv, Typed

(* A channel is read, or closed.                                                         *)
LEMMA DidRead ==
  ASSUME Inv, NEW p \in channels, NEW data, NEW end, do_read(p, data, end), UNCHANGED world
  PROVE  /\ channels' \subseteq channels /\ wmask' \subseteq world.viewers
         /\ link' \in [world.viewers -> Links] /\ \A o \in world.viewers : Len(link'[o].out) <= Capacity
         /\ \A o \in world.viewers : Apart(link'[o], link[o])
         /\ stack' = data \/ stack' = end
<1>1. p \in world.viewers /\ wmask \subseteq world.viewers
  BY WorldFacts DEF Inv
<1>2. CASE /\ link[p].in = <<>> /\ link[p].state = "gone" /\ forget(p) /\ stack' = end /\ UNCHANGED link
  BY <1>1, <1>2, LinkSame DEF forget, Inv
<1>3. ASSUME NEW n \in 1..Len(link[p].in),
             link' = [link EXCEPT ![p].rbuffer = @ \o SubSeq(link[p].in, 1, n),
                                  ![p].in = SubSeq(@, n + 1, Len(@))],
             stack' = data /\ UNCHANGED <<channels, wmask>>
      PROVE  /\ channels' \subseteq channels /\ wmask' \subseteq world.viewers
             /\ link' \in [world.viewers -> Links] /\ \A o \in world.viewers : Len(link'[o].out) <= Capacity
             /\ \A o \in world.viewers : Apart(link'[o], link[o])
             /\ stack' = data
  <2>1. PICK l \in Links : l = link[p]
    BY <1>1 DEF Inv, Typed
  <2>2. l.in \in Seq(Pieces) /\ l.rbuffer \in Seq(Pieces) /\ Len(l.in) \in Nat /\ n \in 1..Len(l.in)
    BY <2>1, LinkParts, LenProperties
  <2>3. \A i \in 1..Len(l.in) : l.in[i] \in Pieces
    BY <2>2, ElementOfSeq
  <2>4. SubSeq(l.in, 1, n) \in Seq(Pieces)
    <3>1. n \in Int /\ 1 \in Int /\ \A i \in 1..n : i \in 1..Len(l.in)
      BY ONLY <2>2
    <3> QED BY ONLY <2>3, <3>1, SubSeqProperties
  <2>5. SubSeq(l.in, n + 1, Len(l.in)) \in Seq(Pieces)
    <3>1. n + 1 \in Int /\ Len(l.in) \in Int /\ \A i \in n + 1 .. Len(l.in) : i \in 1..Len(l.in)
      BY ONLY <2>2
    <3> QED BY ONLY <2>3, <3>1, SubSeqProperties
  <2>6. l.rbuffer \o SubSeq(l.in, 1, n) \in Seq(Pieces)
    BY <2>2, <2>4, ConcatProperties
  <2>7. PICK rb \in Seq(Pieces), in \in Seq(Pieces) :
          link' = [link EXCEPT ![p] = [l EXCEPT !.rbuffer = rb, !.in = in]]
    <3>1. link' = [link EXCEPT ![p] = [l EXCEPT !.rbuffer = l.rbuffer \o SubSeq(l.in, 1, n),
                                                !.in = SubSeq(l.in, n + 1, Len(l.in))]]
      BY <1>1, <1>3, <2>1 DEF Inv, Typed, Links
    <3> QED BY <2>5, <2>6, <3>1
  <2>8. [l EXCEPT !.rbuffer = rb, !.in = in] \in Links /\ Apart([l EXCEPT !.rbuffer = rb, !.in = in], l)
    BY DEF Links, Apart
  <2> QED BY <1>1, <1>3, <2>1, <2>7, <2>8, LinkChanged DEF Inv
<1> QED BY <1>2, <1>3 DEF do_read

(* A key is read, or the library aborts.                                                  *)
LEMMA KeyRead ==
  ASSUME NEW next, StackOf(next), Prints(next), callback_read_char(next)
  PROVE  StackOf(stack') /\ Prints(stack')
BY Bottomed DEF callback_read_char, Bottom

(* A loop has found what it waits for.                                                    *)
LEMMA ReadMemberStep ==
  ASSUME Inv, ReadMember
  PROVE  Inv'
<1>1. Top.op \notin Bottom /\ UNCHANGED world
  BY DEF ReadMember, Bottom
<1>2. StackOf(Return) /\ Prints(Return)
  BY <1>1, Returned
<1>3. CASE callback_read_char(Return) /\ UNCHANGED <<channels, wmask, link>>
  BY <1>1, <1>2, <1>3, KeyRead, LinkSame, QuietStep DEF Inv, Typed
<1>4. CASE Top.m # Shell /\ do_read(Top.m, Return, Return)
  <2>1. Top.m \in channels
    BY <1>4, WorldFacts DEF ReadMember, Inv
  <2> QED BY <1>1, <1>2, <1>4, <2>1, DidRead, QuietStep
<1> QED BY <1>3, <1>4 DEF ReadMember

(* A loop serves a channel with output pending.                                           *)
LEMMA ServeOutputStep ==
  ASSUME Inv, NEW p \in world.viewers \cup {Shell}, ServeOutput(p)
  PROVE  Inv'
<1> DEFINE next == Served(Top.r, Top.w \ {p})
<1>1. UNCHANGED <<channels, wmask, link, world>> /\ Looping
  BY DEF ServeOutput
<1>2. Top.r \in SUBSET (Viewers \cup {Shell}) /\ Top.w \ {p} \in SUBSET Viewers
  BY WorldFacts DEF Inv, Frames
<1>3. StackOf(next) /\ next[Len(next)].op # "print"
  BY <1>1, <1>2, ServedOn
<1>4. (stack' = Append(next, Frame("flush", p)) /\ p \in channels) \/ stack' = <<Frame("failed", Shell)>>
  BY DEF ServeOutput
<1> HIDE DEF next
<1>5. StackOf(stack') /\ Prints(stack')
  <2>1. CASE stack' = Append(next, Frame("flush", p)) /\ p \in channels
    BY <1>3, <2>1, Called, WorldFacts DEF Calls, Inv
  <2>2. CASE stack' = <<Frame("failed", Shell)>>
    BY <2>2, Bottomed DEF Bottom
  <2> QED BY <1>4, <2>1, <2>2
<1> QED BY <1>1, <1>5, LinkSame, QuietStep DEF Inv, Typed

(* A loop serves a channel that has something to be read.                                 *)
LEMMA ServeInputStep ==
  ASSUME Inv, NEW p \in world.viewers \cup {Shell}, ServeInput(p)
  PROVE  Inv'
<1> DEFINE next == Served(Top.r \ {p}, {})
<1>1. UNCHANGED world /\ Looping
  BY DEF ServeInput
<1>2. Top.r \ {p} \in SUBSET (Viewers \cup {Shell}) /\ {} \in SUBSET Viewers
  BY WorldFacts DEF Inv, Frames
<1>3. StackOf(next) /\ Prints(next) /\ next[Len(next)].op # "print"
  BY <1>1, <1>2, ServedOn
<1>4. \/ callback_read_char(next) /\ UNCHANGED <<channels, wmask, link>>
      \/ p \in channels /\ do_read(p, Append(next, FeedbackFrame(p)), next)
      \/ stack' = <<Frame("failed", Shell)>> /\ UNCHANGED <<channels, wmask, link>>
  BY DEF ServeInput
<1> HIDE DEF next
<1>5. CASE callback_read_char(next) /\ UNCHANGED <<channels, wmask, link>>
  BY <1>1, <1>3, <1>5, KeyRead, LinkSame, QuietStep DEF Inv, Typed
<1>6. CASE p \in channels /\ do_read(p, Append(next, FeedbackFrame(p)), next)
  <2>1. p \in world.viewers /\ p \in Viewers
    BY <1>6, WorldFacts DEF Inv
  <2>2. Len(link[p].rbuffer) \in Nat
    <3>1. link[p] \in Links
      BY <2>1 DEF Inv, Typed
    <3> QED BY <3>1, LinkParts, LenProperties
  <2>3. FeedbackFrame(p) \in Frames /\ FeedbackFrame(p).op = "feedback" /\ FeedbackFrame(p).m = p
    BY <2>1, <2>2 DEF FeedbackFrame, Frame, Frames, Calls
  <2>4. /\ StackOf(Append(next, FeedbackFrame(p))) /\ Prints(Append(next, FeedbackFrame(p)))
    BY <1>3, <2>1, <2>3, CallMade DEF Calls, Prints
  <2> QED BY <1>1, <1>3, <1>6, <2>4, DidRead, QuietStep
<1>7. CASE stack' = <<Frame("failed", Shell)>> /\ UNCHANGED <<channels, wmask, link>>
  BY <1>1, <1>7, Bottomed, LinkSame, QuietStep DEF Inv, Typed, Bottom
<1> QED BY <1>4, <1>5, <1>6, <1>7

-----------------------------------------------------------------------------
(* Steps of polymake that change what is pending.                                        *)

(* The invariant when one link changes and the stack after it is known.                  *)
LEMMA LinkStep ==
  ASSUME Inv, NEW p \in world.viewers, NEW l \in Links, link' = [link EXCEPT ![p] = l],
         world' = world, channels' \subseteq channels, wmask' \subseteq world.viewers,
         Len(l.out) <= Capacity, Sorted(l),
         ~world.burst /\ p \in channels' => Gapless(l),
         StackOf(stack'), ~world.burst => stack'[Len(stack')].op # "print"
  PROVE  Inv'
<1>1. StackOf(stack)' /\ Top' = stack'[Len(stack')]
  BY DEF StackOf, Placed, Top
<1>2. /\ OrderInv' /\ link' \in [world.viewers -> Links]
      /\ \A o \in world.viewers : Len(link'[o].out) <= Capacity
  BY <1>1, OneLink
<1> QED BY <1>1, <1>2 DEF Inv, Typed

(* Two elements are appended at once.                                                    *)
LEMMA TwoAppended ==
  ASSUME NEW S, NEW s \in Seq(S), NEW a \in S, NEW b \in S
  PROVE  s \o <<a, b>> = Append(Append(s, a), b)
<1> DEFINE two == <<a, b>>
           t == Append(s, a)
           u == Append(t, b)
<1>1. two \in Seq(S) /\ Len(two) = 2 /\ two[1] = a /\ two[2] = b
  OBVIOUS
<1> HIDE DEF two
<1>2. /\ s \o two \in Seq(S) /\ Len(s \o two) = Len(s) + 2 /\ Len(s) \in Nat
      /\ \A i \in 1..Len(s) + 2 : (s \o two)[i] = IF i <= Len(s) THEN s[i] ELSE two[i - Len(s)]
  <2>1. /\ s \o two \in Seq(S) /\ Len(s \o two) = Len(s) + Len(two)
        /\ \A i \in 1..Len(s) + Len(two) :
             (s \o two)[i] = IF i <= Len(s) THEN s[i] ELSE two[i - Len(s)]
    BY <1>1, ConcatProperties
  <2>2. Len(s) \in Nat
    BY LenProperties
  <2> QED BY ONLY <1>1, <2>1, <2>2
<1>3. /\ t \in Seq(S) /\ Len(t) = Len(s) + 1 /\ t[Len(s) + 1] = a
      /\ \A i \in 1..Len(s) : t[i] = s[i]
  BY <1>2, AppendProperties
<1> HIDE DEF t
<1>4. /\ u \in Seq(S) /\ Len(u) = Len(s) + 2 /\ u[Len(s) + 2] = b
      /\ \A i \in 1..Len(s) + 1 : u[i] = t[i]
  BY <1>2, <1>3, AppendProperties
<1> HIDE DEF u
<1>5. \A i \in 1..Len(s) + 2 : (s \o two)[i] = u[i]
  <2> SUFFICES ASSUME NEW i \in 1..Len(s) + 2 PROVE (s \o two)[i] = u[i]
    OBVIOUS
  <2>1. CASE i <= Len(s)
    <3>1. i \in 1..Len(s) /\ i \in 1..Len(s) + 1
      BY ONLY <1>2, <2>1, i \in 1..Len(s) + 2
    <3> QED BY <1>2, <1>3, <1>4, <2>1, <3>1
  <2>2. CASE i = Len(s) + 1
    <3>1. i \in 1..Len(s) + 1 /\ ~(i <= Len(s)) /\ i - Len(s) = 1
      BY ONLY <1>2, <2>2
    <3> QED BY <1>1, <1>2, <1>3, <1>4, <2>2, <3>1
  <2>3. CASE i = Len(s) + 2
    <3>1. ~(i <= Len(s)) /\ i - Len(s) = 2
      BY ONLY <1>2, <2>3
    <3> QED BY <1>1, <1>2, <1>4, <2>3, <3>1
  <2> QED BY <1>2, <2>1, <2>2, <2>3
<1>6. s \o two = u
  BY <1>2, <1>4, <1>5, SeqEqual
<1> QED BY <1>6 DEF two, t, u

(* The text is appended to what is pending when it has been drained: two calls at once.  *)
LEMMA WriteMemberStep ==
  ASSUME Inv, WriteMember
  PROVE  Inv'
<1>1. /\ UNCHANGED <<channels, wmask, link, world>> /\ Top.op = "write" /\ Top.op \notin Bottom
      /\ stack' = Return \o <<Frame("print", Top.m), Frame("flush", Top.m)>>
  BY DEF WriteMember, Bottom
<1>2. world.burst /\ Top.m \in world.viewers /\ Top.m \in Viewers
  BY <1>1, WorldFacts DEF Inv, Placed, Calls
<1>3. StackOf(Return)
  BY <1>1, Returned
<1>4. PICK s, a, b : s = Return /\ a = Frame("print", Top.m) /\ b = Frame("flush", Top.m)
  OBVIOUS
<1>5. a \in Frames /\ a.op = "print" /\ a.m = Top.m /\ b \in Frames /\ b.op = "flush" /\ b.m = Top.m
  BY <1>2, <1>4, FrameTyped DEF Calls
<1>6. StackOf(Append(s, a))
  BY <1>2, <1>3, <1>4, <1>5, CallMade DEF Calls
<1>7. StackOf(Append(Append(s, a), b))
  BY <1>2, <1>5, <1>6, CallMade DEF Calls
<1>8. s \o <<a, b>> = Append(Append(s, a), b)
  BY <1>3, <1>4, <1>5, TwoAppended DEF StackOf
<1>9. StackOf(stack') /\ Prints(stack')
  BY <1>1, <1>2, <1>4, <1>7, <1>8 DEF Prints
<1> QED BY <1>1, <1>9, LinkSame, QuietStep DEF Inv, Typed

(* What cannot be appended is counted as printed.                                        *)
LEMMA DropStep ==
  ASSUME Inv, Drop
  PROVE  Inv'
<1>1. /\ UNCHANGED <<channels, wmask, world>> /\ Top.op = "drop" /\ Top.op \notin Bottom
      /\ link' = [link EXCEPT ![Top.m].sent = @ + PrintSize] /\ stack' = Return
  BY DEF Drop, Dropped, Bottom
<1>2. world.burst /\ Top.m \in world.viewers /\ Top.m \in Viewers
  BY <1>1, WorldFacts DEF Inv, Placed, Calls
<1>3. StackOf(stack')
  BY <1>1, Returned
<1>4. PICK l \in Links : l = link[Top.m]
  BY <1>2 DEF Inv, Typed
<1>5. /\ l.sent \in Nat /\ PrintSize \in Nat /\ l.got \in Nat
      /\ Sorted(l) /\ Len(l.out) <= Capacity
  BY <1>2, <1>4, LinkParts, Sizes DEF Inv, Typed, OrderInv
<1>6. PICK sent \in Nat : sent = l.sent + PrintSize
  BY <1>5
<1>7. PICK k : k = [l EXCEPT !.sent = sent]
  OBVIOUS
<1>8. k \in Links /\ k.out = l.out /\ k.wbuffer = l.wbuffer /\ k.got = l.got /\ k.sent = sent
  BY <1>7 DEF Links
<1>9. Sorted(k)
  <2>1. Pending(k) = Pending(l)
    BY <1>8 DEF Pending
  <2>2. ASSUME NEW x \in Nat, x <= l.sent PROVE x <= sent
    BY ONLY <1>5, <1>6, <2>2
  <2>3. \A i \in 1..Len(Pending(l)) : Pending(l)[i] \in Nat
    BY PendingAt
  <2> QED BY <1>5, <1>8, <2>1, <2>2, <2>3 DEF Sorted
<1>10. link' = [link EXCEPT ![Top.m] = k]
  BY <1>1, <1>4, <1>6, <1>7
<1> QED BY <1>1, <1>2, <1>3, <1>5, <1>8, <1>9, <1>10, WorldFacts, LinkStep DEF Inv

(* Of the lines read there is a first one.                                               *)
LEMMA FirstLine ==
  ASSUME NEW q \in Seq(Pieces), "line" \in ToSet(q)
  PROVE  (CHOOSE i \in DOMAIN q : q[i] = "line" /\ \A j \in 1..(i - 1) : q[j] # "line") \in 1..Len(q)
<1> DEFINE L == {i \in 1..Len(q) : q[i] = "line"}
           S == 1..Len(q)
           T == {1..i : i \in L}
<1>1. Len(q) \in Nat /\ DOMAIN q = 1..Len(q)
  BY LenProperties
<1>2. PICK s \in T : \A t \in T : t \subseteq s => t = s
  <2>1. T \subseteq SUBSET S /\ T # {}
    <3>1. \A i \in 1..Len(q) : 1..i \in SUBSET (1..Len(q))
      BY <1>1
    <3>2. L # {} /\ L \subseteq 1..Len(q)
      BY <1>1 DEF ToSet
    <3> HIDE DEF L
    <3> QED BY <3>1, <3>2
  <2>2. IsFiniteSet(S)
    BY <1>1, FS_Interval
  <2> HIDE DEF S, T
  <2> QED BY <2>1, <2>2, MinimalSubset
<1>3. PICK i \in L : s = 1..i
  OBVIOUS
<1>4. ASSUME NEW j \in 1..(i - 1) PROVE q[j] # "line"
  <2>1. j \in 1..Len(q) /\ 1..j \subseteq 1..i /\ i \in 1..i /\ i \notin 1..j
    BY <1>1
  <2>2. 1..j # s
    BY <1>3, <2>1
  <2> QED BY <1>2, <1>3, <2>1, <2>2
<1>5. i \in DOMAIN q /\ q[i] = "line"
  BY <1>1
<1> QED BY <1>1, <1>4, <1>5

(* The watcher takes a line, answers it or waits for its rest.                           *)
LEMMA FeedbackStep ==
  ASSUME Inv, Feedback
  PROVE  Inv'
<1>1. UNCHANGED <<channels, wmask, world>> /\ Top.op = "feedback" /\ Top.op \notin Bottom
  BY DEF Feedback, Bottom
<1>2. Top.m \in world.viewers /\ Top.m \in Viewers /\ StackOf(stack) /\ Top = stack[Len(stack)]
  BY <1>1, WorldFacts DEF Inv, Placed, Calls
<1>3. StackOf(stack) /\ Prints(stack)
  BY <1>1, <1>2 DEF Prints
<1>4. PICK p \in world.viewers, l \in Links : p = Top.m /\ l = link[p]
  BY <1>2 DEF Inv, Typed
<1>5. CASE stack' = Return /\ UNCHANGED link
  BY <1>1, <1>5, Returned, LinkSame, QuietStep DEF Inv, Typed
<1>6. CASE stack' = Call("read", Top.m) /\ UNCHANGED link
  <2>1. StackOf(stack') /\ Prints(stack')
    BY <1>1, <1>2, <1>6, Called DEF Call, Calls
  <2> QED BY <1>1, <1>6, <2>1, LinkSame, QuietStep DEF Inv, Typed
<1>7. CASE /\ "line" \in ToSet(link[Top.m].rbuffer)
           /\ link' = [link EXCEPT ![Top.m].rbuffer = SubSeq(link[Top.m].rbuffer,
                (CHOOSE i \in DOMAIN link[Top.m].rbuffer : link[Top.m].rbuffer[i] = "line"
                   /\ \A j \in 1..(i - 1) : link[Top.m].rbuffer[j] # "line") + 1, Len(link[Top.m].rbuffer))]
           /\ \/ UNCHANGED stack
              \/ world.answers /\ MayPrint(Top.m) /\ stack' = Call(Printing(Top.m), Top.m)
  <2>1. l.rbuffer \in Seq(Pieces) /\ Len(l.rbuffer) \in Nat
    BY LinkParts, LenProperties
  <2>2. PICK n \in 1..Len(l.rbuffer) : link' = [link EXCEPT ![p].rbuffer = SubSeq(l.rbuffer, n + 1, Len(l.rbuffer))]
    <3>1. link[Top.m].rbuffer \in Seq(Pieces)
      BY <1>4, <2>1
    <3>2. \E n \in 1..Len(link[Top.m].rbuffer) :
            link' = [link EXCEPT ![Top.m].rbuffer = SubSeq(link[Top.m].rbuffer, n + 1, Len(link[Top.m].rbuffer))]
      BY <1>7, <3>1, FirstLine
    <3> QED BY <1>4, <3>2
  <2>3. SubSeq(l.rbuffer, n + 1, Len(l.rbuffer)) \in Seq(Pieces)
    <3>1. n + 1 \in Int /\ Len(l.rbuffer) \in Int /\ \A i \in n + 1 .. Len(l.rbuffer) : i \in 1..Len(l.rbuffer)
      BY ONLY <2>1, n \in 1..Len(l.rbuffer)
    <3>2. \A i \in 1..Len(l.rbuffer) : l.rbuffer[i] \in Pieces
      BY <2>1, ElementOfSeq
    <3> QED BY ONLY <3>1, <3>2, SubSeqProperties
  <2>4. PICK rb \in Seq(Pieces) : link' = [link EXCEPT ![p] = [l EXCEPT !.rbuffer = rb]]
    BY <1>4, <2>2, <2>3 DEF Inv, Typed, Links
  <2>5. [l EXCEPT !.rbuffer = rb] \in Links /\ Apart([l EXCEPT !.rbuffer = rb], l)
    BY DEF Links, Apart
  <2>6. StackOf(stack') /\ Prints(stack')
    <3>1. CASE UNCHANGED stack
      BY <1>3, <3>1
    <3>2. CASE MayPrint(Top.m) /\ stack' = Call(Printing(Top.m), Top.m)
      BY <1>1, <3>2, PrintTo
    <3> QED BY <1>7, <3>1, <3>2
  <2>7. /\ link' \in [world.viewers -> Links] /\ \A o \in world.viewers : Len(link'[o].out) <= Capacity
        /\ \A o \in world.viewers : Apart(link'[o], link[o])
    BY <1>4, <2>4, <2>5, LinkChanged DEF Inv
  <2> QED BY <1>1, <2>6, <2>7, WorldFacts, QuietStep DEF Inv
<1>8. \/ stack' = Return /\ UNCHANGED link
      \/ stack' = Call("read", Top.m) /\ UNCHANGED link
      \/ /\ "line" \in ToSet(link[Top.m].rbuffer)
         /\ link' = [link EXCEPT ![Top.m].rbuffer = SubSeq(link[Top.m].rbuffer,
                (CHOOSE i \in DOMAIN link[Top.m].rbuffer : link[Top.m].rbuffer[i] = "line"
                   /\ \A j \in 1..(i - 1) : link[Top.m].rbuffer[j] # "line") + 1, Len(link[Top.m].rbuffer))]
         /\ \/ UNCHANGED stack
            \/ world.answers /\ MayPrint(Top.m) /\ stack' = Call(Printing(Top.m), Top.m)
  BY Zenon DEF Feedback
<1> QED BY <1>5, <1>6, <1>7, <1>8, Zenon

(* What is pending is written as far as there is room, and nothing of it is lost.        *)
LEMMA FlushStep ==
  ASSUME Inv, Flush
  PROVE  Inv'
<1>1. UNCHANGED world /\ Top.op = "flush" /\ Top.op \notin Bottom
  BY DEF Flush, Bottom
<1>2. /\ Top.m \in world.viewers /\ Top.m \in Viewers /\ StackOf(stack) /\ Top = stack[Len(stack)]
      /\ wmask \subseteq world.viewers
  BY <1>1, WorldFacts DEF Inv, Placed, Calls
<1>3. StackOf(Return) /\ Prints(Return) /\ (~world.burst => Return[Len(Return)].op # "print")
  BY <1>1, Returned
<1>4. CASE /\ forget(Top.m) /\ UNCHANGED link
           /\ stack' = IF Last(Return) = Frame("print", Top.m) THEN Front(Return) ELSE Return
  <2>1. CASE stack' = Return
    BY <1>1, <1>2, <1>3, <1>4, <2>1, LinkSame, QuietStep DEF Inv, Typed, forget
  <2>2. CASE stack' = Front(Return) /\ Last(Return) = Frame("print", Top.m)
    <3>1. Return[Len(Return)].op \notin Bottom
      BY <1>2, <2>2, FrameTyped DEF Last, Bottom, Calls
    <3>2. StackOf(stack') /\ Prints(stack')
      BY <1>3, <2>2, <3>1, CallReturns DEF Prints
    <3> QED BY <1>1, <1>2, <1>4, <3>2, LinkSame, QuietStep DEF Inv, Typed, forget
  <2> QED BY <1>4, <2>1, <2>2
<1>5. CASE /\ link' = [link EXCEPT ![Top.m] = Flushed(@, link[Top.m].wbuffer)]
           /\ (stack' = Return /\ wmask' = wmask \ {Top.m}) \/ UNCHANGED <<stack, wmask>>
           /\ UNCHANGED channels
  <2>1. PICK l \in Links : l = link[Top.m]
    BY <1>2 DEF Inv, Typed
  <2>2. Len(l.out) <= Capacity /\ l.wbuffer \in Seq(Nat) /\ Sorted(l)
        /\ (~world.burst /\ Top.m \in channels => Gapless(l))
    BY <1>2, <2>1, LinkParts DEF Inv, Typed, OrderInv
  <2>3. PICK k \in Links : k = Flushed(l, l.wbuffer)
    BY <2>2, FlushedParts
  <2>4. k.got = l.got /\ k.sent = l.sent /\ Len(k.out) <= Capacity /\ Pending(k) = Pending(l)
    BY <2>2, <2>3, FlushedParts DEF Pending
  <2>5. Sorted(k) /\ (~world.burst /\ Top.m \in channels => Gapless(k))
    BY <2>2, <2>4 DEF Sorted, Gapless
  <2>6. link' = [link EXCEPT ![Top.m] = k]
    BY <1>5, <2>1, <2>3
  <2>7. StackOf(stack') /\ (~world.burst => stack'[Len(stack')].op # "print")
    BY <1>1, <1>2, <1>3, <1>5
  <2> QED BY <1>1, <1>2, <1>5, <2>4, <2>5, <2>6, <2>7, LinkStep
<1> QED BY <1>4, <1>5 DEF Flush

(* What is printed is written as far as there is room, and the rest kept.                *)
LEMMA WriteOutStep ==
  ASSUME Inv, WriteOut
  PROVE  Inv'
<1>1. UNCHANGED world /\ Top.op = "print" /\ Top.op \notin Bottom /\ stack' = Return
  BY DEF WriteOut, Bottom
<1>2. Top.m \in world.viewers /\ Top.m \in Viewers /\ wmask \subseteq world.viewers
  BY <1>1, WorldFacts DEF Inv, Placed, Calls
<1>3. StackOf(Return) /\ Prints(Return) /\ (~world.burst => Return[Len(Return)].op # "print")
  BY <1>1, Returned
<1>4. CASE forget(Top.m) /\ UNCHANGED link
  BY <1>1, <1>2, <1>3, <1>4, LinkSame, QuietStep DEF Inv, Typed, forget
<1>5. CASE /\ link' = [link EXCEPT ![Top.m] =
                Flushed([link[Top.m] EXCEPT !.sent = @ + PrintSize], [i \in 1..PrintSize |-> link[Top.m].sent + i])]
           /\ wmask' = IF link'[Top.m].wbuffer # <<>> THEN wmask \cup {Top.m} ELSE wmask
           /\ UNCHANGED channels
  <2>1. PICK l \in Links : l = link[Top.m]
    BY <1>2 DEF Inv, Typed
  <2>2. /\ Len(l.out) <= Capacity /\ Sorted(l)
        /\ (~world.burst /\ Top.m \in channels => Gapless(l) /\ l.wbuffer = <<>>)
    BY <1>1, <1>2, <2>1 DEF Inv, Typed, OrderInv
  <2>3. l.sent \in Nat /\ PrintSize \in Nat
    BY LinkParts, Sizes
  <2>4. PICK q : q = [i \in 1..PrintSize |-> l.sent + i]
    OBVIOUS
  <2>5. q \in Seq(Nat) /\ Len(q) = PrintSize /\ \A i \in 1..PrintSize : q[i] = l.sent + i
    BY <2>3, <2>4
  <2>6. PICK sent \in Nat : sent = l.sent + PrintSize
    BY <2>3
  <2>7. PICK j : j = [l EXCEPT !.sent = sent]
    OBVIOUS
  <2>8. j \in Links /\ j.out = l.out /\ j.got = l.got /\ j.sent = sent
    BY <2>7 DEF Links
  <2>9. PICK k \in Links : k = Flushed(j, q)
    BY <2>2, <2>5, <2>8, FlushedParts
  <2>10. k.got = l.got /\ k.sent = l.sent + PrintSize /\ Len(k.out) <= Capacity /\ Pending(k) = l.out \o q
    BY <2>2, <2>5, <2>6, <2>8, <2>9, FlushedParts
  <2>11. Sorted(k) /\ (~world.burst /\ Top.m \in channels => Gapless(k))
    BY <2>2, <2>5, <2>10, Printed
  <2>12. link' = [link EXCEPT ![Top.m] = k]
    <3>1. link' = [link EXCEPT ![Top.m] = Flushed([link[Top.m] EXCEPT !.sent = link[Top.m].sent + PrintSize],
                                                  [i \in 1..PrintSize |-> link[Top.m].sent + i])]
      BY <1>5
    <3>2. [link[Top.m] EXCEPT !.sent = link[Top.m].sent + PrintSize] = j
      BY <2>1, <2>6, <2>7
    <3>3. [i \in 1..PrintSize |-> link[Top.m].sent + i] = q
      BY <2>1, <2>4
    <3>4. Flushed([link[Top.m] EXCEPT !.sent = link[Top.m].sent + PrintSize],
                  [i \in 1..PrintSize |-> link[Top.m].sent + i]) = k
      BY <2>9, <3>2, <3>3
    <3> QED BY ONLY <3>1, <3>4
  <2>13. wmask' \subseteq world.viewers
    BY <1>2, <1>5
  <2> QED BY <1>1, <1>2, <1>3, <1>5, <2>10, <2>11, <2>12, <2>13, LinkStep
<1> QED BY <1>4, <1>5 DEF WriteOut

-----------------------------------------------------------------------------
(* The theorem.                                                                          *)

(* At the beginning nothing has been printed.                                            *)
LEMMA InitInv == Init => Inv
<1> SUFFICES ASSUME Init PROVE Inv
  OBVIOUS
<1>1. world \in Circumstances /\ world.viewers \subseteq Viewers
  BY SelectorAssumption DEF Init
<1>2. StackOf(stack) /\ Top.op = "prompt"
  <2>1. Frame("prompt", Shell) \in Frames /\ Frame("prompt", Shell).op = "prompt"
    BY FrameTyped DEF Bottom
  <2> QED BY <2>1, OneFrame DEF Init, Prompt, Top, Bottom
<1>3. PICK l : l = [state |-> "idle", told |-> 0, in |-> <<>>, out |-> <<>>, got |-> 0,
                    sent |-> 0, rbuffer |-> <<>>, wbuffer |-> <<>>]
  OBVIOUS
<1>4. link = [p \in world.viewers |-> l]
  BY <1>3 DEF Init
<1>5. l \in Links /\ l.out = <<>> /\ l.wbuffer = <<>> /\ l.got = 0 /\ l.sent = 0
  <2>1. <<>> \in Seq(Pieces) /\ <<>> \in Seq(Nat)
    BY EmptySeq
  <2> QED BY <1>3, <2>1 DEF Links, States
<1>6. Pending(l) = <<>>
  BY <1>5 DEF Pending
<1>7. Sorted(l) /\ Gapless(l) /\ Len(l.out) <= Capacity
  BY <1>5, <1>6, Sizes, EmptySeq DEF Sorted, Gapless
<1> QED BY <1>1, <1>2, <1>4, <1>5, <1>7 DEF Init, Inv, Typed, OrderInv

(* Every step keeps the invariant.                                                       *)
LEMMA NextInv == Inv /\ [Next]_vars => Inv'
<1> SUFFICES ASSUME Inv, [Next]_vars PROVE Inv'
  OBVIOUS
<1>1. CASE Await \/ CommandEnds \/ (\E p \in world.viewers : Launch(p)) \/ Recover
  BY <1>1, PromptSteps
<1>2. CASE Select \/ WriteStalls
  BY <1>2, LoopSteps
<1>3. CASE ReadMember
  BY <1>3, ReadMemberStep
<1>4. CASE WriteMember
  BY <1>4, WriteMemberStep
<1>5. CASE Drop
  BY <1>5, DropStep
<1>6. ASSUME NEW p \in world.viewers \cup {Shell}, ServeOutput(p) \/ ServeInput(p) PROVE Inv'
  BY <1>6, ServeOutputStep, ServeInputStep
<1>7. CASE Feedback
  BY <1>7, FeedbackStep
<1>8. CASE Flush
  BY <1>8, FlushStep
<1>9. CASE WriteOut
  BY <1>9, WriteOutStep
<1>10. CASE \E p \in world.viewers : Receive(p)
  BY <1>10, ReceiveStep
<1>11. CASE (\E p \in world.viewers : Talk(p) \/ GoOn(p) \/ GoAway(p)) \/ Type \/ Idle
  BY <1>11, OutsideStep
<1>12. CASE UNCHANGED vars
  <2>1. UNCHANGED <<stack, channels, wmask, link, world>>
    BY <1>12 DEF vars
  <2>2. StackOf(stack') /\ Prints(stack')
    BY <2>1, StackKept, WorldFacts DEF Inv, Prints, Top, Typed, StackOf, Placed
  <2> QED BY <2>1, <2>2, LinkSame, QuietStep DEF Inv, Typed
<1> QED BY <1>1, <1>2, <1>3, <1>4, <1>5, <1>6, <1>7, <1>8, <1>9, <1>10, <1>11, <1>12
         DEF Next, Polymake, Environment

(* What is pending is in order, and complete.                                            *)
LEMMA InvImpliesOrder == Inv => OutputInOrder
<1> SUFFICES ASSUME Inv, NEW p \in world.viewers
             PROVE  LET q == Pending(link[p])
                    IN  /\ Ascending(q, link[p].got)
                        /\ ~world.burst /\ p \in channels => Len(q) = link[p].sent - link[p].got
  BY DEF OutputInOrder, Pending
<1>1. PICK l \in Links : l = link[p]
  BY DEF Inv, Typed
<1>2. Sorted(l) /\ (~world.burst /\ p \in channels => Gapless(l))
  BY <1>1 DEF Inv, OrderInv
<1>3. PICK q : q = Pending(l)
  OBVIOUS
<1>4. q \in Seq(Nat) /\ DOMAIN q = 1..Len(q) /\ Len(q) \in Nat
  BY <1>3, PendingLength, LenProperties
<1>5. ASSUME NEW i \in DOMAIN q PROVE q[i] > (IF i = 1 THEN l.got ELSE q[i - 1])
  <2>1. l.got \in Nat /\ q[i] \in Nat
    BY <1>4, LinkParts, ElementOfSeq
  <2>2. CASE i = 1
    BY <1>2, <1>3, <1>4, <2>1, <2>2 DEF Sorted
  <2>3. CASE i # 1
    <3>1. i - 1 \in 1..Len(q) /\ i \in 1..Len(q) /\ i - 1 < i
      BY <1>4, <2>3
    <3>2. q[i - 1] < q[i] /\ q[i - 1] \in Nat
      BY <1>2, <1>3, <1>4, <3>1, ElementOfSeq DEF Sorted
    <3> QED BY <2>1, <2>3, <3>2
  <2> QED BY <2>2, <2>3
<1> QED BY <1>1, <1>2, <1>3, <1>5 DEF Ascending, Gapless

(* However the loops and the viewers interrupt each other, what is printed to a viewer   *)
(* arrives in order, and nothing of it is lost as long as one waits with more until all  *)
(* is gone (Pipe.pm:243-268, :320-340).                                                  *)
THEOREM OutputStaysInOrder == Spec => []OutputInOrder
<1>1. Spec => []Inv
  BY InitInv, NextInv, PTL DEF Spec
<1> QED BY <1>1, InvImpliesOrder, PTL

-----------------------------------------------------------------------------
(* Loops within loops.  In orderly circumstances a loop is never entered from within     *)
(* another, so that what it has found ready stays ready until it is served.              *)

(* The frames of the stack st, when the channels rr can be read and those of wm have     *)
(* output pending: there is one loop at most, the prompt's.                              *)
Serving(st, rr, wm) ==
  \A i \in 1..Len(st) :
    /\ st[i].r \subseteq rr /\ st[i].w \subseteq wm
    /\ st[i].op \in {"prompt", "command", "read", "feedback", "print", "flush"}
    /\ st[i].op = "read" => i = 2 /\ st[i].m = Shell /\ st[1].op = "prompt"
    /\ st[i].op # "read" => st[i].r = {} /\ st[i].w = {}
    /\ st[i].op \in {"print", "flush"} => ~world.closes
    /\ st[i].op = "flush" => \A j \in 1..Len(st) : st[i].m \notin st[j].w

(* A channel which can be read.                                                          *)
Readable(l) == l.in # <<>> \/ l.state = "gone"

(* Lines arrive in one piece, and only those leave who may.                              *)
Lines(l) ==
  l.in \in Seq({"line"}) /\ l.rbuffer \in Seq({"line"}) /\ (l.state = "gone" => world.closes)

Fresh ==
  /\ Serving(stack, ReadReady \ {Shell}, wmask)
  /\ line => Len(stack) = 1 /\ stack[1].op = "prompt"
  /\ world.closes => wmask = {}
  /\ ~world.closes => channels = world.viewers
  /\ \A p \in world.viewers : Lines(link[p])

(* More channels are ready.                                                              *)
LEMMA ServingKept ==
  ASSUME NEW st, NEW rr, NEW wm, Serving(st, rr, wm), NEW rr2, NEW wm2, rr \subseteq rr2, wm \subseteq wm2
  PROVE  Serving(st, rr2, wm2)
BY DEF Serving

(* A call which serves nobody is made.                                                   *)
LEMMA ServingCall ==
  ASSUME NEW st, StackOf(st), NEW rr, NEW wm, Serving(st, rr, wm), NEW f \in Frames, f.r = {}, f.w = {},
         \/ f.op = "read" /\ f.m = Shell /\ st[Len(st)].op = "prompt"
         \/ f.op \in {"print", "flush", "feedback"},
         f.op \in {"print", "flush"} => ~world.closes,
         f.op = "flush" => \A j \in 1..Len(st) : f.m \notin st[j].w
  PROVE  Serving(Append(st, f), rr, wm)
<1> DEFINE new == Append(st, f)
<1>1. st \in Seq(Frames) /\ Len(st) \in Nat \ {0}
  BY StackFacts DEF StackOf
<1>2. /\ Len(new) = Len(st) + 1 /\ new[Len(st) + 1] = f
      /\ \A i \in 1..Len(st) : new[i] = st[i]
  BY <1>1, AppendProperties
<1> HIDE DEF new
<1>3. \A j \in 1..Len(new) : j \in 1..Len(st) \/ j = Len(st) + 1
  BY <1>1, <1>2
<1>4. new[1] = st[1]
  BY <1>1, <1>2
<1>5. f.op = "read" => Len(st) = 1 /\ st[1].op = "prompt"
  <2>1. Placed(st, Len(st))
    BY <1>1 DEF StackOf
  <2>2. st[Len(st)].op = "prompt" => Len(st) = 1
    BY <2>1 DEF Placed, Calls
  <2> QED BY <2>2
<1> SUFFICES ASSUME NEW i \in 1..Len(new)
             PROVE  /\ new[i].r \subseteq rr /\ new[i].w \subseteq wm
                    /\ new[i].op \in {"prompt", "command", "read", "feedback", "print", "flush"}
                    /\ new[i].op = "read" => i = 2 /\ new[i].m = Shell /\ new[1].op = "prompt"
                    /\ new[i].op # "read" => new[i].r = {} /\ new[i].w = {}
                    /\ new[i].op \in {"print", "flush"} => ~world.closes
                    /\ new[i].op = "flush" => \A j \in 1..Len(new) : new[i].m \notin new[j].w
  BY DEF Serving, new
<1>6. CASE i = Len(st) + 1
  <2>1. new[i] = f
    BY <1>2, <1>6
  <2>2. f.op = "read" => i = 2 /\ new[1].op = "prompt"
    <3> SUFFICES ASSUME f.op = "read" PROVE i = 2 /\ new[1].op = "prompt"
      OBVIOUS
    <3>1. Len(st) = 1 /\ st[1].op = "prompt"
      BY <1>5
    <3> QED BY ONLY <1>4, <1>6, <3>1
  <2>3. f.op = "flush" => \A j \in 1..Len(new) : f.m \notin new[j].w
    BY <1>2, <1>3
  <2> QED BY <2>1, <2>2, <2>3
<1>7. CASE i \in 1..Len(st)
  <2>1. new[i] = st[i]
    BY <1>2, <1>7
  <2>2. st[i].op = "flush" => \A j \in 1..Len(new) : st[i].m \notin new[j].w
    BY <1>2, <1>3, <1>7 DEF Serving
  <2> QED BY <1>4, <1>7, <2>1, <2>2 DEF Serving
<1> QED BY <1>3, <1>6, <1>7

(* A call returns.                                                                       *)
LEMMA ServingReturn ==
  ASSUME NEW st, StackOf(st), NEW rr, NEW wm, Serving(st, rr, wm), st[Len(st)].op \notin Bottom
  PROVE  /\ Serving(Front(st), rr, wm) /\ Len(Front(st)) = Len(st) - 1 /\ Len(st) > 1
         /\ Front(st)[1] = st[1]
<1> DEFINE new == Front(st)
<1>1. st \in Seq(Frames) /\ Len(st) \in Nat \ {0} /\ \A i \in 1..Len(st) : Placed(st, i)
  BY StackFacts DEF StackOf
<1>2. Len(st) > 1
  BY <1>1 DEF Placed
<1>3. Len(new) = Len(st) - 1 /\ \A i \in 1..Len(new) : new[i] = st[i]
  <2>1. \A i \in 1..Len(st) - 1 : st[i] \in Frames
    BY <1>1, ElementOfSeq
  <2> QED BY <1>1, <1>2, <2>1, SubSeqProperties DEF Front
<1> HIDE DEF new
<1>4. \A i \in 1..Len(new) : i \in 1..Len(st)
  BY <1>1, <1>3
<1>5. new[1] = st[1]
  BY <1>1, <1>2, <1>3
<1>6. Serving(new, rr, wm)
  BY <1>3, <1>4, <1>5 DEF Serving
<1> QED BY <1>2, <1>3, <1>5, <1>6 DEF new

(* The loop gets other channels to serve.                                                *)
LEMMA ServingServed ==
  ASSUME Inv, NEW rr, NEW wm, Serving(stack, rr, wm), Looping,
         NEW r \in SUBSET (Viewers \cup {Shell}), NEW w \in SUBSET Viewers
  PROVE  Serving(Served(r, w), r, w) /\ Len(stack) = 2
<1> DEFINE st == Served(r, w)
           f == [Top EXCEPT !.r = r, !.w = w]
<1>1. stack \in Seq(Frames) /\ Len(stack) \in Nat \ {0} /\ Top \in Frames /\ Top = stack[Len(stack)]
  BY StackFacts DEF StackOf, Top, Inv, Typed
<1>2. f \in Frames /\ f.op = Top.op /\ f.m = Top.m /\ f.r = r /\ f.w = w
  BY <1>1 DEF Frames
<1>3. st = [stack EXCEPT ![Len(stack)] = f]
  BY DEF Served, Top
<1> HIDE DEF f, st
<1>4. /\ Len(st) = Len(stack)
      /\ \A j \in 1..Len(stack) : st[j] = IF j = Len(stack) THEN f ELSE stack[j]
  BY <1>1, <1>2, <1>3, ExceptSeq
<1>5. Top.op = "read" /\ Len(stack) = 2 /\ Len(stack) \in 1..Len(stack) /\ 1 \in 1..Len(stack)
  <2>1. Len(stack) \in 1..Len(stack) /\ 1 \in 1..Len(stack)
    BY <1>1
  <2>2. stack[Len(stack)].op = "read"
    BY <1>1, <2>1 DEF Looping, Serving
  <2>3. Len(stack) = 2
    BY <2>1, <2>2 DEF Serving
  <2> QED BY <1>1, <2>1, <2>2, <2>3
<1>6. stack[1].op # "flush" /\ stack[1].op # "read" /\ stack[1].w = {}
  <2>1. stack[1].op \in Bottom
    BY <1>5 DEF Inv, Typed, StackOf, Placed
  <2>2. stack[1].op # "flush" /\ stack[1].op # "read"
    BY <2>1 DEF Bottom
  <2> QED BY <1>5, <2>2 DEF Serving
<1>7. \A i \in 1..Len(st) : i = 1 \/ i = 2
  BY <1>4, <1>5
<1>8. st[1] = stack[1] /\ st[2] = f /\ 1 \in 1..Len(stack) /\ 2 \in 1..Len(stack)
  BY <1>4, <1>5
<1>9. /\ st[1].r \subseteq r /\ st[1].w \subseteq w
      /\ st[1].op \in {"prompt", "command", "read", "feedback", "print", "flush"}
      /\ st[1].op # "read" /\ st[1].r = {} /\ st[1].w = {}
      /\ st[1].op \in {"print", "flush"} => ~world.closes
      /\ st[1].op # "flush"
  BY <1>6, <1>8 DEF Serving
<1>10. /\ st[2].r \subseteq r /\ st[2].w \subseteq w /\ st[2].op = "read" /\ st[2].m = Shell
       /\ st[1].op = "prompt"
  BY <1>1, <1>2, <1>5, <1>8 DEF Serving
<1>11. Serving(st, r, w)
  BY <1>7, <1>9, <1>10 DEF Serving
<1> QED BY <1>5, <1>11 DEF st

(* The call at the bottom.                                                               *)
LEMMA ServingBottom ==
  ASSUME NEW op \in {"prompt", "command"}, NEW rr, NEW wm
  PROVE  Serving(<<Frame(op, Shell)>>, rr, wm) /\ Len(<<Frame(op, Shell)>>) = 1
         /\ <<Frame(op, Shell)>>[1].op = op
<1>1. PICK f : f = Frame(op, Shell)
  OBVIOUS
<1>2. f.op = op /\ f.r = {} /\ f.w = {}
  BY <1>1 DEF Frame
<1>3. Len(<<f>>) = 1 /\ <<f>>[1] = f /\ \A i \in 1..Len(<<f>>) : i = 1
  OBVIOUS
<1>4. Serving(<<f>>, rr, wm)
  BY <1>2, <1>3 DEF Serving
<1> QED BY <1>1, <1>2, <1>3, <1>4

(* A channel that stays registered and readable stays ready.                             *)
LEMMA ReadyKept ==
  ASSUME NEW p \in ReadReady \ {Shell}, p \in channels', Readable(link[p]) => Readable(link'[p])
  PROVE  p \in channels /\ Readable(link[p]) /\ p \in (ReadReady \ {Shell})'
BY DEF ReadReady, Readable

(* What is to be shown of a step.                                                        *)
LEMMA FreshStep ==
  ASSUME world' = world, Serving(stack', (ReadReady \ {Shell})', wmask'),
         line' => Len(stack') = 1 /\ stack'[1].op = "prompt",
         world.closes => wmask' = {}, ~world.closes => channels' = world.viewers,
         \A p \in world.viewers : Lines(link'[p])
  PROVE  Fresh'
BY DEF Fresh, Serving, Lines

(* The viewers and the user make nothing less ready.                                     *)
LEMMA OutsideFresh ==
  ASSUME Inv, Orderly, Fresh, UNCHANGED <<stack, channels, wmask, line, world>>,
         \A p \in world.viewers : Lines(link'[p]) /\ (Readable(link[p]) => Readable(link'[p]))
  PROVE  Fresh'
<1>1. ReadReady \ {Shell} \subseteq (ReadReady \ {Shell})'
  BY ReadyKept DEF ReadReady, Inv, Typed
<1>2. Serving(stack, (ReadReady \ {Shell})', wmask)
  BY <1>1, ServingKept DEF Fresh
<1> QED BY <1>2, FreshStep DEF Fresh

(* One link changes.                                                                     *)
LEMMA OtherLines ==
  ASSUME Inv, Fresh, NEW p \in world.viewers, NEW l, link' = [link EXCEPT ![p] = l], Lines(l)
  PROVE  /\ \A o \in world.viewers : Lines(link'[o])
         /\ (Readable(link[p]) => Readable(l)) =>
              \A o \in world.viewers : Readable(link[o]) => Readable(link'[o])
         /\ \A o \in world.viewers : o # p => link'[o] = link[o]
BY DEF Inv, Typed, Fresh

LEMMA ViewersFresh ==
  ASSUME Inv, Orderly, Fresh,
         \/ \E p \in world.viewers : Talk(p) \/ GoOn(p) \/ Receive(p) \/ GoAway(p)
         \/ Type \/ Idle \/ UNCHANGED vars
  PROVE  Fresh'
<1>1. UNCHANGED <<stack, channels, wmask, line, world>>
  BY DEF Talk, GoOn, Receive, GoAway, Type, Idle, vars, Outside
<1>2. CASE UNCHANGED link
  BY <1>1, <1>2, OutsideFresh DEF Fresh
<1>3. ASSUME NEW p \in world.viewers, Talk(p) \/ GoOn(p) \/ Receive(p) \/ GoAway(p)
      PROVE  Fresh'
  <2>1. PICK l \in Links : l = link[p]
    BY DEF Inv, Typed
  <2>2. Lines(l)
    BY <2>1 DEF Fresh
  <2>3. Append(l.in, "line") \in Seq({"line"}) /\ Append(l.in, "line") # <<>>
    <3>1. l.in \in Seq({"line"})
      BY <2>2 DEF Lines
    <3>2. Append(l.in, "line") \in Seq({"line"}) /\ Len(Append(l.in, "line")) = Len(l.in) + 1 /\ Len(l.in) \in Nat
      BY <3>1, AppendProperties
    <3> QED BY <3>2, EmptySeq
  <2>4. PICK k : /\ link' = [link EXCEPT ![p] = k]
                 /\ k.rbuffer = l.rbuffer
                 /\ k.in = l.in \/ k.in = Append(l.in, "line")
                 /\ k.state = "gone" => world.closes
                 /\ l.state = "gone" => k.state = "gone"
    <3>1. CASE Talk(p)
      <4>1. Message = <<"line">> /\ Head(Message) = "line"
        BY DEF Message, Orderly
      <4>2. PICK told, s : /\ link' = [link EXCEPT ![p] = [l EXCEPT !.in = Append(l.in, "line"), !.told = told, !.state = s]]
                           /\ s # "gone" /\ l.state # "gone"
        BY <2>1, <3>1, <4>1 DEF Talk
      <4> QED BY <4>2 DEF Links
    <3>2. CASE GoOn(p)
      <4>1. /\ link' = [link EXCEPT ![p] = [l EXCEPT !.in = Append(l.in, "line"), !.state = "idle"]]
            /\ l.state # "gone"
        BY <2>1, <3>2 DEF GoOn
      <4> QED BY <4>1 DEF Links
    <3>3. CASE Receive(p)
      <4>1. /\ link' = [link EXCEPT ![p] = [l EXCEPT !.got = Head(l.out), !.out = Tail(l.out)]]
        BY <2>1, <3>3 DEF Receive
      <4>2. PICK k : k = [l EXCEPT !.got = Head(l.out), !.out = Tail(l.out)]
        OBVIOUS
      <4>3. k.rbuffer = l.rbuffer /\ k.in = l.in /\ k.state = l.state
        BY <4>2 DEF Links
      <4> QED BY <2>2, <4>1, <4>2, <4>3 DEF Lines
    <3>4. CASE GoAway(p)
      <4>1. link' = [link EXCEPT ![p] = [l EXCEPT !.state = "gone"]] /\ world.closes
        BY <2>1, <3>4 DEF GoAway
      <4> QED BY <4>1 DEF Links
    <3> QED BY <1>3, <3>1, <3>2, <3>3, <3>4
  <2>5. Lines(k) /\ (Readable(l) => Readable(k))
    BY <2>2, <2>3, <2>4 DEF Lines, Readable
  <2>6. \A o \in world.viewers : Lines(link'[o]) /\ (Readable(link[o]) => Readable(link'[o]))
    BY <2>1, <2>4, <2>5, OtherLines
  <2> QED BY <1>1, <2>6, OutsideFresh
<1>4. UNCHANGED link \/ \E p \in world.viewers : Talk(p) \/ GoOn(p) \/ Receive(p) \/ GoAway(p)
  BY DEF Type, Idle, vars
<1> QED BY <1>2, <1>3, <1>4

(* The call on top in orderly circumstances.                                             *)
LEMMA TopFresh ==
  ASSUME Inv, Orderly, Fresh
  PROVE  /\ Top.op \in {"prompt", "command", "read", "feedback", "print", "flush"}
         /\ Top.op \in {"prompt", "command"} => Len(stack) = 1
         /\ Top.op \notin {"prompt", "command"} => Top.op \notin Bottom /\ Len(stack) > 1 /\ ~line
         /\ Top.op \in {"print", "flush"} => ~world.closes
         /\ Top.op = "flush" => \A j \in 1..Len(stack) : Top.m \notin stack[j].w
         /\ line => Top.op = "prompt"
         /\ Top.r \subseteq ReadReady \ {Shell} /\ Top.w \subseteq wmask
<1>1. Len(stack) \in 1..Len(stack) /\ Len(stack) \in Nat /\ 1 \in 1..Len(stack) /\ Top = stack[Len(stack)]
  BY StackFacts DEF Inv, Typed, Top
<1>2. Placed(stack, Len(stack))
  BY WorldFacts DEF Inv
<1>3. /\ Top.op \in {"prompt", "command", "read", "feedback", "print", "flush"}
      /\ Top.op \in {"print", "flush"} => ~world.closes
      /\ Top.op = "flush" => \A j \in 1..Len(stack) : Top.m \notin stack[j].w
      /\ Top.r \subseteq ReadReady \ {Shell} /\ Top.w \subseteq wmask
  BY <1>1 DEF Fresh, Serving
<1>4. Top.op \in {"prompt", "command"} => Len(stack) = 1
  BY <1>1, <1>2 DEF Placed, Calls
<1>5. Top.op \notin {"prompt", "command"} => Top.op \notin Bottom /\ Len(stack) # 1
  BY <1>1, <1>2, <1>3 DEF Placed, Bottom
<1>6. Len(stack) # 1 => Len(stack) > 1
  BY ONLY <1>1
<1>7. line => Len(stack) = 1 /\ Top.op = "prompt"
  BY <1>1 DEF Fresh
<1> QED BY <1>3, <1>4, <1>5, <1>6, <1>7

(* A step that changes neither channels nor what is on its way from the viewers.         *)
LEMMA StackFresh ==
  ASSUME Inv, Orderly, Fresh, UNCHANGED <<channels, world>>,
         \A p \in world.viewers : Lines(link'[p]) /\ (Readable(link[p]) => Readable(link'[p])),
         Serving(stack', ReadReady \ {Shell}, wmask'),
         line' => Len(stack') = 1 /\ stack'[1].op = "prompt",
         world.closes => wmask' = {}
  PROVE  Fresh'
<1>1. ReadReady \ {Shell} \subseteq (ReadReady \ {Shell})'
  BY ReadyKept DEF ReadReady, Inv, Typed
<1>2. Serving(stack', (ReadReady \ {Shell})', wmask')
  BY <1>1, ServingKept
<1> QED BY <1>2, FreshStep DEF Fresh

(* A viewer which is printed to has nothing pending, and does not leave.                 *)
LEMMA PrintFresh ==
  ASSUME Inv, Orderly, Fresh, NEW p, MayPrint(p)
  PROVE  /\ p \in world.viewers /\ Printing(p) = "print" /\ ~world.closes
         /\ Frame("print", p) \in Frames /\ Frame("print", p).op = "print"
         /\ Frame("print", p).r = {} /\ Frame("print", p).w = {}
<1>1. p \in world.viewers /\ p \in Viewers /\ ~world.burst
  BY WorldFacts DEF MayPrint, Inv, Orderly
<1>2. Printing(p) = "print"
  BY <1>1 DEF Printing, MayPrint
<1>3. ~world.closes
  <2> SUFFICES ASSUME world.closes PROVE FALSE
    OBVIOUS
  <2>1. world.prints = 0
    BY DEF Orderly
  <2>2. link[p].sent \in Nat /\ PrintSize \in Nat
    <3>1. link[p] \in Links
      BY <1>1 DEF Inv, Typed
    <3> QED BY <3>1, LinkParts, Sizes
  <2>3. link[p].sent < PrintSize * 0
    BY <2>1 DEF MayPrint
  <2> QED BY ONLY <2>2, <2>3
<1> QED BY <1>1, <1>2, <1>3, FrameTyped DEF Frame, Calls

(* The shell at its prompt, and its commands.                                            *)
LEMMA PromptFresh ==
  ASSUME Inv, Orderly, Fresh, Await \/ CommandEnds \/ Recover \/ (\E p \in world.viewers : Launch(p))
  PROVE  Fresh'
<1>1. UNCHANGED <<channels, wmask, link, world>>
  BY DEF Await, CommandEnds, Recover, Launch
<1>2. StackOf(stack) /\ Top = stack[Len(stack)]
  BY WorldFacts DEF Inv
<1>3. /\ Serving(stack', ReadReady \ {Shell}, wmask')
      /\ line' => Len(stack') = 1 /\ stack'[1].op = "prompt"
  <2>1. CASE Await /\ line
    <3>1. stack' = <<Frame("command", Shell)>> /\ ~line'
      BY <2>1 DEF Await
    <3> QED BY <3>1, ServingBottom
  <2>2. CASE Await /\ ~line
    <3>1. stack' = Append(stack, Frame("read", Shell)) /\ ~line' /\ Top.op = "prompt"
      BY <2>2 DEF Await, Call
    <3>2. PICK f \in Frames : f = Frame("read", Shell)
      BY FrameTyped DEF Calls
    <3>3. f.op = "read" /\ f.m = Shell /\ f.r = {} /\ f.w = {}
      BY <3>2 DEF Frame
    <3>4. Serving(Append(stack, f), ReadReady \ {Shell}, wmask)
      BY <1>2, <3>1, <3>3, ServingCall DEF Fresh
    <3> QED BY <1>1, <3>1, <3>2, <3>4
  <2>3. CASE CommandEnds
    <3>1. stack' = <<Frame("prompt", Shell)>> /\ ~line'
      BY <2>3, TopFresh DEF CommandEnds, Prompt
    <3> QED BY <3>1, ServingBottom
  <2>4. CASE Recover
    BY <2>4, TopFresh DEF Recover
  <2>5. ASSUME NEW p \in world.viewers, Launch(p)
        PROVE  /\ Serving(stack', ReadReady \ {Shell}, wmask')
               /\ line' => Len(stack') = 1 /\ stack'[1].op = "prompt"
    <3>1. MayPrint(p) /\ stack' = Append(stack, Frame(Printing(p), p)) /\ ~line'
      BY <2>5, TopFresh DEF Launch, Call
    <3>2. PICK f \in Frames : f = Frame("print", p)
      BY <3>1, PrintFresh
    <3>3. f.op = "print" /\ f.r = {} /\ f.w = {} /\ ~world.closes /\ stack' = Append(stack, f)
      BY <3>1, <3>2, PrintFresh
    <3>4. Serving(Append(stack, f), ReadReady \ {Shell}, wmask)
      BY <1>2, <3>3, ServingCall DEF Fresh
    <3> QED BY <1>1, <3>1, <3>3, <3>4
  <2> QED BY <2>1, <2>2, <2>3, <2>4, <2>5
<1> QED BY <1>1, <1>3, StackFresh DEF Fresh

(* Loops find out who is ready; the prompt's loop gets its key.                          *)
LEMMA LoopFresh ==
  ASSUME Inv, Orderly, Fresh, Select \/ ReadMember \/ WriteMember \/ WriteStalls \/ Drop
  PROVE  Fresh'
<1>1. StackOf(stack) /\ Top = stack[Len(stack)]
  BY WorldFacts DEF Inv
<1>2. CASE Select
  <2>1. UNCHANGED <<channels, wmask, link, line, world>> /\ Looping /\ Top.op = "read" /\ ~line
        /\ Top.m \notin ReadReady /\ stack' = Served(ReadReady, WriteReady)
    BY <1>2, TopFresh DEF Select, Selecting, Looping
  <2>2. Top.m = Shell
    BY StackFacts, <1>1, <2>1 DEF Fresh, Serving
  <2>3. Serving(stack', ReadReady, WriteReady)
    BY <2>1, WorldFacts, ServingServed DEF Fresh, Inv
  <2>4. Serving(stack', ReadReady \ {Shell}, wmask')
    BY <2>1, <2>2, <2>3, ServingKept DEF WriteReady
  <2> QED BY <2>1, <2>4, StackFresh DEF Fresh
<1>3. CASE ReadMember
  <2>1. Top.op = "read" /\ Top.op \notin {"prompt", "command"} /\ Top.op \notin Bottom
        /\ UNCHANGED world /\ ~line
    BY <1>3, TopFresh DEF ReadMember
  <2>2. Top.m = Shell /\ stack[1].op = "prompt" /\ Len(stack) = 2
    <3>1. Len(stack) \in 1..Len(stack)
      BY StackFacts, <1>1
    <3> QED BY <1>1, <2>1, <3>1 DEF Fresh, Serving
  <2>3. UNCHANGED <<channels, wmask, link>> /\ stack' = Return
    BY <1>3, <2>1, <2>2 DEF ReadMember, callback_read_char
  <2>4. /\ Serving(Return, ReadReady \ {Shell}, wmask) /\ Len(Return) = 1
        /\ Return[1].op = "prompt"
    <3>1. Serving(stack, ReadReady \ {Shell}, wmask) /\ stack[Len(stack)].op \notin Bottom
      BY <1>1, <2>1 DEF Fresh
    <3>2. /\ Serving(Return, ReadReady \ {Shell}, wmask) /\ Len(Return) = Len(stack) - 1
          /\ Return[1] = stack[1]
      BY <1>1, <3>1, ServingReturn DEF Return
    <3> QED BY <2>2, <3>2
  <2> QED BY <2>1, <2>3, <2>4, StackFresh DEF Fresh
<1>4. CASE WriteMember \/ WriteStalls \/ Drop
  BY <1>4, TopFresh DEF WriteMember, WriteStalls, Drop
<1> QED BY <1>2, <1>3, <1>4

(* A channel with output pending is served.                                              *)
LEMMA ServeOutputFresh ==
  ASSUME Inv, Orderly, Fresh, NEW p \in world.viewers \cup {Shell}, ServeOutput(p)
  PROVE  Fresh'
<1> DEFINE next == Served(Top.r, Top.w \ {p})
<1>1. UNCHANGED <<channels, wmask, link, line, world>> /\ Looping /\ p \in Top.w
  BY DEF ServeOutput
<1>2. Top.r \in SUBSET (Viewers \cup {Shell}) /\ Top.w \ {p} \in SUBSET Viewers
      /\ wmask \subseteq world.viewers /\ world.viewers \subseteq Viewers
  BY WorldFacts DEF Inv, Frames
<1>3. Top.r \subseteq ReadReady \ {Shell} /\ Top.w \subseteq wmask /\ ~line
  BY <1>1, TopFresh DEF Looping
<1>4. ~world.closes /\ p \in channels /\ p \in Viewers
  BY <1>1, <1>2, <1>3 DEF Fresh
<1>5. stack' = Append(next, Frame("flush", p))
  BY <1>4 DEF ServeOutput
<1>6. StackOf(next) /\ Serving(next, Top.r, Top.w \ {p})
  BY <1>1, <1>2, ServedOn, ServingServed DEF Fresh
<1> HIDE DEF next
<1>7. PICK f \in Frames : f = Frame("flush", p)
  BY <1>4, FrameTyped DEF Calls
<1>8. f.op = "flush" /\ f.m = p /\ f.r = {} /\ f.w = {}
  BY <1>7 DEF Frame
<1>9. \A j \in 1..Len(next) : p \notin next[j].w
  BY <1>6 DEF Serving
<1>10. Serving(Append(next, f), Top.r, Top.w \ {p})
  BY <1>4, <1>6, <1>8, <1>9, ServingCall
<1>11. Serving(stack', ReadReady \ {Shell}, wmask')
  BY <1>1, <1>3, <1>5, <1>7, <1>10, ServingKept
<1> QED BY <1>1, <1>3, <1>11, StackFresh DEF Fresh

(* Lines and parts of them.                                                              *)
LEMMA LinesCut ==
  ASSUME NEW q \in Seq({"line"}), NEW m \in 1..Len(q) + 1, NEW n \in 0..Len(q)
  PROVE  SubSeq(q, m, n) \in Seq({"line"})
<1>1. Len(q) \in Nat
  BY LenProperties
<1>2. m \in Int /\ n \in Int /\ \A i \in m..n : i \in 1..Len(q)
  BY <1>1
<1>3. \A i \in 1..Len(q) : q[i] \in {"line"}
  BY ElementOfSeq
<1> QED BY ONLY <1>2, <1>3, SubSeqProperties

(* A channel is read that has been found ready.                                          *)
LEMMA ServeInputFresh ==
  ASSUME Inv, Orderly, Fresh, NEW p \in world.viewers \cup {Shell}, ServeInput(p)
  PROVE  Fresh'
<1> DEFINE next == Served(Top.r \ {p}, {})
<1>1. UNCHANGED world /\ Looping /\ p \in Top.r /\ Top.w = {}
  BY DEF ServeInput
<1>2. Top.r \ {p} \in SUBSET (Viewers \cup {Shell}) /\ {} \in SUBSET Viewers
      /\ channels \subseteq world.viewers /\ world.viewers \subseteq Viewers
      /\ ReadReady \subseteq channels \cup {Shell}
  BY WorldFacts DEF Inv, Frames
<1>3. Top.r \subseteq ReadReady \ {Shell} /\ ~line
  BY <1>1, TopFresh DEF Looping
<1>4. p # Shell /\ p \in channels /\ p \in world.viewers
  BY <1>1, <1>2, <1>3
<1>5. do_read(p, Append(next, FeedbackFrame(p)), next) /\ ~line'
  BY <1>3, <1>4 DEF ServeInput
<1>6. StackOf(next) /\ Serving(next, Top.r \ {p}, {})
  BY <1>1, <1>2, ServedOn, ServingServed DEF Fresh
<1> HIDE DEF next
<1>7. PICK l \in Links : l = link[p]
  BY <1>4 DEF Inv, Typed
<1>8. Lines(l)
  BY <1>4, <1>7 DEF Fresh
<1>9. CASE l.in = <<>> /\ l.state = "gone" /\ forget(p) /\ stack' = next /\ UNCHANGED link
  <2>1. world.closes /\ wmask' = {} /\ channels' = channels \ {p}
    BY <1>8, <1>9 DEF Lines, Fresh, forget
  <2>2. Top.r \ {p} \subseteq (ReadReady \ {Shell})'
    BY <1>2, <1>3, <1>9, <2>1, ReadyKept
  <2>3. Serving(stack', (ReadReady \ {Shell})', wmask')
    BY <1>6, <1>9, <2>1, <2>2, ServingKept
  <2> QED BY <1>1, <1>5, <1>9, <2>1, <2>3, FreshStep DEF Fresh
<1>10. ASSUME NEW n \in 1..Len(l.in),
              link' = [link EXCEPT ![p].rbuffer = @ \o SubSeq(link[p].in, 1, n),
                                   ![p].in = SubSeq(@, n + 1, Len(@))],
              stack' = Append(next, FeedbackFrame(p)), UNCHANGED <<channels, wmask>>
       PROVE  Fresh'
  <2>1. l.in \in Seq({"line"}) /\ l.rbuffer \in Seq({"line"}) /\ Len(l.in) \in Nat
    BY <1>8, LenProperties DEF Lines
  <2>2. SubSeq(l.in, 1, n) \in Seq({"line"}) /\ SubSeq(l.in, n + 1, Len(l.in)) \in Seq({"line"})
    BY <2>1, LinesCut
  <2>3. l.rbuffer \o SubSeq(l.in, 1, n) \in Seq({"line"})
    BY <2>1, <2>2, ConcatProperties
  <2>4. PICK rb, in : /\ rb = l.rbuffer \o SubSeq(l.in, 1, n) /\ in = SubSeq(l.in, n + 1, Len(l.in))
    OBVIOUS
  <2>5. link' = [link EXCEPT ![p] = [l EXCEPT !.rbuffer = rb, !.in = in]]
    <3>1. link' = [link EXCEPT ![p] = [l EXCEPT !.rbuffer = l.rbuffer \o SubSeq(l.in, 1, n),
                                                !.in = SubSeq(l.in, n + 1, Len(l.in))]]
      BY <1>4, <1>7, <1>10 DEF Inv, Typed, Links
    <3> QED BY <2>4, <3>1
  <2>6. Lines([l EXCEPT !.rbuffer = rb, !.in = in])
    BY <1>8, <2>2, <2>3, <2>4 DEF Lines, Links
  <2>7. /\ \A o \in world.viewers : Lines(link'[o])
        /\ \A o \in world.viewers : o # p => link'[o] = link[o]
    BY <1>4, <2>5, <2>6, OtherLines
  <2>8. Top.r \ {p} \subseteq (ReadReady \ {Shell})'
    BY <1>2, <1>3, <1>10, <2>7, ReadyKept
  <2>9. PICK f \in Frames : f = FeedbackFrame(p) /\ f.op = "feedback" /\ f.r = {} /\ f.w = {}
    <3>1. Len(link[p].rbuffer) \in Nat
      BY <1>7, LinkParts, LenProperties
    <3>2. p \in Viewers
      BY <1>2, <1>4
    <3>3. FeedbackFrame(p) \in Frames /\ FeedbackFrame(p).op = "feedback"
          /\ FeedbackFrame(p).r = {} /\ FeedbackFrame(p).w = {}
      BY <3>1, <3>2 DEF FeedbackFrame, Frame, Frames, Calls
    <3> QED BY <3>3
  <2>10. Serving(Append(next, f), Top.r \ {p}, {})
    BY <1>6, <2>9, ServingCall
  <2>11. Serving(stack', (ReadReady \ {Shell})', wmask')
    BY <1>10, <2>8, <2>9, <2>10, ServingKept
  <2> QED BY <1>1, <1>5, <1>10, <2>7, <2>11, FreshStep DEF Fresh
<1> QED BY <1>5, <1>7, <1>9, <1>10 DEF do_read

(* The watcher has always got a whole line.                                              *)
LEMMA FeedbackFresh ==
  ASSUME Inv, Orderly, Fresh, Feedback
  PROVE  Fresh'
<1>1. UNCHANGED <<channels, wmask, line, world>> /\ Top.op = "feedback"
  BY DEF Feedback
<1>2. /\ StackOf(stack) /\ Top = stack[Len(stack)] /\ Top \in Frames /\ Top.m \in world.viewers
      /\ Top.op \notin Bottom /\ ~line
  BY <1>1, WorldFacts, TopFresh DEF Inv, Placed, Calls
<1>3. PICK p \in world.viewers, l \in Links : p = Top.m /\ l = link[p]
  BY <1>2 DEF Inv, Typed
<1>4. Lines(l) /\ l.rbuffer \in Seq({"line"}) /\ Len(l.rbuffer) \in Nat
  BY <1>3, LenProperties DEF Fresh, Lines
<1>5. CASE stack' = Return /\ UNCHANGED link
  <2>1. Serving(stack', ReadReady \ {Shell}, wmask')
    BY <1>1, <1>2, <1>5, ServingReturn DEF Fresh, Return
  <2> QED BY <1>1, <1>2, <1>5, <2>1, StackFresh DEF Fresh
<1>6. Len(link[Top.m].rbuffer) <= Top.pos \/ "line" \in ToSet(link[Top.m].rbuffer)
  <2>1. Top.pos \in Nat
    BY <1>2 DEF Frames
  <2>2. Len(l.rbuffer) <= Top.pos \/ 1 \in 1..Len(l.rbuffer)
    BY <1>4, <2>1
  <2>3. 1 \in 1..Len(l.rbuffer) => "line" \in ToSet(l.rbuffer)
    BY <1>4, ElementOfSeq, LenProperties DEF ToSet
  <2> QED BY <1>3, <2>2, <2>3
<1>7. ASSUME NEW n \in 1..Len(l.rbuffer),
             link' = [link EXCEPT ![p].rbuffer = SubSeq(l.rbuffer, n + 1, Len(l.rbuffer))],
             UNCHANGED stack \/ (MayPrint(p) /\ stack' = Call(Printing(p), p))
      PROVE  Fresh'
  <2>1. SubSeq(l.rbuffer, n + 1, Len(l.rbuffer)) \in Seq({"line"})
    BY <1>4, LinesCut
  <2>2. PICK rb \in Seq({"line"}) : link' = [link EXCEPT ![p] = [l EXCEPT !.rbuffer = rb]]
    BY <1>3, <1>7, <2>1 DEF Inv, Typed, Links
  <2>3. Lines([l EXCEPT !.rbuffer = rb]) /\ (Readable(l) => Readable([l EXCEPT !.rbuffer = rb]))
    BY <1>4 DEF Lines, Links, Readable
  <2>4. \A o \in world.viewers : Lines(link'[o]) /\ (Readable(link[o]) => Readable(link'[o]))
    BY <1>3, <2>2, <2>3, OtherLines
  <2>5. Serving(stack', ReadReady \ {Shell}, wmask')
    <3>1. CASE UNCHANGED stack
      BY <1>1, <3>1 DEF Fresh
    <3>2. CASE MayPrint(p) /\ stack' = Call(Printing(p), p)
      <4>1. PICK f \in Frames : f = Frame("print", p)
        BY <3>2, PrintFresh
      <4>2. f.op = "print" /\ f.r = {} /\ f.w = {} /\ ~world.closes /\ stack' = Append(stack, f)
        BY <3>2, <4>1, PrintFresh DEF Call
      <4>3. Serving(Append(stack, f), ReadReady \ {Shell}, wmask)
        BY <1>2, <4>2, ServingCall DEF Fresh
      <4> QED BY <1>1, <4>2, <4>3
    <3> QED BY <1>7, <3>1, <3>2
  <2> QED BY <1>1, <1>2, <2>4, <2>5, StackFresh DEF Fresh
<1>8. CASE /\ "line" \in ToSet(link[Top.m].rbuffer)
           /\ link' = [link EXCEPT ![Top.m].rbuffer = SubSeq(link[Top.m].rbuffer,
                (CHOOSE i \in DOMAIN link[Top.m].rbuffer : link[Top.m].rbuffer[i] = "line"
                   /\ \A j \in 1..(i - 1) : link[Top.m].rbuffer[j] # "line") + 1, Len(link[Top.m].rbuffer))]
           /\ \/ UNCHANGED stack
              \/ world.answers /\ MayPrint(Top.m) /\ stack' = Call(Printing(Top.m), Top.m)
  <2>1. link[Top.m].rbuffer \in Seq(Pieces)
    BY <1>3, LinkParts
  <2>2. \E n \in 1..Len(link[Top.m].rbuffer) :
          link' = [link EXCEPT ![Top.m].rbuffer = SubSeq(link[Top.m].rbuffer, n + 1, Len(link[Top.m].rbuffer))]
    BY <1>8, <2>1, FirstLine
  <2>3. PICK n \in 1..Len(l.rbuffer) : link' = [link EXCEPT ![p].rbuffer = SubSeq(l.rbuffer, n + 1, Len(l.rbuffer))]
    BY <1>3, <2>2
  <2>4. UNCHANGED stack \/ (MayPrint(p) /\ stack' = Call(Printing(p), p))
    BY <1>3, <1>8
  <2> QED BY <1>7, <2>3, <2>4
<1>9. \/ stack' = Return /\ UNCHANGED link
      \/ /\ "line" \in ToSet(link[Top.m].rbuffer)
         /\ link' = [link EXCEPT ![Top.m].rbuffer = SubSeq(link[Top.m].rbuffer,
                (CHOOSE i \in DOMAIN link[Top.m].rbuffer : link[Top.m].rbuffer[i] = "line"
                   /\ \A j \in 1..(i - 1) : link[Top.m].rbuffer[j] # "line") + 1, Len(link[Top.m].rbuffer))]
         /\ \/ UNCHANGED stack
            \/ world.answers /\ MayPrint(Top.m) /\ stack' = Call(Printing(Top.m), Top.m)
  BY <1>6, Zenon DEF Feedback
<1> QED BY <1>5, <1>8, <1>9, Zenon

(* What Flushed leaves alone.                                                            *)
LEMMA FlushedLines ==
  ASSUME NEW l \in Links, NEW q
  PROVE  Flushed(l, q).in = l.in /\ Flushed(l, q).rbuffer = l.rbuffer /\ Flushed(l, q).state = l.state
BY DEF Flushed, Links

(* What is pending is written, and nobody else is waiting for that channel.              *)
LEMMA FlushFresh ==
  ASSUME Inv, Orderly, Fresh, Flush
  PROVE  Fresh'
<1>1. UNCHANGED <<line, world>> /\ Top.op = "flush"
  BY DEF Flush
<1>2. /\ StackOf(stack) /\ Top = stack[Len(stack)] /\ Top.m \in world.viewers /\ Top.op \notin Bottom
      /\ ~line /\ ~world.closes /\ \A j \in 1..Len(stack) : Top.m \notin stack[j].w
  BY <1>1, WorldFacts, TopFresh DEF Inv, Placed, Calls
<1>3. PICK l \in Links : l = link[Top.m] /\ Lines(l)
  BY <1>2 DEF Inv, Typed, Fresh
<1>4. l.state # "gone"
  BY <1>2, <1>3 DEF Lines
<1>5. /\ link' = [link EXCEPT ![Top.m] = Flushed(@, link[Top.m].wbuffer)]
      /\ (stack' = Return /\ wmask' = wmask \ {Top.m}) \/ UNCHANGED <<stack, wmask>>
      /\ UNCHANGED channels
  BY <1>3, <1>4 DEF Flush
<1>6. PICK k : k = Flushed(l, l.wbuffer)
  OBVIOUS
<1>7. Lines(k) /\ (Readable(l) => Readable(k)) /\ link' = [link EXCEPT ![Top.m] = k]
  BY <1>3, <1>5, <1>6, FlushedLines DEF Lines, Readable
<1>8. \A o \in world.viewers : Lines(link'[o]) /\ (Readable(link[o]) => Readable(link'[o]))
  BY <1>2, <1>3, <1>7, OtherLines
<1>9. Serving(stack', ReadReady \ {Shell}, wmask')
  <2>1. CASE UNCHANGED <<stack, wmask>>
    BY <2>1 DEF Fresh
  <2>2. CASE stack' = Return /\ wmask' = wmask \ {Top.m}
    <3>1. Serving(stack, ReadReady \ {Shell}, wmask \ {Top.m})
      BY <1>2 DEF Fresh, Serving
    <3> QED BY <1>2, <2>2, <3>1, ServingReturn DEF Return
  <2> QED BY <1>5, <2>1, <2>2
<1> QED BY <1>1, <1>2, <1>5, <1>8, <1>9, StackFresh

(* What does not fit waits, and who has output pending is known.                         *)
LEMMA WriteOutFresh ==
  ASSUME Inv, Orderly, Fresh, WriteOut
  PROVE  Fresh'
<1>1. UNCHANGED <<line, world>> /\ Top.op = "print" /\ stack' = Return
  BY DEF WriteOut
<1>2. /\ StackOf(stack) /\ Top = stack[Len(stack)] /\ Top.m \in world.viewers /\ Top.op \notin Bottom
      /\ ~line /\ ~world.closes
  BY <1>1, WorldFacts, TopFresh DEF Inv, Placed, Calls
<1>3. PICK l \in Links : l = link[Top.m] /\ Lines(l)
  BY <1>2 DEF Inv, Typed, Fresh
<1>4. l.state # "gone"
  BY <1>2, <1>3 DEF Lines
<1>5. PICK q : q = [i \in 1..PrintSize |-> link[Top.m].sent + i]
  OBVIOUS
<1>6. /\ link' = [link EXCEPT ![Top.m] = Flushed([link[Top.m] EXCEPT !.sent = @ + PrintSize], q)]
      /\ wmask \subseteq wmask' /\ UNCHANGED channels
  BY <1>3, <1>4, <1>5 DEF WriteOut
<1>7. PICK sent \in Nat : sent = l.sent + PrintSize
  BY LinkParts, Sizes
<1>8. PICK j : j = [l EXCEPT !.sent = sent]
  OBVIOUS
<1>9. j \in Links /\ j.in = l.in /\ j.rbuffer = l.rbuffer /\ j.state = l.state
  BY <1>8 DEF Links
<1>10. PICK k : k = Flushed(j, q)
  OBVIOUS
<1>11. Lines(k) /\ (Readable(l) => Readable(k))
  BY <1>3, <1>9, <1>10, FlushedLines DEF Lines, Readable
<1>12. link' = [link EXCEPT ![Top.m] = k]
  <2>1. [link[Top.m] EXCEPT !.sent = link[Top.m].sent + PrintSize] = j
    BY <1>3, <1>7, <1>8
  <2> QED BY <1>6, <1>10, <2>1
<1>13. \A o \in world.viewers : Lines(link'[o]) /\ (Readable(link[o]) => Readable(link'[o]))
  BY <1>2, <1>3, <1>11, <1>12, OtherLines
<1>14. Serving(stack', ReadReady \ {Shell}, wmask')
  <2>1. Serving(Return, ReadReady \ {Shell}, wmask)
    BY <1>2, ServingReturn DEF Fresh, Return
  <2> QED BY <1>1, <1>6, <2>1, ServingKept
<1> QED BY <1>1, <1>2, <1>6, <1>13, <1>14, StackFresh

(* At the beginning nobody is served.                                                    *)
LEMMA InitFresh == Init => Fresh
<1> SUFFICES ASSUME Init PROVE Fresh
  OBVIOUS
<1>1. Serving(stack, ReadReady \ {Shell}, wmask)
  BY ServingBottom DEF Init, Prompt
<1>2. ASSUME NEW p \in world.viewers PROVE Lines(link[p])
  <2>1. link[p].in = <<>> /\ link[p].rbuffer = <<>> /\ link[p].state = "idle"
    BY <1>2 DEF Init
  <2> QED BY <2>1, EmptySeq DEF Lines
<1> QED BY <1>1, <1>2 DEF Init, Fresh

(* Every step keeps what has been found ready ready.                                     *)
LEMMA NextFresh ==
  ASSUME Inv, Orderly, Fresh, [Next]_vars
  PROVE  Fresh'
<1>1. CASE Await \/ CommandEnds \/ (\E p \in world.viewers : Launch(p)) \/ Recover
  BY <1>1, PromptFresh
<1>2. CASE Select \/ ReadMember \/ WriteMember \/ WriteStalls \/ Drop
  BY <1>2, LoopFresh
<1>3. ASSUME NEW p \in world.viewers \cup {Shell}, ServeOutput(p) \/ ServeInput(p) PROVE Fresh'
  BY <1>3, ServeOutputFresh, ServeInputFresh
<1>4. CASE Feedback
  BY <1>4, FeedbackFresh
<1>5. CASE Flush
  BY <1>5, FlushFresh
<1>6. CASE WriteOut
  BY <1>6, WriteOutFresh
<1>7. CASE Environment \/ Idle \/ UNCHANGED vars
  BY <1>7, ViewersFresh DEF Environment
<1> QED BY <1>1, <1>2, <1>3, <1>4, <1>5, <1>6, <1>7 DEF Next, Polymake

(* Whoever is to be served can be, without waiting, and no call fails.                   *)
LEMMA FreshReady == Inv /\ Fresh => ReadySetsFresh
<1> SUFFICES ASSUME Inv, Fresh PROVE ReadySetsFresh
  OBVIOUS
<1>1. DOMAIN stack = 1..Len(stack) /\ 1 \in 1..Len(stack)
  BY StackFacts DEF Inv, Typed
<1> QED BY <1>1 DEF Fresh, Serving, ReadySetsFresh

(* In orderly circumstances, when nothing is printed while output is pending or to a     *)
(* viewer about to leave, and lines arrive in one piece, the channels a loop has found   *)
(* ready are still registered and ready when they are served, however the viewers, the   *)
(* user and the callbacks interleave (Pipe.pm:99-118).                                   *)
THEOREM ReadyUntilServed == Spec => [](Orderly => ReadySetsFresh)
<1> DEFINE Both == Inv /\ (Orderly => Fresh)
<1>1. Init => Both
  BY InitInv, InitFresh
<1>2. Both /\ [Next]_vars => Both'
  <2> SUFFICES ASSUME Both, [Next]_vars PROVE Both'
    OBVIOUS
  <2>1. Inv'
    BY NextInv
  <2>2. world' = world
    BY DEF Next, Polymake, Environment, Await, CommandEnds, Launch, Select, ReadMember, WriteMember,
           WriteStalls, Drop, ServeOutput, ServeInput, Feedback, Flush, WriteOut, Recover, Type, Talk,
           GoOn, Receive, GoAway, Outside, Idle, vars
  <2>3. Orderly' => Orderly
    BY <2>2 DEF Orderly
  <2> QED BY <2>1, <2>3, NextFresh
<1>3. Both => (Orderly => ReadySetsFresh)
  BY FreshReady
<1> HIDE DEF Both
<1>4. Spec => []Both
  BY <1>1, <1>2, PTL DEF Spec
<1> QED BY <1>3, <1>4, PTL
=============================================================================
