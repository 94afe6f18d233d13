---------------------------- MODULE OrderedKeys ----------------------------
(* A sorted sequence of entries, each key once or several times, and what each *)
(* operation does to it.  An entry is its key and a number that tells it from  *)
(* the other entries with this key.                                            *)
EXTENDS Integers, Sequences, SequencesExt

VARIABLES
  entries,
  multiple,   \* a key may occur several times
  call        \* the operation called last, with its arguments

vars == <<entries, multiple, call>>

key(x) == x[1]
Sorted(s) ==
  \A i \in 1 .. Len(s) - 1 : key(s[i]) < key(s[i + 1]) \/ (multiple /\ key(s[i]) = key(s[i + 1]))
With(s, k) == {x \in ToSet(s) : key(x) = k}

Init == Sorted(entries) /\ call = [op |-> "none"]

\* t is s and the new entry x, in its place.
Gained(s, t, x) == x \notin ToSet(s) /\ Remove(t, x) = s /\ Sorted(t)
Gains(s, t, k) == \E x \in With(t, k) : Gained(s, t, x)
Loses(s, t, k) == \E x \in With(s, k) : t = Remove(s, x)

\* x is the neighbour of at in direction X; without at, the last or the first entry.
Beside(t, x, at, X) ==
  \E i \in DOMAIN t : /\ t[i] = x
                      /\ IF at = <<>> THEN i - X \notin DOMAIN t
                         ELSE i - X \in DOMAIN t /\ t[i - X] = at

\* What the call c makes of s.
Effect(c, s, t) ==
  \/ c.op \in {"Find", "Copy", "Move"} /\ t = s
  \/ c.op = "Insert" /\ IF With(s, c.key) # {} THEN t = s ELSE Gains(s, t, c.key)
  \/ c.op = "InsertNew" /\ Gains(s, t, c.key)
  \/ c.op = "InsertBeside" /\ \E x \in With(t, c.key) : Gained(s, t, x) /\ Beside(t, x, c.at, c.dir)
  \/ c.op = "Erase" /\ IF With(s, c.key) # {} THEN Loses(s, t, c.key) ELSE t = s
  \/ c.op = "EraseAt" /\ c.at \in ToSet(s) /\ t = Remove(s, c.at)
  \/ c.op = "Toggle" /\ IF With(s, c.key) # {} THEN Loses(s, t, c.key) ELSE Gains(s, t, c.key)
  \/ c.op = "Update" /\ c.at \in ToSet(s) /\ Gains(Remove(s, c.at), t, c.key)
  \/ c.op = "Clear" /\ t = <<>>

Next ==
  /\ \E s \in {entries}, t \in {entries'} : Effect(call', s, t)
  /\ UNCHANGED multiple

Spec == Init /\ [][Next]_vars
=============================================================================
