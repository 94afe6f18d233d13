--------------------------- MODULE AliasedValues ---------------------------
(***************************************************************************)
(* What copy-on-write handles promise: every handle has a value of its     *)
(* own.  Sharing, reference counts and copying are invisible, except that  *)
(* an alias and its owner are one value as long as they are linked.        *)
(***************************************************************************)
CONSTANTS Handle, Value, None, Orphan

VARIABLES val,    \* val[h]: the value of h, None when h does not exist
          owner   \* owner[h]: None, the handle h is an alias of, or Orphan

avars == <<val, owner>>

Alive(h) == val[h] # None
AliasesOf(o) == {a \in Handle : owner[a] = o}

AInit ==
  /\ val = [h \in Handle |-> None]
  /\ owner = [h \in Handle |-> None]

New(h, v) == ~Alive(h) /\ val' = [val EXCEPT ![h] = v] /\ UNCHANGED owner

\* A copy of an alias belongs to the same family, a copy of an owner is independent.
CopyOf(h, g) ==
  /\ ~Alive(h) /\ Alive(g)
  /\ val' = [val EXCEPT ![h] = val[g]]
  /\ owner' = [owner EXCEPT ![h] = owner[g]]

AliasOf(h, g) ==
  /\ ~Alive(h) /\ Alive(g)
  /\ val' = [val EXCEPT ![h] = val[g]]
  /\ owner' = [owner EXCEPT ![h] = IF owner[g] = None THEN g ELSE owner[g]]

\* Aliases outlive their owner.
CutOff(h) == [a \in Handle |-> IF a \in AliasesOf(h) THEN Orphan ELSE owner[a]]

Drop(h) ==
  /\ Alive(h)
  /\ val' = [val EXCEPT ![h] = None]
  /\ owner' = [CutOff(h) EXCEPT ![h] = None]

\* An owner changes its value alone, and its aliases keep the old one.
SetOwn(h, v) ==
  /\ Alive(h) /\ owner[h] \notin Handle
  /\ val' = [val EXCEPT ![h] = v]
  /\ owner' = CutOff(h)

\* An alias changes the value of the whole family.
SetFamily(h, v) ==
  /\ owner[h] \in Handle
  /\ val' = [g \in Handle |-> IF g = owner[h] \/ owner[g] = owner[h] THEN v ELSE val[g]]
  /\ UNCHANGED owner

\* Two handles, at least one of them existing and neither an alias of the other, trade places.
Trade(f, g) ==
  LET R(h) == IF h = f THEN g ELSE IF h = g THEN f ELSE h IN
  /\ Alive(f) /\ owner[f] # g /\ owner[g] # f
  /\ val' = [h \in Handle |-> val[R(h)]]
  /\ owner' = [h \in Handle |-> IF owner[R(h)] \in Handle THEN R(owner[R(h)]) ELSE owner[R(h)]]

ANext ==
  \/ \E h \in Handle, v \in Value : New(h, v) \/ SetOwn(h, v) \/ SetFamily(h, v)
  \/ \E h, g \in Handle : CopyOf(h, g) \/ AliasOf(h, g) \/ Trade(h, g)
  \/ \E h \in Handle : Drop(h)

Spec == AInit /\ [][ANext]_avars
=============================================================================
