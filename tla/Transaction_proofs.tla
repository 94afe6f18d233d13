------------------------ MODULE Transaction_proofs ------------------------
(***************************************************************************)
(* Proofs about Transaction, for any leaf properties, values, rules and    *)
(* contents, in worlds that are Strict.                                    *)
(*                                                                         *)
(* The invariant says how a stack of transactions may lie over the         *)
(* contents of an object so that each of them can be rolled back or        *)
(* committed.  Contents and dictionary agree (Whole), backups belong to    *)
(* gaps or to the placeholders of a rule (Fits), what has a backup is not  *)
(* stored anew (Reserved), transactions within another one have neither    *)
(* backups nor gaps (LaterFits), the subobject has a transaction when one  *)
(* of the object names it (Ties).  StackedPush, StackedReplace,            *)
(* StackedDrop, StackedInner and StackedOuter say what the steps make of   *)
(* one object; Opens, Descends, Appends, Overwrites, Drops, Hides,         *)
(* CommitsOuter and RollsBackTop what they make of the state; a lemma      *)
(* Keeps... for every action puts them together.                           *)
(***************************************************************************)
EXTENDS Transaction, Folding, SequenceTheorems

(* Types. A value is one of some world, a placeholder or a subobject.                   *)
CellValues == {NoValue, Sub, Extra} \cup UNION {w.values : w \in Instances}
Cells      == Keys \X CellValues \X BOOLEAN
Contents   == Seq(Cells \cup {Gap})
Dicts      == UNION {[K -> Nat] : K \in SUBSET Keys}
Backups    == UNION {[I -> Cells] : I \in SUBSET Nat}
Views      == UNION {[L -> UNION {[K -> CellValues] : K \in SUBSET Keys}] : L \in SUBSET Objects}
Temps      == [items : SUBSET (Objects \X Keys), gap : [Objects -> Nat]]
Frames     == [kind : {"plain", "init", "rule"}, end : Nat, backup : Backups, temps : Temps,
               changed : BOOLEAN, subs : SUBSET {Sub, Extra}, outputs : SUBSET Keys,
               temporary : BOOLEAN, dependent : BOOLEAN, view : Views]
States     == [contents : [Objects -> Contents], dict : [Objects -> Dicts],
               stack : [Objects -> Seq(Frames)], cleanup : Temps, changed : BOOLEAN,
               parent : SUBSET Objects]

(* Contents c and dictionary d agree: the dictionary has the index of every property    *)
(* that is there, and of no other.                                                      *)
Whole(c, d) ==
  /\ \A k \in DOMAIN d : d[k] \in DOMAIN c /\ c[d[k]] # Gap /\ c[d[k]][1] = k
  /\ \A i \in DOMAIN c : c[i] # Gap => c[i][1] \in DOMAIN d /\ d[c[i][1]] = i

(* The index g registered as that of a gap is one (0: none is registered).              *)
GapAt(c, g) == g = 0 \/ (g \in DOMAIN c /\ c[g] = Gap)

(* A transaction f fits the contents: they have not shrunk below those at its start;    *)
(* each of its backups belongs to a gap or, of a rule, to the cell that hides it; and   *)
(* no property has two.                                                                 *)
Fits(c, f) ==
  /\ f.end <= Len(c)
  /\ \A i \in DOMAIN f.backup :
       /\ i \in DOMAIN c
       /\ IF f.kind = "rule" THEN c[i] # Gap /\ c[i][1] = f.backup[i][1] ELSE c[i] = Gap
  /\ \A i, j \in DOMAIN f.backup : f.backup[i][1] = f.backup[j][1] => i = j

(* What a transaction has removed has not been stored again, but for the properties in  *)
(* free.                                                                                *)
Reserved(d, f, free) ==
  f.kind # "rule" => \A i \in DOMAIN f.backup : f.backup[i][1] \in DOMAIN d => f.backup[i][1] \in free

(* The registered gap g is older than the transaction f, whose rollback leaves it       *)
(* alone.                                                                               *)
Before(f, g) == g <= f.end /\ g \notin DOMAIN f.backup

(* The outermost transaction f; h is the gap it has registered, g the one of the        *)
(* object.                                                                              *)
FirstFits(c, d, f, g, h, free) == Fits(c, f) /\ Reserved(d, f, free) /\ Before(f, g) /\ GapAt(c, h)

(* A transaction e within it has no backups and no gaps: those that f has are within    *)
(* the contents at its start.                                                           *)
LaterFits(c, f, h, e, l) ==
  /\ e.end <= Len(c) /\ f.end <= e.end /\ DOMAIN e.backup = {} /\ l = 0
  /\ h <= e.end /\ \A i \in DOMAIN f.backup : i <= e.end

(* All transactions F of an object, from the outermost one, with the gaps H.            *)
Stacked(c, d, F, g, H, free) ==
  /\ Whole(c, d) /\ GapAt(c, g)
  /\ F # <<>> => FirstFits(c, d, F[1], g, H[1], free)
  /\ \A n \in DOMAIN F : n > 1 => LaterFits(c, F[1], H[1], F[n], H[n])
  /\ \A n, m \in DOMAIN F : n < m => F[n].end <= F[m].end

(* What may be stored again although there is a backup: the property that remove() is   *)
(* after.                                                                               *)
Free(o, rm) == IF rm.by = "own" THEN {k \in Keys : <<o, k>> \in rm.what} ELSE {}

GapsOf(F, o) == [n \in DOMAIN F |-> F[n].temps.gap[o]]

(* The part of the state that belongs to one object.                                    *)
Part(s0, o, rm) ==
  Stacked(s0.contents[o], s0.dict[o], s0.stack[o], s0.cleanup.gap[o], GapsOf(s0.stack[o], o), Free(o, rm))

(* Which transactions of the top-level object there may be: one, or two or three while  *)
(* remove() looks for rules; the innermost may be that of a rule.                       *)
Shape(F, rm) ==
  /\ \A n \in DOMAIN F : F[n].kind \in {"plain", "rule"} /\ (F[n].kind = "rule" => n = Len(F))
  /\ \/ rm = NotRemoving /\ Len(F) <= 1
     \/ /\ rm.by = "own" /\ \E x : rm.what = {x}
        /\ Len(F) \in 1..2 /\ \A n \in DOMAIN F : F[n].kind = "rule" <=> n = 2
     \/ /\ rm.by = "nested"
        /\ Len(F) \in 2..3 /\ \A n \in DOMAIN F : F[n].kind = "rule" <=> n = 3

(* How the transactions of subobjects belong to those of the object.                    *)
Ties(s0) ==
  LET F == s0.stack[Top]
      G == s0.stack[Sub]
      E == s0.stack[Extra]
  IN  /\ \A n \in DOMAIN F : n > 1 => F[n].subs = {}
      /\ Len(G) <= 1
      /\ G # <<>> => IF G[1].dependent THEN F # <<>> /\ Sub \in F[1].subs /\ G[1].kind = F[1].kind
                     ELSE F = <<>> /\ G[1].kind = "plain"
      /\ F # <<>> /\ Sub \in F[1].subs => G # <<>> /\ Sub \in DOMAIN s0.dict[Top]
      /\ F # <<>> /\ Extra \in F[1].subs =>
           /\ F[1].kind = "plain" /\ Len(E) = 1 /\ E[1].kind = "init" /\ E[1].end = 0
           /\ Extra \in DOMAIN s0.dict[Top] /\ s0.dict[Top][Extra] > F[1].end
           /\ \A n \in DOMAIN F : n > 1 => s0.dict[Top][Extra] <= F[n].end

(* A rule finds its outputs in the dictionary.                                          *)
Outputs(s0) ==
  \A o \in {Top, Sub} : \A n \in DOMAIN s0.stack[o] :
    s0.stack[o][n].kind = "rule" => s0.stack[o][n].outputs \subseteq DOMAIN s0.dict[o]

(* Subobjects that can be reached know their parent, and Sub is older than all          *)
(* transactions; none of them removes it, and what is in backups are leaves.            *)
Links(s0) ==
  /\ Sub \in s0.parent /\ (Extra \in DOMAIN s0.dict[Top] => Extra \in s0.parent)
  /\ DOMAIN s0.dict[Sub] \subseteq Leaves
  /\ \A n \in DOMAIN s0.stack[Top] : Sub \in DOMAIN s0.dict[Top] => s0.dict[Top][Sub] <= s0.stack[Top][n].end
  /\ \A o \in {Top, Sub} : \A n \in DOMAIN s0.stack[o] : \A i \in DOMAIN s0.stack[o][n].backup :
       i <= s0.stack[o][n].end => s0.stack[o][n].backup[i][1] \in Leaves
  /\ Whole(s0.contents[Extra], s0.dict[Extra])

(* A transaction registers gaps of its own object only.                                 *)
OwnGaps(s0) ==
  /\ \A o \in Objects, p \in {Top, Sub} : p # o =>
       \A n \in DOMAIN s0.stack[o] : s0.stack[o][n].temps.gap[p] = 0
  /\ \A n \in DOMAIN s0.stack[Extra] : s0.stack[Extra][n].end = 0

(* The inductive invariant, of a state and of what remove() is after.                   *)
Good(s0, rm) ==
  /\ s0 \in States /\ Part(s0, Top, rm) /\ Part(s0, Sub, rm)
  /\ Shape(s0.stack[Top], rm) /\ Ties(s0) /\ Outputs(s0) /\ Links(s0) /\ OwnGaps(s0)

(* The three objects differ, and none of them is a leaf.                                *)
LEMMA Different ==
  /\ Top # Sub /\ Top # Extra /\ Sub # Extra
  /\ Top \notin Leaves /\ Sub \notin Leaves /\ Extra \notin Leaves /\ Top \notin Keys
  /\ Sub \in Keys /\ Extra \in Keys /\ Leaves \subseteq Keys
  /\ Top \in Objects /\ Sub \in Objects /\ Extra \in Objects
<1>1. \A x, y : Cardinality({x, y}) <= 2
  <2> SUFFICES ASSUME NEW x, NEW y PROVE Cardinality({x, y}) <= 2
    OBVIOUS
  <2>1. IsFiniteSet({}) /\ Cardinality({}) = 0
    BY FS_EmptySet
  <2>2. IsFiniteSet({x}) /\ Cardinality({x}) = 1
    BY <2>1, FS_Singleton
  <2>3. {x, y} = {x} \cup {y}
    OBVIOUS
  <2>4. Cardinality({x} \cup {y}) = IF y \in {x} THEN 1 ELSE 2
    BY <2>2, FS_AddElement
  <2> QED BY <2>3, <2>4
<1>2. Top = Sub => Cardinality(Objects) <= 2
  <2>1. Top = Sub => Objects = {Top, Extra}
    BY DEF Objects
  <2> QED BY <1>1, <2>1
<1>3. Top = Extra => Cardinality(Objects) <= 2
  <2>1. Top = Extra => Objects = {Top, Sub}
    BY DEF Objects
  <2> QED BY <1>1, <2>1
<1>4. Sub = Extra => Cardinality(Objects) <= 2
  <2>1. Sub = Extra => Objects = {Top, Sub}
    BY DEF Objects
  <2> QED BY <1>1, <2>1
<1>5. Top # Sub /\ Top # Extra /\ Sub # Extra
  BY <1>2, <1>3, <1>4, TransactionAssumption
<1> QED BY <1>5, TransactionAssumption DEF Objects, Keys

(* A cell is not a gap.                                                                 *)
LEMMA GapIsNoCell == Gap \notin Cells /\ \A c \in Cells : c[1] \in Keys /\ c[2] \in CellValues /\ c[3] \in BOOLEAN
<1>1. \A c \in Cells : c[1] \in Keys /\ c[2] \in CellValues /\ c[3] \in BOOLEAN
  BY DEF Cells
<1>2. \A c \in Cells : Len(c) = 3
  BY DEF Cells
<1>3. Len(Gap) = 0
  BY DEF Gap
<1> QED BY <1>1, <1>2, <1>3

(* What is known of the parts of a state by their types.                                *)
LEMMA Dictionary ==
  ASSUME NEW d \in Dicts
  PROVE  /\ d = [k \in DOMAIN d |-> d[k]] /\ DOMAIN d \subseteq Keys /\ \A k \in DOMAIN d : d[k] \in Nat
         /\ \A k \in Keys, n \in Nat : With(d, k, n) \in Dicts
         /\ \A K : [j \in DOMAIN d \ K |-> d[j]] \in Dicts
<1>1. PICK K \in SUBSET Keys : d \in [K -> Nat]
  BY DEF Dicts
<1>2. DOMAIN d = K /\ \A k \in K : d[k] \in Nat
  BY <1>1
<1>3. \A k \in Keys, n \in Nat : With(d, k, n) \in Dicts
  <2> SUFFICES ASSUME NEW k \in Keys, NEW n \in Nat PROVE With(d, k, n) \in Dicts
    OBVIOUS
  <2> DEFINE d1 == With(d, k, n)
  <2>1. /\ DOMAIN d1 = K \cup {k} /\ d1[k] = n /\ \A z \in K : z # k => d1[z] = d[z]
        /\ d1 = [z \in DOMAIN d1 |-> d1[z]]
    BY <1>2 DEF With, Over
  <2> HIDE DEF d1
  <2>2. d1 \in [K \cup {k} -> Nat]
    BY <1>2, <2>1
  <2>3. K \cup {k} \in SUBSET Keys
    OBVIOUS
  <2> QED BY <2>2, <2>3 DEF Dicts, d1
<1>4. \A M : [j \in DOMAIN d \ M |-> d[j]] \in Dicts
  <2> SUFFICES ASSUME NEW M PROVE [j \in DOMAIN d \ M |-> d[j]] \in Dicts
    OBVIOUS
  <2>1. [j \in DOMAIN d \ M |-> d[j]] \in [K \ M -> Nat]
    BY <1>2
  <2> QED BY <2>1 DEF Dicts
<1> QED BY <1>1, <1>2, <1>3, <1>4

(* Backups, likewise.                                                                   *)
LEMMA Backup ==
  ASSUME NEW b \in Backups
  PROVE  /\ b = [i \in DOMAIN b |-> b[i]] /\ DOMAIN b \subseteq Nat
         /\ \A i \in DOMAIN b : b[i] \in Cells /\ b[i][1] \in Keys
         /\ \A i \in Nat, cell \in Cells :
              With(b, i, cell) \in Backups /\ Over(b, With(<<>>, i, cell)) \in Backups
<1>1. PICK I \in SUBSET Nat : b \in [I -> Cells]
  BY DEF Backups
<1>2. DOMAIN b = I /\ \A i \in I : b[i] \in Cells
  BY <1>1
<1>3. \A i \in Nat, cell \in Cells :
        With(b, i, cell) \in Backups /\ Over(b, With(<<>>, i, cell)) \in Backups
  <2> SUFFICES ASSUME NEW i \in Nat, NEW cell \in Cells
               PROVE  With(b, i, cell) \in Backups /\ Over(b, With(<<>>, i, cell)) \in Backups
    OBVIOUS
  <2> DEFINE b1 == With(b, i, cell)
             b2 == Over(b, With(<<>>, i, cell))
  <2>1. /\ DOMAIN b1 = I \cup {i} /\ b1[i] = cell /\ \A z \in I : z # i => b1[z] = b[z]
        /\ b1 = [z \in DOMAIN b1 |-> b1[z]]
    BY <1>2 DEF With, Over
  <2>2. /\ DOMAIN b2 = I \cup {i} /\ (i \notin I => b2[i] = cell) /\ \A z \in I : b2[z] = b[z]
        /\ b2 = [z \in DOMAIN b2 |-> b2[z]]
    BY <1>2 DEF With, Over
  <2> HIDE DEF b1, b2
  <2>3. b1 \in [I \cup {i} -> Cells] /\ b2 \in [I \cup {i} -> Cells]
    BY <1>2, <2>1, <2>2
  <2>4. I \cup {i} \in SUBSET Nat
    OBVIOUS
  <2> QED BY <2>3, <2>4 DEF Backups, b1, b2
<1> QED BY <1>1, <1>2, <1>3, GapIsNoCell

(* Contents, likewise.                                                                  *)
LEMMA Sequence ==
  ASSUME NEW c \in Contents
  PROVE  /\ Len(c) \in Nat /\ DOMAIN c = 1..Len(c)
         /\ \A i \in DOMAIN c : i \in Nat /\ c[i] \in Cells \cup {Gap} /\ (c[i] # Gap => c[i] \in Cells /\ c[i][1] \in Keys)
         /\ \A x \in Cells \cup {Gap} : /\ Append(c, x) \in Contents
                                        /\ \A i \in DOMAIN c : [c EXCEPT ![i] = x] \in Contents
         /\ <<>> \in Contents /\ Len(<<>>) = 0 /\ (c = <<>> <=> Len(c) = 0)
BY GapIsNoCell DEF Contents

(* Frames, likewise.                                                                    *)
LEMMA Framed ==
  ASSUME NEW F \in Seq(Frames)
  PROVE  /\ Len(F) \in Nat /\ DOMAIN F = 1..Len(F)
         /\ \A n \in DOMAIN F : F[n] \in Frames
         /\ F # <<>> => 1 \in DOMAIN F /\ Len(F) \in DOMAIN F /\ Last(F) = F[Len(F)] /\ Len(F) >= 1
         /\ (F = <<>>) <=> (Len(F) = 0)
BY DEF Last

(* The types of a frame's fields.                                                       *)
LEMMA Fields ==
  ASSUME NEW f \in Frames
  PROVE  /\ f.kind \in {"plain", "init", "rule"} /\ f.end \in Nat /\ f.backup \in Backups
         /\ f.temps \in Temps /\ f.temps.gap \in [Objects -> Nat]
         /\ f.temps.items \in SUBSET (Objects \X Keys)
         /\ f.changed \in BOOLEAN /\ f.subs \in SUBSET {Sub, Extra} /\ f.outputs \in SUBSET Keys
         /\ f.temporary \in BOOLEAN /\ f.dependent \in BOOLEAN /\ f.view \in Views
BY DEF Frames, Temps

-----------------------------------------------------------------------------
(* Storing a property that was not there.                                               *)
LEMMA StackedAppend ==
  ASSUME NEW c \in Contents, NEW d \in Dicts, NEW F \in Seq(Frames), NEW g \in Nat,
         NEW H \in [DOMAIN F -> Nat], NEW free, NEW cell \in Cells,
         Stacked(c, d, F, g, H, free), cell[1] \notin DOMAIN d,
         F # <<>> => F[1].kind = "rule" \/
           \A i \in DOMAIN F[1].backup : F[1].backup[i][1] = cell[1] => cell[1] \in free
  PROVE  Stacked(Append(c, cell), With(d, cell[1], Len(c) + 1), F, g, H, free)
<1> DEFINE c1 == Append(c, cell)
           d1 == With(d, cell[1], Len(c) + 1)
<1>1. /\ Len(c) \in Nat /\ DOMAIN c = 1..Len(c) /\ Len(c1) = Len(c) + 1 /\ DOMAIN c1 = 1..(Len(c) + 1)
      /\ c1[Len(c) + 1] = cell /\ \A i \in DOMAIN c : c1[i] = c[i]
  BY DEF Contents
<1>3. DOMAIN d1 = DOMAIN d \cup {cell[1]} /\ d1[cell[1]] = Len(c) + 1
      /\ \A k \in DOMAIN d : d1[k] = d[k]
  BY DEF With, Over
<1>4. cell # Gap
  BY GapIsNoCell
<1> HIDE DEF c1, d1
<1>5. Whole(c1, d1)
  BY <1>1, <1>3, <1>4 DEF Whole, Stacked
<1>6. \A h : GapAt(c, h) => GapAt(c1, h)
  BY <1>1 DEF GapAt
<1>7. ASSUME F # <<>> PROVE FirstFits(c1, d1, F[1], g, H[1], free)
  <2>1. F[1] \in Frames
    BY <1>7, Framed
  <2>2. Fits(c1, F[1])
    BY <1>1, <1>7, <2>1, Fields DEF Stacked, FirstFits, Fits
  <2>3. Reserved(d1, F[1], free)
    BY <1>3, <1>7 DEF Stacked, FirstFits, Reserved
  <2> QED BY <1>6, <1>7, <2>2, <2>3 DEF Stacked, FirstFits
<1>8. ASSUME NEW n \in DOMAIN F, n > 1 PROVE LaterFits(c1, F[1], H[1], F[n], H[n])
  <2>1. F[n].end \in Nat
    BY Framed, Fields
  <2> QED BY <1>1, <1>8, <2>1 DEF Stacked, LaterFits
<1> QED BY <1>5, <1>6, <1>7, <1>8 DEF Stacked, c1, d1

(* Storing a property again, in its place.                                              *)
LEMMA StackedReplace ==
  ASSUME NEW c \in Contents, NEW d \in Dicts, NEW F \in Seq(Frames), NEW g \in Nat,
         NEW H \in [DOMAIN F -> Nat], NEW free, NEW cell \in Cells, NEW i \in DOMAIN c,
         Stacked(c, d, F, g, H, free), c[i] # Gap, c[i][1] = cell[1]
  PROVE  Stacked([c EXCEPT ![i] = cell], d, F, g, H, free)
<1> DEFINE c1 == [c EXCEPT ![i] = cell]
<1>1. /\ Len(c1) = Len(c) /\ DOMAIN c1 = DOMAIN c
      /\ \A j \in DOMAIN c : (c1[j] = Gap <=> c[j] = Gap) /\ (c[j] # Gap => c1[j][1] = c[j][1])
  BY GapIsNoCell DEF Contents
<1> HIDE DEF c1
<1>2. Whole(c1, d)
  BY <1>1 DEF Whole, Stacked
<1>3. \A h : GapAt(c, h) => GapAt(c1, h)
  BY <1>1 DEF GapAt
<1>4. F # <<>> => FirstFits(c1, d, F[1], g, H[1], free)
  BY <1>1, <1>3 DEF Stacked, FirstFits, Fits
<1>5. \A n \in DOMAIN F : n > 1 => LaterFits(c1, F[1], H[1], F[n], H[n])
  BY <1>1 DEF Stacked, LaterFits
<1> QED BY <1>2, <1>3, <1>4, <1>5 DEF Stacked, c1

(* Removing a property in the only transaction.                                         *)
LEMMA StackedDrop ==
  ASSUME NEW c \in Contents, NEW d \in Dicts, NEW f \in Frames, NEW g \in Nat, NEW h \in Nat,
         NEW e \in Frames, NEW k \in DOMAIN d, Stacked(c, d, <<f>>, g, <<h>>, {}), f.kind # "rule",
         e.kind = f.kind, e.end = f.end, e.backup = Over(f.backup, With(<<>>, d[k], c[d[k]]))
  PROVE  /\ Stacked([c EXCEPT ![d[k]] = Gap], [j \in DOMAIN d \ {k} |-> d[j]], <<e>>, g, <<AssignMin(h, d[k])>>, {})
         /\ d[k] \notin DOMAIN f.backup
<1> DEFINE i  == d[k]
           c1 == [c EXCEPT ![i] = Gap]
           d1 == [j \in DOMAIN d \ {k} |-> d[j]]
           h1 == AssignMin(h, i)
<1>0. i \in DOMAIN c /\ c[i] # Gap /\ c[i][1] = k
  BY DEF Stacked, Whole
<1>1. /\ Len(c1) = Len(c) /\ DOMAIN c1 = DOMAIN c /\ c1[i] = Gap
      /\ \A j \in DOMAIN c : j # i => c1[j] = c[j]
      /\ i \in Nat /\ i >= 1 /\ Len(c) \in Nat /\ DOMAIN c = 1..Len(c)
  BY <1>0 DEF Contents
<1>2. /\ DOMAIN e.backup = DOMAIN f.backup \cup {i}
      /\ \A j \in DOMAIN f.backup : e.backup[j] = f.backup[j]
      /\ i \notin DOMAIN f.backup => e.backup[i] = c[i]
  BY DEF With, Over
<1>3. DOMAIN d1 = DOMAIN d \ {k} /\ \A j \in DOMAIN d1 : d1[j] = d[j]
  OBVIOUS
<1>4. h1 \in {h, i}
  BY <1>1 DEF AssignMin
<1> HIDE DEF i, c1, d1, h1
<1>5. Whole(c1, d1)
  <2>1. \A j \in DOMAIN d1 : d[j] # i
    BY <1>0, <1>3 DEF Stacked, Whole
  <2>2. \A j \in DOMAIN c : j # i /\ c[j] # Gap => c[j][1] # k
    BY <1>0 DEF Stacked, Whole, i
  <2>3. \A j \in DOMAIN d : d[j] \in DOMAIN c /\ c[d[j]] # Gap /\ c[d[j]][1] = j
    BY DEF Stacked, Whole
  <2>4. \A j \in DOMAIN c : c[j] # Gap => c[j][1] \in DOMAIN d /\ d[c[j][1]] = j
    BY DEF Stacked, Whole
  <2>5. \A j \in DOMAIN d1 : d1[j] \in DOMAIN c1 /\ c1[d1[j]] # Gap /\ c1[d1[j]][1] = j
    BY <1>1, <1>3, <2>1, <2>3
  <2>6. \A j \in DOMAIN c1 : c1[j] # Gap => c1[j][1] \in DOMAIN d1 /\ d1[c1[j][1]] = j
    BY <1>1, <1>3, <2>2, <2>4
  <2> QED BY <2>5, <2>6 DEF Whole
<1>6. f \in Frames /\ <<f>>[1] = f /\ <<e>>[1] = e /\ <<h>>[1] = h /\ <<h1>>[1] = h1
      /\ <<f>> # <<>> /\ DOMAIN <<e>> = {1} /\ DOMAIN <<f>> = {1}
  OBVIOUS
<1>7. FirstFits(c, d, f, g, h, {})
  BY <1>6 DEF Stacked
<1>8. i \notin DOMAIN f.backup
  BY <1>0, <1>7 DEF FirstFits, Fits
<1>9. Fits(c1, e)
  <2>1. \A j \in DOMAIN f.backup : f.backup[j][1] # k
    BY <1>7 DEF FirstFits, Reserved
  <2> QED BY <1>0, <1>1, <1>2, <1>7, <1>8, <2>1 DEF FirstFits, Fits
<1>10. Reserved(d1, e, {})
  BY <1>0, <1>2, <1>3, <1>7, <1>8 DEF FirstFits, Reserved
<1>11. g # i
  <2>1. GapAt(c, g)
    BY DEF Stacked
  <2> QED BY <1>0, <1>1, <2>1 DEF GapAt
<1>12. Before(e, g)
  BY <1>2, <1>7, <1>11 DEF FirstFits, Before
<1>13. GapAt(c1, h1) /\ GapAt(c1, g)
  BY <1>0, <1>1, <1>4, <1>7 DEF FirstFits, GapAt, Stacked
<1>14. FirstFits(c1, d1, e, g, h1, {})
  BY <1>9, <1>10, <1>12, <1>13 DEF FirstFits
<1>15. Stacked(c1, d1, <<e>>, g, <<h1>>, {})
  BY <1>5, <1>6, <1>13, <1>14 DEF Stacked
<1> QED BY <1>8, <1>15 DEF i, c1, d1, h1

-----------------------------------------------------------------------------
(* What a rollback makes of contents and a dictionary.                                  *)
Saved(f) == {i \in DOMAIN f.backup : i <= f.end}

Gone(c, f) == {c[i][1] : i \in {j \in DOMAIN c : j > f.end /\ c[j] # Gap}}

RefilledIn(c, f) == {i \in DOMAIN f.backup : i <= f.end /\ (i \in DOMAIN c => c[i] = Gap)}

Undone(c, f) ==
  [i \in 1..f.end |-> IF i \in Saved(f) THEN f.backup[i] ELSE IF i \in DOMAIN c THEN c[i] ELSE Gap]

Back(c, f) == [k \in {f.backup[i][1] : i \in RefilledIn(c, f)} |-> CHOOSE i \in Saved(f) : f.backup[i][1] = k]

Relisted(c, d, f) ==
  LET dict == Over(Back(c, f), d)
  IN  [k \in DOMAIN dict \ Gone(c, f) |-> dict[k]]

(* The cells that are left, and those put back.                                         *)
LEMMA UndoneCells ==
  ASSUME NEW c \in Contents, NEW f \in Frames, Fits(c, f)
  PROVE  /\ Undone(c, f) \in Contents /\ Len(Undone(c, f)) = f.end /\ DOMAIN Undone(c, f) = 1..f.end
         /\ \A i \in 1..f.end : /\ i \in DOMAIN c
                                /\ Undone(c, f)[i] = IF i \in DOMAIN f.backup THEN f.backup[i] ELSE c[i]
<1>1. f.end \in Nat /\ f.backup \in Backups /\ f.end <= Len(c)
  BY Fields DEF Fits
<1>2. \A i \in 1..f.end : /\ i \in DOMAIN c
                          /\ Undone(c, f)[i] = IF i \in DOMAIN f.backup THEN f.backup[i] ELSE c[i]
  BY <1>1, Sequence DEF Undone, Saved
<1>3. \A i \in 1..f.end : Undone(c, f)[i] \in Cells \cup {Gap}
  BY <1>1, <1>2, Sequence, Backup
<1>4. Undone(c, f) \in [1..f.end -> Cells \cup {Gap}]
  BY <1>3 DEF Undone
<1>5. Undone(c, f) \in Seq(Cells \cup {Gap}) /\ Len(Undone(c, f)) = f.end
  <2> DEFINE u == Undone(c, f)
  <2> HIDE DEF u
  <2> QED BY <1>1, <1>4 DEF u
<1> QED BY <1>2, <1>4, <1>5 DEF Contents

(* The dictionary after a rollback leads to them.                                       *)
LEMMA RelistedKeys ==
  ASSUME NEW c \in Contents, NEW d \in Dicts, NEW f \in Frames, Fits(c, f), Whole(c, d),
         f.kind # "rule" => \A i \in DOMAIN f.backup : f.backup[i][1] \notin DOMAIN d
  PROVE  LET r == Relisted(c, d, f)
         IN  /\ r \in Dicts
             /\ \A k : k \in DOMAIN r <=> \/ k \in DOMAIN d /\ d[k] <= f.end
                                          \/ \E i \in DOMAIN f.backup : i <= f.end /\ f.backup[i][1] = k
             /\ \A k \in DOMAIN d : d[k] <= f.end => r[k] = d[k]
             /\ \A i \in DOMAIN f.backup : i <= f.end => r[f.backup[i][1]] = i
<1> DEFINE B == Back(c, f)
           r == Relisted(c, d, f)
<1>1. /\ f.end \in Nat /\ f.backup \in Backups /\ f.end <= Len(c) /\ DOMAIN f.backup \subseteq Nat
      /\ f.kind \in {"plain", "init", "rule"}
      /\ \A i \in DOMAIN f.backup : f.backup[i] \in Cells /\ f.backup[i][1] \in Keys
  BY Fields, Backup DEF Fits
<1>2. /\ DOMAIN d \subseteq Keys /\ \A k \in DOMAIN d : d[k] \in Nat
      /\ DOMAIN c = 1..Len(c) /\ Len(c) \in Nat
      /\ \A k \in DOMAIN d : d[k] \in DOMAIN c /\ c[d[k]] # Gap /\ c[d[k]][1] = k
      /\ \A i \in DOMAIN c : c[i] # Gap => c[i][1] \in DOMAIN d /\ d[c[i][1]] = i
  BY Dictionary, Sequence DEF Whole
<1>3. /\ \A i \in DOMAIN f.backup : i \in DOMAIN c
      /\ f.kind = "rule" => \A i \in DOMAIN f.backup : c[i] # Gap /\ c[i][1] = f.backup[i][1]
      /\ f.kind # "rule" => \A i \in DOMAIN f.backup : c[i] = Gap
      /\ \A i, j \in DOMAIN f.backup : f.backup[i][1] = f.backup[j][1] => i = j
  BY DEF Fits
<1>4. RefilledIn(c, f) = IF f.kind = "rule" THEN {} ELSE Saved(f)
  BY <1>3 DEF RefilledIn, Saved
<1>5. DOMAIN B = {f.backup[i][1] : i \in RefilledIn(c, f)}
  BY DEF Back
<1>6. \A i \in RefilledIn(c, f) : B[f.backup[i][1]] = i
  <2> SUFFICES ASSUME NEW i \in RefilledIn(c, f) PROVE B[f.backup[i][1]] = i
    OBVIOUS
  <2> DEFINE k == f.backup[i][1]
             j == CHOOSE j \in Saved(f) : f.backup[j][1] = k
  <2>1. i \in Saved(f)
    BY DEF RefilledIn, Saved
  <2>2. j \in Saved(f) /\ f.backup[j][1] = k
    BY <2>1
  <2>3. B[k] = j
    BY DEF Back
  <2> HIDE DEF j
  <2> QED BY <1>3, <2>1, <2>2, <2>3 DEF Saved
<1>7. \A k : k \in Gone(c, f) <=> k \in DOMAIN d /\ d[k] > f.end
  BY <1>2 DEF Gone
<1>8. DOMAIN r = (DOMAIN B \cup DOMAIN d) \ Gone(c, f)
      /\ \A k \in DOMAIN r : r[k] = IF k \in DOMAIN B THEN B[k] ELSE d[k]
  BY DEF Relisted, Over
<1> HIDE DEF B, r
<1>9. \A k \in DOMAIN B : \E i \in DOMAIN f.backup : i <= f.end /\ f.backup[i][1] = k /\ B[k] = i /\ f.kind # "rule"
  BY <1>4, <1>5, <1>6 DEF Saved
<1>10. \A i \in DOMAIN f.backup : i <= f.end /\ f.kind # "rule" => f.backup[i][1] \in DOMAIN B /\ B[f.backup[i][1]] = i
  BY <1>4, <1>5, <1>6 DEF Saved
<1>11. \A k \in DOMAIN B : k \notin DOMAIN d
  BY <1>9
<1>12. \A i \in DOMAIN f.backup : f.kind = "rule" => f.backup[i][1] \in DOMAIN d /\ d[f.backup[i][1]] = i
  BY <1>2, <1>3
<1>13. \A k : k \in DOMAIN r <=> \/ k \in DOMAIN d /\ d[k] <= f.end
                                 \/ \E i \in DOMAIN f.backup : i <= f.end /\ f.backup[i][1] = k
  <2> SUFFICES ASSUME NEW k
               PROVE  k \in DOMAIN r <=> \/ k \in DOMAIN d /\ d[k] <= f.end
                                         \/ \E i \in DOMAIN f.backup : i <= f.end /\ f.backup[i][1] = k
    OBVIOUS
  <2>1. k \in DOMAIN d => d[k] \in Nat
    BY <1>2
  <2>2. ASSUME k \in DOMAIN r PROVE \/ k \in DOMAIN d /\ d[k] <= f.end
                                    \/ \E i \in DOMAIN f.backup : i <= f.end /\ f.backup[i][1] = k
    BY <1>1, <1>7, <1>8, <1>9, <2>1, <2>2
  <2>3. ASSUME k \in DOMAIN d, d[k] <= f.end PROVE k \in DOMAIN r
    BY <1>1, <1>7, <1>8, <2>1, <2>3
  <2>4. ASSUME NEW i \in DOMAIN f.backup, i <= f.end, f.backup[i][1] = k PROVE k \in DOMAIN r
    <3>1. CASE f.kind = "rule"
      BY <1>12, <2>3, <2>4, <3>1
    <3>2. CASE f.kind # "rule"
      BY <1>7, <1>8, <1>10, <1>11, <2>4, <3>2
    <3> QED BY <3>1, <3>2
  <2> QED BY <2>2, <2>3, <2>4
<1>14. \A k \in DOMAIN d : d[k] <= f.end => r[k] = d[k]
  BY <1>8, <1>11, <1>13
<1>15. \A i \in DOMAIN f.backup : i <= f.end => r[f.backup[i][1]] = i
  <2> SUFFICES ASSUME NEW i \in DOMAIN f.backup, i <= f.end PROVE r[f.backup[i][1]] = i
    OBVIOUS
  <2>1. f.backup[i][1] \in DOMAIN r
    BY <1>13
  <2>2. CASE f.kind = "rule"
    BY <1>12, <1>14, <2>2
  <2>3. CASE f.kind # "rule"
    BY <1>8, <1>10, <2>1, <2>3
  <2> QED BY <2>2, <2>3
<1>16. r \in Dicts
  <2>1. \A k \in DOMAIN r : k \in Keys /\ r[k] \in Nat
    BY <1>1, <1>2, <1>13, <1>14, <1>15
  <2>2. r = [k \in DOMAIN r |-> r[k]]
    BY DEF r, Relisted
  <2>3. r \in [DOMAIN r -> Nat] /\ DOMAIN r \in SUBSET Keys
    BY <2>1, <2>2
  <2> QED BY <2>3 DEF Dicts
<1> QED BY <1>13, <1>14, <1>15, <1>16 DEF r

(* Giving up the only transaction.                                                      *)
LEMMA UndoneWhole ==
  ASSUME NEW c \in Contents, NEW d \in Dicts, NEW f \in Frames, Fits(c, f), Whole(c, d),
         f.kind # "rule" => \A i \in DOMAIN f.backup : f.backup[i][1] \notin DOMAIN d
  PROVE  Whole(Undone(c, f), Relisted(c, d, f))
<1> DEFINE r == Relisted(c, d, f)
           u == Undone(c, f)
<1>1. /\ f.end \in Nat /\ f.backup \in Backups /\ f.end <= Len(c) /\ DOMAIN f.backup \subseteq Nat
      /\ \A i \in DOMAIN f.backup : f.backup[i] \in Cells /\ f.backup[i] # Gap
  BY Fields, Backup, GapIsNoCell DEF Fits
<1>2. /\ DOMAIN d \subseteq Keys /\ \A k \in DOMAIN d : d[k] \in Nat
      /\ DOMAIN c = 1..Len(c) /\ Len(c) \in Nat
      /\ \A k \in DOMAIN d : d[k] \in DOMAIN c /\ c[d[k]] # Gap /\ c[d[k]][1] = k
      /\ \A i \in DOMAIN c : c[i] # Gap => c[i][1] \in DOMAIN d /\ d[c[i][1]] = i
  BY Dictionary, Sequence DEF Whole
<1>3. /\ \A i \in DOMAIN f.backup : i \in DOMAIN c
      /\ f.kind = "rule" => \A i \in DOMAIN f.backup : c[i] # Gap /\ c[i][1] = f.backup[i][1]
      /\ f.kind # "rule" => \A i \in DOMAIN f.backup : c[i] = Gap
  BY DEF Fits
<1>4. /\ DOMAIN u = 1..f.end
      /\ \A i \in 1..f.end : i \in DOMAIN c /\ u[i] = IF i \in DOMAIN f.backup THEN f.backup[i] ELSE c[i]
  BY UndoneCells
<1>5. /\ \A k : k \in DOMAIN r <=> \/ k \in DOMAIN d /\ d[k] <= f.end
                                   \/ \E i \in DOMAIN f.backup : i <= f.end /\ f.backup[i][1] = k
      /\ \A k \in DOMAIN d : d[k] <= f.end => r[k] = d[k]
      /\ \A i \in DOMAIN f.backup : i <= f.end => r[f.backup[i][1]] = i
  BY RelistedKeys
<1> HIDE DEF r, u
<1>6. ASSUME NEW k \in DOMAIN r PROVE r[k] \in DOMAIN u /\ u[r[k]] # Gap /\ u[r[k]][1] = k
  <2>1. CASE \E i \in DOMAIN f.backup : i <= f.end /\ f.backup[i][1] = k
    <3> PICK i \in DOMAIN f.backup : i <= f.end /\ f.backup[i][1] = k
      BY <2>1
    <3>1. r[k] = i /\ i \in 1..f.end
      BY <1>1, <1>2, <1>3, <1>5
    <3> QED BY <1>1, <1>4, <3>1
  <2>2. CASE k \in DOMAIN d /\ d[k] <= f.end /\ ~\E i \in DOMAIN f.backup : i <= f.end /\ f.backup[i][1] = k
    <3>1. r[k] = d[k] /\ d[k] \in 1..f.end /\ c[d[k]] # Gap /\ c[d[k]][1] = k
      BY <1>1, <1>2, <1>5, <2>2
    <3>2. d[k] \notin DOMAIN f.backup
      BY <1>3, <2>2, <3>1
    <3> QED BY <1>4, <3>1, <3>2
  <2> QED BY <1>5, <2>1, <2>2
<1>7. ASSUME NEW i \in DOMAIN u, u[i] # Gap PROVE u[i][1] \in DOMAIN r /\ r[u[i][1]] = i
  <2>0. i \in Nat /\ i <= f.end
    BY <1>1, <1>4
  <2>1. CASE i \in DOMAIN f.backup
    BY <1>4, <1>5, <2>0, <2>1
  <2>2. CASE i \notin DOMAIN f.backup
    <3>1. u[i] = c[i] /\ i \in DOMAIN c
      BY <1>4, <2>2
    <3>2. c[i][1] \in DOMAIN d /\ d[c[i][1]] = i
      BY <1>2, <1>7, <3>1
    <3> QED BY <1>5, <2>0, <3>1, <3>2
  <2> QED BY <2>1, <2>2
<1> QED BY <1>6, <1>7 DEF Whole, r, u

(* Nothing is left of an object that was empty.                                         *)
LEMMA NothingLeft ==
  ASSUME NEW c \in Contents, NEW d \in Dicts, NEW f \in Frames, Fits(c, f), Whole(c, d),
         f.kind # "rule" => \A i \in DOMAIN f.backup : f.backup[i][1] \notin DOMAIN d, f.end = 0
  PROVE  Undone(c, f) = <<>> /\ Relisted(c, d, f) = <<>>
<1> DEFINE r == Relisted(c, d, f)
           u == Undone(c, f)
<1>1. u \in Contents /\ Len(u) = 0
  BY UndoneCells
<1>2. u = <<>>
  <2> HIDE DEF u
  <2> QED BY <1>1, Sequence
<1>3. /\ \A i \in DOMAIN f.backup : i \in DOMAIN c
      /\ \A k \in DOMAIN d : d[k] \in DOMAIN c
  BY DEF Fits, Whole
<1>4. \A k : k \in DOMAIN r <=> \/ k \in DOMAIN d /\ d[k] <= f.end
                                \/ \E i \in DOMAIN f.backup : i <= f.end /\ f.backup[i][1] = k
  BY RelistedKeys
<1>5. \A i \in DOMAIN c : i \in Nat /\ i >= 1
  BY Sequence
<1>6. DOMAIN r = {}
  <2> HIDE DEF r
  <2> SUFFICES ASSUME NEW k \in DOMAIN r PROVE FALSE
    OBVIOUS
  <2>1. ~(k \in DOMAIN d /\ d[k] <= f.end)
    BY <1>3, <1>5
  <2>2. ~\E i \in DOMAIN f.backup : i <= f.end
    BY <1>3, <1>5
  <2> QED BY <1>4, <2>1, <2>2
<1>7. r = [k \in {} |-> r[k]]
  <2>1. r = [k \in DOMAIN r |-> r[k]]
    BY DEF Relisted
  <2> HIDE DEF r
  <2> QED BY <1>6, <2>1
<1>8. r = <<>>
  <2> HIDE DEF r
  <2> QED BY <1>7
<1> QED BY <1>2, <1>8

(* Frames that are the same for the contents.                                           *)
Alike(e, f) == e.kind = f.kind /\ e.end = f.end /\ e.backup = f.backup

(* What else is kept in frames does not matter, nor do those at the end.                *)
LEMMA StackedAlike ==
  ASSUME NEW c \in Contents, NEW d \in Dicts, NEW F \in Seq(Frames), NEW g \in Nat,
         NEW H \in [DOMAIN F -> Nat], NEW free, Stacked(c, d, F, g, H, free),
         NEW G \in Seq(Frames), NEW J \in [DOMAIN G -> Nat], Len(G) <= Len(F),
         \A n \in DOMAIN G : Alike(G[n], F[n]) /\ J[n] = H[n]
  PROVE  Stacked(c, d, G, g, J, free)
<1>1. DOMAIN G \subseteq DOMAIN F /\ (G # <<>> => F # <<>> /\ 1 \in DOMAIN G)
  BY Framed
<1>2. G # <<>> => FirstFits(c, d, G[1], g, J[1], free)
  BY <1>1 DEF Stacked, FirstFits, Fits, Reserved, Before, Alike
<1>3. \A n \in DOMAIN G : n > 1 => LaterFits(c, G[1], J[1], G[n], J[n])
  <2> SUFFICES ASSUME NEW n \in DOMAIN G, n > 1 PROVE LaterFits(c, G[1], J[1], G[n], J[n])
    OBVIOUS
  <2>1. 1 \in DOMAIN G
    BY Framed
  <2>2. LaterFits(c, F[1], H[1], F[n], H[n])
    BY <1>1 DEF Stacked
  <2> QED BY <2>1, <2>2 DEF LaterFits, Alike
<1>4. \A n, m \in DOMAIN G : n < m => G[n].end <= G[m].end
  BY <1>1 DEF Stacked, Alike
<1> QED BY <1>2, <1>3, <1>4 DEF Stacked

(* A new transaction.                                                                   *)
LEMMA StackedPush ==
  ASSUME NEW c \in Contents, NEW d \in Dicts, NEW F \in Seq(Frames), NEW g \in Nat,
         NEW H \in [DOMAIN F -> Nat], NEW free, Stacked(c, d, F, g, H, free),
         NEW e \in Frames, e.end = Len(c), DOMAIN e.backup = {},
         NEW J \in [DOMAIN Append(F, e) -> Nat], J[Len(F) + 1] = 0, \A n \in DOMAIN F : J[n] = H[n]
  PROVE  Stacked(c, d, Append(F, e), g, J, free)
<1> DEFINE G == Append(F, e)
<1>1. /\ Len(F) \in Nat /\ DOMAIN F = 1..Len(F) /\ DOMAIN G = 1..(Len(F) + 1) /\ G[Len(F) + 1] = e
      /\ \A n \in DOMAIN F : G[n] = F[n] /\ F[n] \in Frames
      /\ (F = <<>> <=> Len(F) = 0) /\ G # <<>> /\ Len(G) = Len(F) + 1
  OBVIOUS
<1>2. Len(c) \in Nat /\ DOMAIN c = 1..Len(c)
  BY Sequence
<1> HIDE DEF G
<1>3. GapAt(c, g) /\ Whole(c, d)
  BY DEF Stacked
<1>4. \A h \in Nat : GapAt(c, h) => h <= e.end
  BY <1>2 DEF GapAt
<1>5. FirstFits(c, d, G[1], g, J[1], free)
  <2>1. CASE F = <<>>
    BY <1>1, <1>2, <1>3, <1>4, <2>1 DEF FirstFits, Fits, Reserved, Before, GapAt
  <2>2. CASE F # <<>>
    <3>1. 1 \in DOMAIN F
      BY <1>1, <2>2
    <3> QED BY <1>1, <2>2, <3>1 DEF Stacked
  <2> QED BY <2>1, <2>2
<1>6. ASSUME NEW n \in DOMAIN G, n > 1 PROVE LaterFits(c, G[1], J[1], G[n], J[n])
  <2>1. F # <<>> /\ 1 \in DOMAIN F /\ G[1] = F[1] /\ J[1] = H[1]
    BY <1>1, <1>6
  <2>2. CASE n \in DOMAIN F
    <3>1. LaterFits(c, F[1], H[1], F[n], H[n])
      BY <1>6, <2>2 DEF Stacked
    <3> QED BY <1>1, <2>1, <2>2, <3>1
  <2>3. CASE n = Len(F) + 1
    <3>1. FirstFits(c, d, F[1], g, H[1], free)
      BY <2>1 DEF Stacked
    <3>2. F[1].end <= Len(c) /\ (\A i \in DOMAIN F[1].backup : i \in DOMAIN c) /\ GapAt(c, H[1]) /\ H[1] \in Nat
      BY <2>1, <3>1 DEF FirstFits, Fits
    <3> QED BY <1>1, <1>2, <1>4, <2>1, <2>3, <3>2 DEF LaterFits
  <2> QED BY <1>1, <2>2, <2>3
<1>7. \A n, m \in DOMAIN G : n < m => G[n].end <= G[m].end
  <2> SUFFICES ASSUME NEW n \in DOMAIN G, NEW m \in DOMAIN G, n < m PROVE G[n].end <= G[m].end
    OBVIOUS
  <2>1. n \in DOMAIN F
    BY <1>1
  <2>2. F[n].end <= Len(c)
    <3>1. CASE n = 1
      BY <1>1, <2>1, <3>1 DEF Stacked, FirstFits, Fits
    <3>2. CASE n > 1
      BY <2>1, <3>2 DEF Stacked, LaterFits
    <3> QED BY <1>1, <2>1, <3>1, <3>2
  <2> QED BY <1>1, <2>1, <2>2 DEF Stacked
<1> QED BY <1>3, <1>5, <1>6, <1>7 DEF Stacked, G

Inner(c, d, F, g, H, free, e, G, J) ==
  /\ c \in Contents /\ d \in Dicts /\ F \in Seq(Frames) /\ g \in Nat /\ H \in [DOMAIN F -> Nat]
  /\ Stacked(c, d, F, g, H, free) /\ Len(F) > 1 /\ e = F[Len(F)]
  /\ G \in Seq(Frames) /\ Len(G) = Len(F) - 1 /\ \A n \in DOMAIN G : G[n] = F[n]
  /\ J \in [DOMAIN G -> Nat] /\ \A n \in DOMAIN G : J[n] = H[n]

(* Giving up a transaction within others.                                               *)
LEMMA StackedInner ==
  ASSUME NEW c, NEW d, NEW F, NEW g, NEW H, NEW free, NEW e, NEW G, NEW J, Inner(c, d, F, g, H, free, e, G, J)
  PROVE  /\ e \in Frames /\ Fits(c, e) /\ DOMAIN e.backup = {}
         /\ Stacked(Undone(c, e), Relisted(c, d, e), G, g, J, free)
<1> DEFINE u == Undone(c, e)
           r == Relisted(c, d, e)
<1> USE DEF Inner
<1>1. /\ e \in Frames /\ Len(F) \in DOMAIN F /\ Len(F) > 1 /\ DOMAIN F = 1..Len(F) /\ DOMAIN G = 1..(Len(F) - 1)
      /\ 1 \in DOMAIN G /\ 1 \in DOMAIN F /\ G[1] = F[1] /\ J[1] = H[1] /\ G # <<>> /\ F # <<>> /\ Len(F) \in Nat
      /\ F[1] \in Frames /\ H[1] \in Nat
  BY Framed
<1>2. LaterFits(c, F[1], H[1], e, H[Len(F)])
  BY <1>1 DEF Stacked
<1>3. Fits(c, e) /\ DOMAIN e.backup = {} /\ Whole(c, d)
  BY <1>2 DEF LaterFits, Fits, Stacked
<1>4. /\ u \in Contents /\ Len(u) = e.end /\ DOMAIN u = 1..e.end /\ \A i \in 1..e.end : i \in DOMAIN c /\ u[i] = c[i]
  BY <1>1, <1>3, UndoneCells
<1>5. \A k : k \in DOMAIN r => k \in DOMAIN d
  BY <1>1, <1>3, RelistedKeys
<1>6. Whole(u, r)
  BY <1>1, <1>3, UndoneWhole
<1>7. e.end \in Nat /\ F[1].end \in Nat
  BY <1>1, Fields
<1> HIDE DEF u, r
<1>8. FirstFits(c, d, F[1], g, H[1], free)
  BY <1>1 DEF Stacked
<1>9. \A i \in DOMAIN F[1].backup : i \in DOMAIN c /\ i <= e.end
  BY <1>2, <1>8 DEF LaterFits, FirstFits, Fits
<1>10. \A i \in DOMAIN F[1].backup : i \in DOMAIN u /\ u[i] = c[i]
  BY <1>4, <1>7, <1>9, Sequence
<1>11. Fits(u, F[1])
  BY <1>2, <1>4, <1>8, <1>10 DEF LaterFits, FirstFits, Fits
<1>12. Reserved(r, F[1], free)
  BY <1>5, <1>8 DEF FirstFits, Reserved
<1>13. \A h \in Nat : h <= e.end /\ GapAt(c, h) => GapAt(u, h)
  BY <1>4, <1>7 DEF GapAt
<1>14. GapAt(u, g) /\ GapAt(u, H[1])
  <2>1. g <= e.end
    BY <1>2, <1>7, <1>8 DEF FirstFits, Before, LaterFits
  <2>2. H[1] <= e.end
    BY <1>2 DEF LaterFits
  <2> QED BY <1>1, <1>8, <1>13, <2>1, <2>2 DEF FirstFits, Stacked
<1>15. FirstFits(u, r, G[1], g, J[1], free)
  BY <1>1, <1>8, <1>11, <1>12, <1>14 DEF FirstFits
<1>16. ASSUME NEW n \in DOMAIN G, n > 1 PROVE LaterFits(u, G[1], J[1], G[n], J[n])
  <2>1. n \in DOMAIN F /\ n < Len(F) /\ G[n] = F[n] /\ J[n] = H[n]
    BY <1>1
  <2>2. F[n].end <= e.end
    BY <1>1, <2>1 DEF Stacked
  <2>3. LaterFits(c, F[1], H[1], F[n], H[n])
    BY <1>16, <2>1 DEF Stacked
  <2> QED BY <1>1, <1>4, <2>1, <2>2, <2>3 DEF LaterFits
<1>17. \A n, m \in DOMAIN G : n < m => G[n].end <= G[m].end
  BY <1>1 DEF Stacked
<1>18. Stacked(u, r, G, g, J, free)
  BY <1>6, <1>14, <1>15, <1>16, <1>17 DEF Stacked
<1> QED BY <1>1, <1>3, <1>18 DEF u, r

(* Giving up the only transaction.                                                      *)
LEMMA StackedOuter ==
  ASSUME NEW c \in Contents, NEW d \in Dicts, NEW f \in Frames, NEW g \in Nat, NEW H, NEW free,
         Stacked(c, d, <<f>>, g, H, free), NEW J, NEW other,
         f.kind # "rule" => \A i \in DOMAIN f.backup : f.backup[i][1] \notin DOMAIN d
  PROVE  Fits(c, f) /\ Stacked(Undone(c, f), Relisted(c, d, f), <<>>, g, J, other)
<1> DEFINE u == Undone(c, f)
           r == Relisted(c, d, f)
<1>1. /\ <<f>> # <<>> /\ <<f>>[1] = f /\ DOMAIN <<>> = {}
  OBVIOUS
<1>2. FirstFits(c, d, f, g, H[1], free) /\ Whole(c, d) /\ GapAt(c, g)
  BY <1>1 DEF Stacked
<1>3. Fits(c, f) /\ g <= f.end /\ g \notin DOMAIN f.backup
  BY <1>2 DEF FirstFits, Before
<1>4. Whole(u, r)
  BY <1>2, <1>3, UndoneWhole
<1>5. f.end \in Nat
  BY Fields
<1>6. /\ DOMAIN u = 1..f.end
      /\ \A i \in 1..f.end : i \in DOMAIN c /\ u[i] = IF i \in DOMAIN f.backup THEN f.backup[i] ELSE c[i]
  BY <1>3, UndoneCells
<1> HIDE DEF u, r
<1>7. GapAt(u, g)
  <2>1. g # 0 => g \in 1..f.end
    BY <1>3, <1>5
  <2> QED BY <1>2, <1>3, <1>6, <2>1 DEF GapAt
<1>8. Stacked(u, r, <<>>, g, J, other)
  BY <1>1, <1>4, <1>7 DEF Stacked
<1> QED BY <1>3, <1>8 DEF u, r

(* A rule hides the value of one of its outputs, which gets a backup.                   *)
LEMMA StackedHide ==
  ASSUME NEW c \in Contents, NEW d \in Dicts, NEW f \in Frames, NEW g \in Nat, NEW h \in Nat, NEW free,
         Stacked(c, d, <<f>>, g, <<h>>, free), f.kind = "rule", NEW k \in DOMAIN d,
         NEW cell \in Cells, cell[1] = k, NEW e \in Frames, e.kind = "rule", e.end = f.end,
         e.backup = With(f.backup, d[k], c[d[k]])
  PROVE  Stacked([c EXCEPT ![d[k]] = cell], d, <<e>>, g, <<h>>, free)
<1> DEFINE i  == d[k]
           c1 == [c EXCEPT ![i] = cell]
<1>0. i \in DOMAIN c /\ c[i] # Gap /\ c[i][1] = k
  BY DEF Stacked, Whole
<1>1. <<f>>[1] = f /\ <<e>>[1] = e /\ <<h>>[1] = h /\ <<f>> # <<>> /\ DOMAIN <<e>> = {1} /\ DOMAIN <<f>> = {1}
      /\ <<f>> \in Seq(Frames) /\ <<h>> \in [DOMAIN <<f>> -> Nat]
  OBVIOUS
<1>2. Stacked(c1, d, <<f>>, g, <<h>>, free)
  <2> HIDE DEF i
  <2> QED BY <1>0, <1>1, StackedReplace
<1>3. /\ DOMAIN e.backup = DOMAIN f.backup \cup {i} /\ e.backup[i] = c[i]
      /\ \A j \in DOMAIN f.backup : j # i => e.backup[j] = f.backup[j]
  BY DEF With, Over
<1>4. /\ Len(c1) = Len(c) /\ DOMAIN c1 = DOMAIN c /\ c1[i] = cell /\ cell # Gap
      /\ \A j \in DOMAIN c : j # i => c1[j] = c[j]
  BY <1>0, GapIsNoCell DEF Contents
<1> HIDE DEF i, c1
<1>5. FirstFits(c1, d, f, g, h, free) /\ Whole(c1, d) /\ GapAt(c1, g)
  BY <1>1, <1>2 DEF Stacked
<1>6. \A j \in DOMAIN f.backup : j \in DOMAIN c1 /\ c1[j] # Gap /\ c1[j][1] = f.backup[j][1]
  BY <1>5 DEF FirstFits, Fits
<1>7. \A j \in DOMAIN e.backup : j \in DOMAIN c1 /\ c1[j] # Gap /\ c1[j][1] = e.backup[j][1]
  BY <1>0, <1>3, <1>4, <1>6
<1>8. \A j, m \in DOMAIN e.backup : e.backup[j][1] = e.backup[m][1] => j = m
  BY <1>5, <1>7 DEF Whole
<1>9. Fits(c1, e)
  BY <1>5, <1>7, <1>8 DEF FirstFits, Fits
<1>10. Before(e, g)
  BY <1>0, <1>3, <1>4, <1>5, Sequence DEF FirstFits, Before, GapAt
<1>11. FirstFits(c1, d, e, g, h, free)
  BY <1>5, <1>9, <1>10 DEF FirstFits, Reserved
<1>12. Stacked(c1, d, <<e>>, g, <<h>>, free)
  BY <1>1, <1>5, <1>11 DEF Stacked
<1> QED BY <1>12 DEF i, c1

\* What a rule's commit makes of the contents.
Revealed(c, f) == [i \in DOMAIN c |-> IF i \in DOMAIN f.backup THEN f.backup[i] ELSE c[i]]

(* A rule succeeds: its outputs that were there already get their old values back.      *)
LEMMA WholeRevealed ==
  ASSUME NEW c \in Contents, NEW d \in Dicts, NEW f \in Frames,
         Whole(c, d), \A i \in DOMAIN f.backup : i \in DOMAIN c /\ c[i] # Gap /\ c[i][1] = f.backup[i][1]
  PROVE  /\ Revealed(c, f) \in Contents /\ Whole(Revealed(c, f), d) /\ Len(Revealed(c, f)) = Len(c)
         /\ \A h \in Nat : GapAt(c, h) => GapAt(Revealed(c, f), h)
<1> DEFINE c1 == Revealed(c, f)
<1>2. /\ \A i \in DOMAIN f.backup : i \in DOMAIN c /\ c[i] # Gap /\ c[i][1] = f.backup[i][1]
      /\ Whole(c, d)
  OBVIOUS
<1>3. \A i \in DOMAIN f.backup : f.backup[i] \in Cells /\ f.backup[i] # Gap
  BY Fields, Backup, GapIsNoCell
<1>4. DOMAIN c1 = DOMAIN c /\ \A i \in DOMAIN c : c1[i] = IF i \in DOMAIN f.backup THEN f.backup[i] ELSE c[i]
  BY DEF Revealed
<1>5. \A i \in DOMAIN c : c1[i] \in Cells \cup {Gap}
  BY <1>3, <1>4, Sequence
<1>6. c1 \in [DOMAIN c -> Cells \cup {Gap}]
  BY <1>5 DEF Revealed
<1> HIDE DEF c1
<1>7. c1 \in Seq(Cells \cup {Gap}) /\ Len(c1) = Len(c)
  BY <1>6, Sequence
<1>8. Whole(c1, d)
  BY <1>2, <1>3, <1>4 DEF Whole
<1>9. \A h \in Nat : GapAt(c, h) => GapAt(c1, h)
  BY <1>2, <1>4 DEF GapAt
<1> QED BY <1>7, <1>8, <1>9 DEF Contents, c1

-----------------------------------------------------------------------------
(* The types of a state's parts.                                                        *)
LEMMA StateParts ==
  ASSUME NEW s0 \in States
  PROVE  /\ s0.contents \in [Objects -> Contents] /\ s0.dict \in [Objects -> Dicts]
         /\ s0.stack \in [Objects -> Seq(Frames)] /\ s0.parent \in SUBSET Objects
         /\ s0.cleanup \in Temps /\ s0.cleanup.gap \in [Objects -> Nat] /\ s0.changed \in BOOLEAN
         /\ s0.cleanup.items \in SUBSET (Objects \X Keys)
         /\ \A o \in Objects : /\ s0.contents[o] \in Contents /\ s0.dict[o] \in Dicts /\ s0.stack[o] \in Seq(Frames)
                               /\ s0.cleanup.gap[o] \in Nat
BY DEF States, Temps

(* The gaps noted in frames.                                                            *)
LEMMA GapsTyped ==
  ASSUME NEW F \in Seq(Frames), NEW o \in Objects
  PROVE  /\ GapsOf(F, o) \in [DOMAIN F -> Nat] /\ \A n \in DOMAIN F : GapsOf(F, o)[n] = F[n].temps.gap[o]
         /\ Len(F) = 1 => F = <<F[1]>> /\ GapsOf(F, o) = <<F[1].temps.gap[o]>>
<1>1. \A n \in DOMAIN F : F[n].temps.gap[o] \in Nat
  BY Framed, Fields
<1>2. GapsOf(F, o) \in [DOMAIN F -> Nat] /\ \A n \in DOMAIN F : GapsOf(F, o)[n] = F[n].temps.gap[o]
  BY <1>1 DEF GapsOf
<1>3. ASSUME Len(F) = 1 PROVE F = <<F[1]>> /\ GapsOf(F, o) = <<F[1].temps.gap[o]>>
  <2>1. DOMAIN F = {1}
    BY <1>3
  <2>2. F = <<F[1]>>
    BY <1>3
  <2> QED BY <2>1, <2>2 DEF GapsOf
<1> QED BY <1>2, <1>3

(* A reader's view has its type.                                                        *)
LEMMA ViewTyped ==
  ASSUME NEW s0 \in States
  PROVE  View(s0) \in Views
<1>1. \A o \in Objects, k \in Keys : Has(s0, o, k) => Cell(s0, o, k)[2] \in CellValues
  BY StateParts, Sequence, GapIsNoCell DEF Has, Cell
<1> DEFINE V == UNION {[K -> CellValues] : K \in SUBSET Keys}
           W(o) == [k \in {j \in Keys : Has(s0, o, j)} |-> Cell(s0, o, k)[2]]
<1>2. \A o \in Objects : W(o) \in V
  <2> SUFFICES ASSUME NEW o \in Objects PROVE W(o) \in V
    OBVIOUS
  <2>1. W(o) \in [{j \in Keys : Has(s0, o, j)} -> CellValues]
    BY <1>1
  <2> QED BY <2>1
<1>3. Linked(s0) \in SUBSET Objects
  BY DEF Linked
<1>4. View(s0) \in [Linked(s0) -> V]
  <2>1. View(s0) = [o \in Linked(s0) |-> W(o)]
    BY DEF View
  <2> HIDE DEF V, W
  <2> QED BY <1>2, <1>3, <2>1
<1> QED BY <1>3, <1>4 DEF Views

(* A new transaction has changed nothing yet.                                           *)
LEMMA NewFrameIs ==
  ASSUME NEW s0 \in States, NEW o \in Objects, NEW kind \in {"plain", "init", "rule"}, NEW dep \in BOOLEAN
  PROVE  LET e == NewFrame(s0, o, kind, dep)
         IN  /\ e \in Frames /\ e.kind = kind /\ e.dependent = dep /\ e.subs = {} /\ e.outputs = {}
             /\ e.end = (IF kind = "init" THEN 0 ELSE Len(s0.contents[o]))
             /\ DOMAIN e.backup = {} /\ e.temps.items = {}
             /\ \A p \in Objects : e.temps.gap[p] = 0
<1> DEFINE e == NewFrame(s0, o, kind, dep)
           t == InTransaction(s0, o) /\ Current(s0, o).temporary
<1>1. t \in BOOLEAN
  OBVIOUS
<1>2. View(s0) \in Views
  BY ViewTyped
<1>3. <<>> \in Backups /\ DOMAIN <<>> = {}
  <2>1. <<>> \in [{} -> Cells]
    OBVIOUS
  <2> QED BY <2>1 DEF Backups
<1>4. NoTemps \in Temps /\ NoTemps.items = {} /\ \A p \in Objects : NoTemps.gap[p] = 0
  BY DEF NoTemps, Temps
<1>5. Len(s0.contents[o]) \in Nat
  BY StateParts, Sequence
<1>6. e = [kind |-> kind, end |-> IF kind = "init" THEN 0 ELSE Len(s0.contents[o]),
           backup |-> <<>>, temps |-> NoTemps, changed |-> FALSE, subs |-> {}, outputs |-> {},
           temporary |-> t, dependent |-> dep, view |-> View(s0)]
  BY DEF NewFrame
<1> HIDE DEF t, e
<1>7. e \in Frames
  BY <1>1, <1>2, <1>3, <1>4, <1>5, <1>6 DEF Frames
<1> QED BY <1>3, <1>4, <1>6, <1>7 DEF e

(* States that are the same for an object.                                              *)
LEMMA PartAlike ==
  ASSUME NEW s0 \in States, NEW s1 \in States, NEW o \in Objects, NEW rm, Part(s0, o, rm),
         s1.contents[o] = s0.contents[o], s1.dict[o] = s0.dict[o], s1.cleanup.gap[o] = s0.cleanup.gap[o],
         Len(s1.stack[o]) <= Len(s0.stack[o]),
         \A n \in DOMAIN s1.stack[o] : /\ Alike(s1.stack[o][n], s0.stack[o][n])
                                       /\ s1.stack[o][n].temps.gap[o] = s0.stack[o][n].temps.gap[o]
  PROVE  Part(s1, o, rm)
<1> DEFINE F == s0.stack[o]
           G == s1.stack[o]
           H == GapsOf(F, o)
           J == GapsOf(G, o)
           c == s0.contents[o]
           d == s0.dict[o]
           g == s0.cleanup.gap[o]
           free == Free(o, rm)
<1>1. /\ F \in Seq(Frames) /\ G \in Seq(Frames) /\ c \in Contents /\ d \in Dicts /\ g \in Nat
  BY StateParts
<1>2. DOMAIN G \subseteq DOMAIN F
  BY <1>1, Framed
<1>3. /\ H \in [DOMAIN F -> Nat] /\ J \in [DOMAIN G -> Nat]
      /\ \A n \in DOMAIN G : J[n] = H[n]
  BY <1>1, <1>2, GapsTyped
<1>4. Stacked(c, d, F, g, H, free)
  BY DEF Part
<1> HIDE DEF F, G, H, J, c, d, g, free
<1>5. \A n \in DOMAIN G : Alike(G[n], F[n])
  BY DEF F, G
<1>6. Len(G) <= Len(F)
  BY DEF F, G
<1>7. Stacked(c, d, G, g, J, free)
  BY ONLY <1>1, <1>3, <1>4, <1>5, <1>6, StackedAlike
<1> QED BY <1>7 DEF Part, G, J, c, d, g, free

(* A new transaction of an object.                                                      *)
LEMMA PartPush ==
  ASSUME NEW s0 \in States, NEW s1 \in States, NEW o \in Objects, NEW rm, Part(s0, o, rm),
         s1.contents[o] = s0.contents[o], s1.dict[o] = s0.dict[o], s1.cleanup.gap[o] = s0.cleanup.gap[o],
         NEW e \in Frames, s1.stack[o] = Append(s0.stack[o], e), e.end = Len(s0.contents[o]),
         DOMAIN e.backup = {}, e.temps.gap[o] = 0
  PROVE  Part(s1, o, rm)
<1> DEFINE F == s0.stack[o]
           G == s1.stack[o]
           H == GapsOf(F, o)
           J == GapsOf(G, o)
           c == s0.contents[o]
           d == s0.dict[o]
           g == s0.cleanup.gap[o]
           free == Free(o, rm)
<1>1. /\ F \in Seq(Frames) /\ G \in Seq(Frames) /\ c \in Contents /\ d \in Dicts /\ g \in Nat
  BY StateParts
<1>2. G = Append(F, e) /\ Len(F) \in Nat /\ DOMAIN F = 1..Len(F) /\ DOMAIN G = 1..(Len(F) + 1)
      /\ G[Len(F) + 1] = e /\ \A n \in DOMAIN F : G[n] = F[n]
  <2>1. G = Append(F, e)
    OBVIOUS
  <2> HIDE DEF F, G
  <2> QED BY <1>1, <2>1
<1>3. H \in [DOMAIN F -> Nat] /\ J \in [DOMAIN G -> Nat]
      /\ J[Len(F) + 1] = 0 /\ \A n \in DOMAIN F : J[n] = H[n]
  <2> HIDE DEF F, G
  <2>1. H \in [DOMAIN F -> Nat] /\ \A n \in DOMAIN F : H[n] = F[n].temps.gap[o]
    BY <1>1, GapsTyped
  <2>2. J \in [DOMAIN G -> Nat] /\ \A n \in DOMAIN G : J[n] = G[n].temps.gap[o]
    BY <1>1, GapsTyped
  <2>3. J[Len(F) + 1] = G[Len(F) + 1].temps.gap[o] /\ G[Len(F) + 1] = e
    BY <1>2, <2>2
  <2>4. \A n \in DOMAIN F : n \in DOMAIN G
    BY <1>2
  <2> HIDE DEF H, J
  <2>5. \A n \in DOMAIN F : J[n] = H[n]
    BY <1>2, <2>1, <2>2, <2>4
  <2> QED BY <2>1, <2>2, <2>3, <2>5
<1>4. Stacked(c, d, F, g, H, free) /\ e.end = Len(c)
  BY DEF Part
<1> HIDE DEF F, G, H, J, c, d, g, free
<1>5. Stacked(c, d, G, g, J, free)
  BY ONLY <1>1, <1>2, <1>3, <1>4, StackedPush, e \in Frames, DOMAIN e.backup = {}
<1> QED BY <1>5 DEF Part, G, J, c, d, g, free

-----------------------------------------------------------------------------
\* Only stacks differ.
Same(s1, s0) ==
  /\ s1.contents = s0.contents /\ s1.dict = s0.dict /\ s1.cleanup = s0.cleanup
  /\ s1.changed = s0.changed /\ s1.parent = s0.parent

(* The frame of the current transaction is replaced.                                    *)
LEMMA SetFrameIs ==
  ASSUME NEW s0 \in States, NEW o \in Objects, s0.stack[o] # <<>>, NEW f \in Frames
  PROVE  LET s1 == SetFrame(s0, o, f)
         IN  /\ s1 \in States /\ Same(s1, s0) /\ \A p \in Objects : p # o => s1.stack[p] = s0.stack[p]
             /\ Len(s1.stack[o]) = Len(s0.stack[o]) /\ s1.stack[o] # <<>>
             /\ DOMAIN s1.stack[o] = DOMAIN s0.stack[o]
             /\ s1.stack[o][Len(s0.stack[o])] = f /\ Current(s1, o) = f
             /\ \A n \in DOMAIN s0.stack[o] : n # Len(s0.stack[o]) => s1.stack[o][n] = s0.stack[o][n]
<1> DEFINE F == s0.stack[o]
           G == [F EXCEPT ![Len(F)] = f]
           s1 == SetFrame(s0, o, f)
<1>1. F \in Seq(Frames) /\ F # <<>>
  BY StateParts
<1>2. s1 = [s0 EXCEPT !.stack = [s0.stack EXCEPT ![o] = G]]
  BY StateParts DEF SetFrame
<1> HIDE DEF F, s1
<1>3. /\ G \in Seq(Frames) /\ Len(G) = Len(F) /\ G # <<>> /\ DOMAIN G = DOMAIN F /\ G[Len(F)] = f
      /\ Len(F) \in DOMAIN F /\ \A n \in DOMAIN F : n # Len(F) => G[n] = F[n]
  BY <1>1
<1> HIDE DEF G
<1>4. s1 \in States /\ Same(s1, s0) /\ s1.stack = [s0.stack EXCEPT ![o] = G]
  <2>1. [s0.stack EXCEPT ![o] = G] \in [Objects -> Seq(Frames)]
    BY <1>3, StateParts
  <2> QED BY <1>2, <2>1 DEF States, Same
<1>5. s1.stack[o] = G /\ \A p \in Objects : p # o => s1.stack[p] = s0.stack[p]
  BY <1>4, StateParts
<1>6. Current(s1, o) = f
  BY <1>3, <1>5 DEF Current, Last
<1> QED BY <1>3, <1>4, <1>5, <1>6 DEF F, s1

(* A frame is put on a stack.                                                           *)
LEMMA PushIs ==
  ASSUME NEW s0 \in States, NEW o \in Objects, NEW f \in Frames
  PROVE  LET s1 == Push(s0, o, f)
         IN  /\ s1 \in States /\ Same(s1, s0) /\ \A p \in Objects : p # o => s1.stack[p] = s0.stack[p]
             /\ s1.stack[o] = Append(s0.stack[o], f)
             /\ Len(s1.stack[o]) = Len(s0.stack[o]) + 1 /\ s1.stack[o] # <<>> /\ Current(s1, o) = f
             /\ DOMAIN s1.stack[o] = 1..(Len(s0.stack[o]) + 1) /\ s1.stack[o][Len(s0.stack[o]) + 1] = f
             /\ \A n \in DOMAIN s0.stack[o] : s1.stack[o][n] = s0.stack[o][n]
<1> DEFINE F == s0.stack[o]
           G == Append(F, f)
           s1 == Push(s0, o, f)
<1>1. F \in Seq(Frames)
  BY StateParts
<1>2. s1 = [s0 EXCEPT !.stack = [s0.stack EXCEPT ![o] = G]]
  BY StateParts DEF Push
<1> HIDE DEF F, s1
<1>3. /\ G \in Seq(Frames) /\ Len(G) = Len(F) + 1 /\ G # <<>> /\ DOMAIN G = 1..(Len(F) + 1)
      /\ G[Len(F) + 1] = f /\ \A n \in DOMAIN F : G[n] = F[n]
  BY <1>1
<1> DEFINE K == G
<1> HIDE DEF K
<1>4. s1 \in States /\ Same(s1, s0) /\ s1.stack = [s0.stack EXCEPT ![o] = K]
  <2>1. [s0.stack EXCEPT ![o] = K] \in [Objects -> Seq(Frames)]
    BY <1>3, StateParts DEF K
  <2>2. s1 = [s0 EXCEPT !.stack = [s0.stack EXCEPT ![o] = K]]
    BY <1>2 DEF K
  <2> QED BY <2>1, <2>2 DEF States, Same
<1>5. s1.stack[o] = K /\ \A p \in Objects : p # o => s1.stack[p] = s0.stack[p]
  BY <1>4, StateParts
<1>6. Current(s1, o) = f
  BY <1>3, <1>5 DEF Current, Last, K
<1> QED BY <1>3, <1>4, <1>5, <1>6 DEF F, s1, K

(* The current transaction of an object comes off.                                      *)
LEMMA PopIs ==
  ASSUME NEW s0 \in States, NEW o \in Objects, s0.stack[o] # <<>>
  PROVE  LET s1 == Pop(s0, o)
         IN  /\ s1 \in States /\ Same(s1, s0) /\ \A p \in Objects : p # o => s1.stack[p] = s0.stack[p]
             /\ Len(s1.stack[o]) = Len(s0.stack[o]) - 1
             /\ DOMAIN s1.stack[o] = 1..(Len(s0.stack[o]) - 1)
             /\ \A n \in DOMAIN s1.stack[o] : s1.stack[o][n] = s0.stack[o][n]
             /\ (Len(s0.stack[o]) = 1 => s1.stack[o] = <<>>)
             /\ (Len(s0.stack[o]) > 1 => s1.stack[o] # <<>> /\ Current(s1, o) = s0.stack[o][Len(s0.stack[o]) - 1])
<1> DEFINE F == s0.stack[o]
           G == Front(F)
           s1 == Pop(s0, o)
<1>1. F \in Seq(Frames) /\ F # <<>>
  BY StateParts
<1>2. s1 = [s0 EXCEPT !.stack = [s0.stack EXCEPT ![o] = G]]
  BY StateParts DEF Pop
<1> HIDE DEF F, s1
<1>3. /\ G \in Seq(Frames) /\ Len(G) = Len(F) - 1 /\ DOMAIN G = 1..(Len(F) - 1) /\ Len(F) \in Nat
      /\ \A n \in DOMAIN G : G[n] = F[n]
      /\ Len(F) = 1 => G = <<>>
      /\ Len(F) > 1 => G # <<>>
  <2>1. Len(F) \in Nat /\ Len(F) >= 1 /\ DOMAIN F = 1..Len(F)
    BY <1>1
  <2>2. G = SubSeq(F, 1, Len(F) - 1)
    BY DEF Front
  <2>3. G \in Seq(Frames) /\ Len(G) = Len(F) - 1 /\ \A n \in 1..(Len(F) - 1) : G[n] = F[n]
    <3>1. \A i \in 1..Len(F) : F[i] \in Frames
      BY <1>1, <2>1
    <3> QED BY <1>1, <2>1, <2>2, <3>1, SubSeqProperties
  <2> HIDE DEF G
  <2> QED BY <2>1, <2>3
<1> HIDE DEF G
<1>4. s1 \in States /\ Same(s1, s0) /\ s1.stack = [s0.stack EXCEPT ![o] = G]
  <2>1. [s0.stack EXCEPT ![o] = G] \in [Objects -> Seq(Frames)]
    BY <1>3, StateParts
  <2> QED BY <1>2, <2>1 DEF States, Same
<1>5. s1.stack[o] = G /\ \A p \in Objects : p # o => s1.stack[p] = s0.stack[p]
  BY <1>4, StateParts
<1>6. Len(F) > 1 => Current(s1, o) = F[Len(F) - 1]
  BY <1>3, <1>5 DEF Current, Last
<1> QED BY <1>3, <1>4, <1>5, <1>6 DEF F, s1

-----------------------------------------------------------------------------
(* A stack of one frame.                                                                *)
LEMMA OneOnly ==
  ASSUME NEW F \in Seq(Frames), F # <<>>, Len(F) <= 1
  PROVE  /\ Len(F) = 1 /\ DOMAIN F = {1} /\ F[1] \in Frames /\ Last(F) = F[1] /\ F = <<F[1]>>
<1> DEFINE n == Len(F)
<1>1. n \in Nat /\ (n = 0 <=> F = <<>>) /\ DOMAIN F = 1..n
  OBVIOUS
<1>2. n = 1
  <2>1. n \in Nat /\ n # 0 /\ n <= 1
    BY <1>1
  <2> HIDE DEF n
  <2> QED BY <2>1
<1>3. DOMAIN F = {1} /\ F[1] \in Frames
  BY <1>1, <1>2
<1>4. F = <<F[1]>>
  BY <1>2, <1>3
<1> QED BY <1>2, <1>3, <1>4 DEF Last

(* The same, its length given.                                                          *)
LEMMA OneLong ==
  ASSUME NEW F \in Seq(Frames), Len(F) = 1
  PROVE  /\ F # <<>> /\ DOMAIN F = {1} /\ F[1] \in Frames /\ Last(F) = F[1] /\ F = <<F[1]>>
<1>1. F # <<>>
  BY Framed
<1>2. Len(F) <= 1
  OBVIOUS
<1> QED BY <1>1, <1>2, OneOnly

(* The shape of such a stack, and of none.                                              *)
LEMMA ShapeOne ==
  ASSUME NEW F, F = <<>> \/ (Len(F) = 1 /\ DOMAIN F = {1} /\ F[1].kind \in {"plain", "rule"})
  PROVE  Shape(F, NotRemoving)
<1>1. CASE F = <<>>
  BY <1>1 DEF Shape
<1>2. CASE Len(F) = 1 /\ DOMAIN F = {1} /\ F[1].kind \in {"plain", "rule"}
  <2>1. Len(F) <= 1 /\ \A n \in DOMAIN F : F[n].kind \in {"plain", "rule"} /\ n = Len(F)
    BY <1>2
  <2> QED BY <2>1 DEF Shape
<1> QED BY <1>1, <1>2

(* The first transaction, of a client or a rule.                                        *)
LEMMA Opens ==
  ASSUME NEW s0, Good(s0, NotRemoving), s0.stack[Top] = <<>>, s0.stack[Sub] = <<>>, NEW o \in {Top, Sub},
         NEW kind \in {"plain", "rule"}, o = Sub => kind = "plain"
  PROVE  LET s1 == Push(s0, o, NewFrame(s0, o, kind, FALSE))
         IN  /\ Good(s1, NotRemoving) /\ Same(s1, s0) /\ \A p \in Objects : p # o => s1.stack[p] = s0.stack[p]
             /\ Len(s1.stack[o]) = 1 /\ s1.stack[o] # <<>> /\ s1.stack[o][1].kind = kind
             /\ s1.stack[o][1].subs = {} /\ ~s1.stack[o][1].dependent /\ DOMAIN s1.stack[o][1].backup = {}
             /\ s1.stack[o][1].end = Len(s0.contents[o])
<1> DEFINE e == NewFrame(s0, o, kind, FALSE)
           s1 == Push(s0, o, e)
           rm == NotRemoving
<1>1. s0 \in States /\ o \in Objects
  BY Different DEF Good
<1>2. /\ e \in Frames /\ e.kind = kind /\ e.dependent = FALSE /\ e.subs = {} /\ e.outputs = {}
      /\ e.end = Len(s0.contents[o]) /\ DOMAIN e.backup = {} /\ \A p \in Objects : e.temps.gap[p] = 0
  <2> DEFINE dep == FALSE
  <2>1. kind \in {"plain", "init", "rule"} /\ dep \in BOOLEAN /\ kind # "init"
    OBVIOUS
  <2>2. e = NewFrame(s0, o, kind, dep)
    OBVIOUS
  <2> HIDE DEF dep, e
  <2>3. /\ e \in Frames /\ e.kind = kind /\ e.dependent = dep /\ e.subs = {} /\ e.outputs = {}
        /\ e.end = Len(s0.contents[o]) /\ DOMAIN e.backup = {} /\ \A p \in Objects : e.temps.gap[p] = 0
    BY ONLY <1>1, <2>1, <2>2, NewFrameIs
  <2> QED BY <2>3 DEF dep
<1> HIDE DEF e
<1>3. /\ s1 \in States /\ Same(s1, s0) /\ \A p \in Objects : p # o => s1.stack[p] = s0.stack[p]
      /\ s1.stack[o] = Append(s0.stack[o], e)
      /\ Len(s1.stack[o]) = Len(s0.stack[o]) + 1 /\ s1.stack[o] # <<>>
      /\ DOMAIN s1.stack[o] = 1..(Len(s0.stack[o]) + 1) /\ s1.stack[o][Len(s0.stack[o]) + 1] = e
  <2>1. s1 = Push(s0, o, e)
    OBVIOUS
  <2>2. e \in Frames
    BY <1>2
  <2> HIDE DEF s1
  <2> QED BY ONLY <1>1, <2>1, <2>2, PushIs
<1> HIDE DEF s1, rm
<1>4. s0.stack[o] = <<>> /\ Len(s0.stack[o]) = 0
  OBVIOUS
<1>5. Len(s1.stack[o]) = 1 /\ DOMAIN s1.stack[o] = {1} /\ s1.stack[o][1] = e
  BY <1>3, <1>4
<1>6. Part(s0, Top, rm) /\ Part(s0, Sub, rm) /\ Ties(s0) /\ Outputs(s0) /\ Links(s0)
  BY DEF Good, rm
<1>7. Part(s1, o, rm)
  BY <1>1, <1>2, <1>3, <1>6, PartPush DEF Same
<1>8. \A p \in {Top, Sub} : p # o => Part(s1, p, rm)
  <2> SUFFICES ASSUME NEW p \in {Top, Sub}, p # o PROVE Part(s1, p, rm)
    OBVIOUS
  <2>1. p \in Objects /\ s1.stack[p] = s0.stack[p]
    BY <1>3, Different
  <2> QED BY <1>1, <1>3, <1>6, <2>1 DEF Part, Same
<1>9. Part(s1, Top, rm) /\ Part(s1, Sub, rm)
  BY <1>7, <1>8
<1>10. o = Top => s1.stack[Sub] = <<>> /\ Len(s1.stack[Sub]) = 0
  BY <1>3, Different
<1>11. o = Sub => s1.stack[Top] = <<>> /\ Len(s1.stack[Top]) = 0 /\ DOMAIN s1.stack[Top] = {}
  BY <1>3, Different
<1>12. Shape(s1.stack[Top], rm)
  <2>1. CASE o = Top
    <3> DEFINE F == s1.stack[o]
    <3>1. DOMAIN F = {1} /\ Len(F) = 1 /\ F[1].kind \in {"plain", "rule"}
      BY <1>2, <1>5
    <3> HIDE DEF F
    <3>2. Shape(F, rm)
      BY <3>1, ShapeOne DEF rm
    <3> QED BY <2>1, <3>2 DEF F
  <2>2. CASE o = Sub
    BY <1>11, <2>2 DEF Shape, rm
  <2> QED BY <2>1, <2>2
<1>13. Ties(s1)
  <2>1. CASE o = Top
    BY <1>2, <1>3, <1>5, <1>10, <2>1, Different DEF Ties
  <2>2. CASE o = Sub
    BY <1>2, <1>3, <1>5, <1>11, <2>2, Different DEF Ties
  <2> QED BY <2>1, <2>2
<1>14. Outputs(s1)
  <2>1. CASE o = Top
    <3>1. DOMAIN s1.stack[Sub] = {}
      BY <1>10, <2>1
    <3> QED BY <1>2, <1>5, <2>1, <3>1 DEF Outputs
  <2>2. CASE o = Sub
    BY <1>2, <1>5, <1>11, <2>2 DEF Outputs
  <2> QED BY <2>1, <2>2
<1>15. Links(s1)
  <2>1. Sub \in s1.parent /\ (Extra \in DOMAIN s1.dict[Top] => Extra \in s1.parent)
        /\ DOMAIN s1.dict[Sub] \subseteq Leaves /\ Whole(s1.contents[Extra], s1.dict[Extra])
    BY <1>3, <1>6 DEF Links, Same
  <2>2. ASSUME NEW n \in DOMAIN s1.stack[Top], Sub \in DOMAIN s1.dict[Top]
        PROVE  s1.dict[Top][Sub] <= s1.stack[Top][n].end
    <3>1. o = Top /\ s1.stack[Top][n].end = Len(s0.contents[Top]) /\ s1.dict = s0.dict
      BY <1>2, <1>3, <1>5, <1>11 DEF Same
    <3>2. s0.dict[Top][Sub] \in DOMAIN s0.contents[Top]
      BY <1>6, <2>2, <3>1 DEF Part, Stacked, Whole
    <3>3. s0.contents[Top] \in Contents
      BY <1>1, StateParts, Different
    <3> QED BY <3>1, <3>2, <3>3, Sequence
  <2>3. ASSUME NEW p \in {Top, Sub}, NEW n \in DOMAIN s1.stack[p], NEW i \in DOMAIN s1.stack[p][n].backup
        PROVE  FALSE
    <3>1. CASE p = o
      BY <1>2, <1>5, <2>3, <3>1
    <3>2. CASE p # o
      <4>1. DOMAIN s1.stack[p] = {}
        BY <1>10, <1>11, <3>2
      <4> QED BY <4>1
    <3> QED BY <3>1, <3>2
  <2> QED BY <2>1, <2>2, <2>3 DEF Links
<1>16. OwnGaps(s1)
  <2>1. OwnGaps(s0)
    BY DEF Good
  <2>2. ASSUME NEW q \in Objects, NEW p \in {Top, Sub}, p # q, NEW n \in DOMAIN s1.stack[q]
        PROVE  s1.stack[q][n].temps.gap[p] = 0
    <3>1. CASE q = o
      BY <1>2, <1>5, <2>2, <3>1, Different
    <3>2. CASE q # o
      BY <1>3, <2>1, <2>2, <3>2 DEF OwnGaps
    <3> QED BY <3>1, <3>2
  <2>3. s1.stack[Extra] = s0.stack[Extra]
    BY <1>3, Different
  <2> QED BY <2>1, <2>2, <2>3 DEF OwnGaps
<1> QED BY <1>2, <1>3, <1>5, <1>9, <1>12, <1>13, <1>14, <1>15, <1>16 DEF Good, s1, rm, e

(* begin_transaction()                                                                  *)
LEMMA Begins ==
  ASSUME NEW s0, Good(s0, NotRemoving), s0.stack[Top] = <<>>, s0.stack[Sub] = <<>>, NEW o \in {Top, Sub}
  PROVE  LET s1 == Begin(s0, o)
         IN  /\ Good(s1, NotRemoving) /\ Same(s1, s0) /\ \A p \in Objects : p # o => s1.stack[p] = s0.stack[p]
             /\ Len(s1.stack[o]) = 1 /\ s1.stack[o] # <<>> /\ s1.stack[o][1].kind = "plain"
             /\ s1.stack[o][1].subs = {} /\ ~s1.stack[o][1].dependent /\ DOMAIN s1.stack[o][1].backup = {}
             /\ s1.stack[o][1].end = Len(s0.contents[o])
BY Opens DEF Begin

(* The way down to the subobject.                                                       *)
LEMMA Descends ==
  ASSUME NEW s0, Good(s0, NotRemoving), s0.stack[Top] # <<>>, Sub \in DOMAIN s0.dict[Top]
  PROVE  LET s1 == Descend(s0, Sub, FALSE)
             f  == s0.stack[Top][1]
             e  == s1.stack[Top][1]
         IN  /\ Good(s1, NotRemoving) /\ Same(s1, s0) /\ s1.stack[Extra] = s0.stack[Extra]
             /\ Len(s1.stack[Top]) = 1 /\ s1.stack[Top] # <<>> /\ Alike(e, f) /\ e.subs = f.subs \cup {Sub}
             /\ e.outputs = f.outputs /\ e.temps = f.temps
             /\ Len(s1.stack[Sub]) = 1 /\ s1.stack[Sub] # <<>> /\ s1.stack[Sub][1].kind = f.kind
             /\ (s0.stack[Sub] = <<>> => DOMAIN s1.stack[Sub][1].backup = {})
<1> DEFINE s1 == Descend(s0, Sub, FALSE)
           f  == s0.stack[Top][1]
           e  == [f EXCEPT !.subs = @ \cup {Sub}]
           sm == SetFrame(s0, Top, e)
           n  == NewFrame(s0, Sub, f.kind, TRUE)
           rm == NotRemoving
<1>1. s0 \in States /\ Sub \in Objects /\ Top \in Objects /\ Extra \in Objects /\ Sub # Top /\ Extra # Top /\ Extra # Sub
  BY Different DEF Good
<1>2. /\ s0.stack[Top] \in Seq(Frames) /\ s0.stack[Sub] \in Seq(Frames)
      /\ Part(s0, Top, rm) /\ Part(s0, Sub, rm) /\ Shape(s0.stack[Top], rm) /\ Ties(s0) /\ Outputs(s0) /\ Links(s0)
  BY <1>1, StateParts DEF Good, rm
<1>3. Len(s0.stack[Top]) = 1 /\ DOMAIN s0.stack[Top] = {1} /\ f \in Frames /\ Current(s0, Top) = f
  <2> DEFINE F == s0.stack[Top]
  <2>1. F \in Seq(Frames) /\ F # <<>> /\ Shape(F, rm)
    BY <1>2
  <2> HIDE DEF F
  <2>2. Len(F) <= 1
    BY <2>1 DEF Shape, rm, NotRemoving
  <2>3. Len(F) = 1 /\ DOMAIN F = {1} /\ F[1] \in Frames /\ Last(F) = F[1]
    BY <2>1, <2>2, OneOnly
  <2> QED BY <2>3 DEF Current, F
<1>4. f.kind \in {"plain", "rule"} /\ f.subs \in SUBSET {Sub, Extra} /\ (Sub \notin f.subs => s0.stack[Sub] = <<>>)
  BY <1>2, <1>3, Fields, Framed DEF Shape, Ties
<1>5. s1 = IF Sub \in f.subs THEN s0 ELSE Push(sm, Sub, n)
  <2>1. (IF f.kind # "plain" \/ ~FALSE THEN f.kind ELSE "init") = f.kind
    OBVIOUS
  <2>2. Sub \notin f.subs => ~InTransaction(s0, Sub)
    BY <1>4 DEF InTransaction
  <2> HIDE DEF f
  <2> QED BY <1>3, <2>1, <2>2 DEF Descend
<1> HIDE DEF s1, f, e, sm, n, rm
<1>6. CASE Sub \in f.subs
  <2>1. s1 = s0 /\ f.subs = f.subs \cup {Sub}
    BY <1>5, <1>6
  <2>2. s0.stack[Sub] # <<>> /\ Len(s0.stack[Sub]) <= 1 /\ Len(s0.stack[Sub]) >= 1
    BY <1>2, <1>6, Framed DEF Ties, f
  <2>3. s0.stack[Sub][1].kind = f.kind
    BY <1>2, <2>2 DEF Ties, f
  <2>4. Good(s1, rm) /\ Same(s1, s0) /\ s1.stack = s0.stack
    BY <2>1 DEF Same, rm
  <2> DEFINE e1 == s1.stack[Top][1]
  <2>5. e1 = f /\ Len(s1.stack[Top]) = 1 /\ s1.stack[Top] # <<>>
    BY <1>3, <2>4 DEF f
  <2> HIDE DEF e1
  <2>6. Alike(e1, f) /\ e1.subs = f.subs \cup {Sub} /\ e1.outputs = f.outputs /\ e1.temps = f.temps
    BY <2>1, <2>5 DEF Alike
  <2>7. Len(s1.stack[Sub]) = 1 /\ s1.stack[Sub] # <<>> /\ s1.stack[Sub][1].kind = f.kind
    <3>1. Len(s0.stack[Sub]) = 1
      <4> DEFINE n1 == Len(s0.stack[Sub])
      <4>1. n1 \in Nat /\ n1 <= 1 /\ n1 >= 1
        BY <1>2, <2>2, Framed
      <4> HIDE DEF n1
      <4>2. n1 = 1
        BY <4>1
      <4> QED BY <4>2 DEF n1
    <3> QED BY <2>1, <2>2, <2>3, <3>1
  <2>8. s0.stack[Sub] # <<>>
    BY <2>2
  <2> QED BY <2>4, <2>5, <2>6, <2>7, <2>8 DEF s1, f, rm, e1
<1>7. CASE Sub \notin f.subs
  <2>1. e \in Frames /\ Alike(e, f) /\ e.subs = f.subs \cup {Sub} /\ e.outputs = f.outputs /\ e.temps = f.temps
        /\ e.kind = f.kind
    <3>1. f.subs \cup {Sub} \in SUBSET {Sub, Extra}
      BY <1>4
    <3> QED BY <1>3, <3>1 DEF e, Frames, Alike
  <2>2. /\ n \in Frames /\ n.kind = f.kind /\ n.dependent = TRUE /\ n.subs = {} /\ n.outputs = {}
        /\ n.end = Len(s0.contents[Sub]) /\ DOMAIN n.backup = {} /\ \A p \in Objects : n.temps.gap[p] = 0
    <3> DEFINE kind == f.kind
               dep == TRUE
    <3>1. kind \in {"plain", "init", "rule"} /\ kind # "init" /\ dep \in BOOLEAN
      BY <1>4
    <3>2. n = NewFrame(s0, Sub, kind, dep)
      BY DEF n
    <3> HIDE DEF kind, dep
    <3>3. /\ n \in Frames /\ n.kind = kind /\ n.dependent = dep /\ n.subs = {} /\ n.outputs = {}
          /\ n.end = Len(s0.contents[Sub]) /\ DOMAIN n.backup = {} /\ \A p \in Objects : n.temps.gap[p] = 0
      BY ONLY <1>1, <3>1, <3>2, NewFrameIs
    <3> QED BY <3>3 DEF kind, dep
  <2>3. /\ sm \in States /\ Same(sm, s0) /\ (\A p \in Objects : p # Top => sm.stack[p] = s0.stack[p])
        /\ Len(sm.stack[Top]) = Len(s0.stack[Top]) /\ DOMAIN sm.stack[Top] = DOMAIN s0.stack[Top]
        /\ sm.stack[Top][Len(s0.stack[Top])] = e
    BY <1>1, <2>1, SetFrameIs DEF sm
  <2>4. Len(sm.stack[Top]) = 1 /\ DOMAIN sm.stack[Top] = {1} /\ sm.stack[Top][1] = e
    BY <1>3, <2>3
  <2>5. s1 = Push(sm, Sub, n)
    BY <1>5, <1>7
  <2>6. /\ s1 \in States /\ Same(s1, sm) /\ (\A p \in Objects : p # Sub => s1.stack[p] = sm.stack[p])
        /\ s1.stack[Sub] = Append(sm.stack[Sub], n) /\ s1.stack[Sub] # <<>>
        /\ Len(s1.stack[Sub]) = Len(sm.stack[Sub]) + 1
        /\ DOMAIN s1.stack[Sub] = 1..(Len(sm.stack[Sub]) + 1) /\ s1.stack[Sub][Len(sm.stack[Sub]) + 1] = n
    BY SMTT(30), <1>1, <2>2, <2>3, <2>5, PushIs
  <2>7. sm.stack[Sub] = <<>> /\ Len(sm.stack[Sub]) = 0 /\ s0.stack[Sub] = <<>>
    BY <1>1, <1>4, <1>7, <2>3
  <2>8. Len(s1.stack[Sub]) = 1 /\ DOMAIN s1.stack[Sub] = {1} /\ s1.stack[Sub][1] = n
    BY <2>6, <2>7
  <2>9. /\ s1.stack[Top] = sm.stack[Top] /\ s1.stack[Extra] = s0.stack[Extra] /\ Same(s1, s0)
    BY <1>1, <2>3, <2>6 DEF Same
  <2>10. Part(s1, Top, rm)
    <3>1. Len(s1.stack[Top]) <= Len(s0.stack[Top]) /\ DOMAIN s1.stack[Top] = {1}
      <4> DEFINE l1 == Len(s1.stack[Top])
                 l0 == Len(s0.stack[Top])
      <4>1. l1 = 1 /\ l0 = 1
        BY <1>3, <2>4, <2>9
      <4> HIDE DEF l1, l0
      <4>2. l1 <= l0
        BY <4>1
      <4>3. DOMAIN s1.stack[Top] = {1}
        BY <2>4, <2>9
      <4> QED BY <4>2, <4>3 DEF l1, l0
    <3>2. Alike(s1.stack[Top][1], s0.stack[Top][1]) /\ s1.stack[Top][1].temps.gap[Top] = s0.stack[Top][1].temps.gap[Top]
      BY <2>1, <2>4, <2>9 DEF f
    <3>3. \A m \in DOMAIN s1.stack[Top] :
            /\ Alike(s1.stack[Top][m], s0.stack[Top][m])
            /\ s1.stack[Top][m].temps.gap[Top] = s0.stack[Top][m].temps.gap[Top]
      BY <3>1, <3>2
    <3>4. s1.contents[Top] = s0.contents[Top] /\ s1.dict[Top] = s0.dict[Top] /\ s1.cleanup.gap[Top] = s0.cleanup.gap[Top]
      BY <2>9 DEF Same
    <3>5. Part(s0, Top, rm) /\ s1 \in States
      BY <1>2, <2>6
    <3>6. Len(s1.stack[Top]) <= Len(s0.stack[Top])
      BY <3>1
    <3> QED BY ONLY <1>1, <3>6, <3>3, <3>4, <3>5, PartAlike
  <2>11. Part(s1, Sub, rm)
    <3>1. s1.stack[Sub] = Append(s0.stack[Sub], n)
      BY <2>6, <2>7
    <3> QED BY <1>1, <1>2, <2>2, <2>6, <2>9, <3>1, PartPush DEF Same
  <2>12. Shape(s1.stack[Top], rm)
    <3> DEFINE G == s1.stack[Top]
    <3>1. Len(G) = 1 /\ DOMAIN G = {1} /\ G[1].kind \in {"plain", "rule"}
      BY <1>4, <2>1, <2>4, <2>9
    <3> HIDE DEF G
    <3>2. Shape(G, rm)
      BY <3>1, ShapeOne DEF rm
    <3> QED BY <3>2 DEF G
  <2>13. Ties(s1)
    <3>1. s1.stack[Top] # <<>> /\ s1.stack[Top][1] = e /\ s1.dict = s0.dict
      BY <2>4, <2>9 DEF Same
    <3>2. Extra \in f.subs =>
           /\ f.kind = "plain" /\ Len(s0.stack[Extra]) = 1 /\ s0.stack[Extra][1].kind = "init" /\ s0.stack[Extra][1].end = 0
           /\ Extra \in DOMAIN s0.dict[Top] /\ s0.dict[Top][Extra] > f.end
      BY <1>2 DEF Ties, f
    <3>3. e.end = f.end /\ f.kind # "init" /\ (Extra \in e.subs <=> Extra \in f.subs)
      BY <1>1, <1>4, <2>1 DEF Alike
    <3> QED BY <2>1, <2>2, <2>4, <2>8, <2>9, <3>1, <3>2, <3>3 DEF Ties
  <2>14. Outputs(s1)
    <3>1. f.kind = "rule" => f.outputs \subseteq DOMAIN s0.dict[Top]
      BY <1>2, <1>3 DEF Outputs, f
    <3> QED BY <2>1, <2>2, <2>4, <2>8, <2>9, <3>1 DEF Outputs, Same
  <2>15. Links(s1)
    <3>1. Sub \in s1.parent /\ (Extra \in DOMAIN s1.dict[Top] => Extra \in s1.parent)
          /\ DOMAIN s1.dict[Sub] \subseteq Leaves /\ Whole(s1.contents[Extra], s1.dict[Extra])
      BY <1>2, <2>9 DEF Links, Same
    <3>2. \A m \in DOMAIN s1.stack[Top] : Sub \in DOMAIN s1.dict[Top] => s1.dict[Top][Sub] <= s1.stack[Top][m].end
      BY <1>2, <1>3, <2>1, <2>4, <2>9 DEF Links, Same, Alike, f
    <3>3. \A m \in DOMAIN s1.stack[Top] : \A i \in DOMAIN s1.stack[Top][m].backup :
            i <= s1.stack[Top][m].end => s1.stack[Top][m].backup[i][1] \in Leaves
      BY <1>2, <1>3, <2>1, <2>4, <2>9 DEF Links, Alike, f
    <3>4. \A m \in DOMAIN s1.stack[Sub] : \A i \in DOMAIN s1.stack[Sub][m].backup :
            i <= s1.stack[Sub][m].end => s1.stack[Sub][m].backup[i][1] \in Leaves
      BY <2>2, <2>8
    <3> QED BY <3>1, <3>2, <3>3, <3>4 DEF Links
  <2>17. OwnGaps(s1)
    <3>1. OwnGaps(s0)
      BY DEF Good
    <3>2. ASSUME NEW q \in Objects, NEW p \in {Top, Sub}, p # q, NEW m \in DOMAIN s1.stack[q]
          PROVE  s1.stack[q][m].temps.gap[p] = 0
      <4>1. CASE q = Sub
        BY <2>2, <2>8, <3>2, <4>1, Different
      <4>2. CASE q = Top
        <5>1. f.temps.gap[p] = 0
          BY <1>1, <1>3, <3>1, <3>2, <4>2 DEF OwnGaps, f
        <5> QED BY <2>1, <2>4, <2>9, <3>2, <4>2, <5>1
      <4>3. CASE q # Top /\ q # Sub
        <5>1. s1.stack[q] = s0.stack[q]
          BY <2>3, <2>6, <4>3
        <5> QED BY <3>1, <3>2, <5>1 DEF OwnGaps
      <4> QED BY <4>1, <4>2, <4>3
    <3> QED BY <2>9, <3>1, <3>2 DEF OwnGaps
  <2>16. Good(s1, rm)
    BY <2>6, <2>10, <2>11, <2>12, <2>13, <2>14, <2>15, <2>17 DEF Good
  <2>18. s1.stack[Top][1] = e /\ Len(s1.stack[Top]) = 1 /\ s1.stack[Top] # <<>>
    BY <2>4, <2>9
  <2>19. s1.stack[Sub][1].kind = f.kind /\ DOMAIN s1.stack[Sub][1].backup = {}
    BY <2>2, <2>8
  <2> DEFINE e1 == s1.stack[Top][1]
  <2>20. Alike(e1, f) /\ e1.subs = f.subs \cup {Sub} /\ e1.outputs = f.outputs /\ e1.temps = f.temps
    BY <2>1, <2>18
  <2> HIDE DEF e1
  <2> QED BY <2>6, <2>8, <2>9, <2>16, <2>18, <2>19, <2>20 DEF s1, f, rm, e1
<1> QED BY <1>6, <1>7

(* Frames and states that differ in flags and items only.                               *)
Kept(e, f) == Alike(e, f) /\ e.subs = f.subs /\ e.dependent = f.dependent

Flagged(e, f) == Alike(e, f) /\ e.subs = f.subs /\ e.dependent = f.dependent /\ e.outputs = f.outputs

\* Frames that note the same gaps.
SameGaps(e, f) == e.temps.gap[Top] = f.temps.gap[Top] /\ e.temps.gap[Sub] = f.temps.gap[Sub]

(* States with such frames are as good, if the outputs of rules are.                    *)
LEMMA Reworked ==
  ASSUME NEW s0, NEW rm, Good(s0, rm), NEW s1 \in States,
         s1.contents = s0.contents, s1.dict = s0.dict, s1.parent = s0.parent, s1.cleanup.gap = s0.cleanup.gap,
         Outputs(s1),
         \A o \in Objects :
           /\ Len(s1.stack[o]) = Len(s0.stack[o])
           /\ \A n \in DOMAIN s0.stack[o] : /\ Kept(s1.stack[o][n], s0.stack[o][n])
                                            /\ SameGaps(s1.stack[o][n], s0.stack[o][n])
  PROVE  Good(s1, rm)
<1>1. /\ s0 \in States /\ Top \in Objects /\ Sub \in Objects /\ Extra \in Objects
      /\ Part(s0, Top, rm) /\ Part(s0, Sub, rm) /\ Shape(s0.stack[Top], rm) /\ Ties(s0) /\ Outputs(s0) /\ Links(s0)
      /\ OwnGaps(s0)
  BY Different DEF Good
<1>2. \A o \in Objects : /\ DOMAIN s1.stack[o] = DOMAIN s0.stack[o] /\ (s1.stack[o] = <<>> <=> s0.stack[o] = <<>>)
                         /\ (s0.stack[o] # <<>> => 1 \in DOMAIN s0.stack[o])
                         /\ Len(s0.stack[o]) \in Nat /\ (Len(s0.stack[o]) > 0 => s0.stack[o] # <<>>)
  BY <1>1, StateParts, Framed
<1>3. \A o \in {Top, Sub} : Part(s0, o, rm) => Part(s1, o, rm)
  BY <1>1, <1>2, PartAlike DEF Kept, SameGaps
<1>4. Shape(s1.stack[Top], rm)
  <2> DEFINE F == s0.stack[Top]
             G == s1.stack[Top]
  <2>1. DOMAIN G = DOMAIN F /\ Len(G) = Len(F) /\ \A n \in DOMAIN F : G[n].kind = F[n].kind
    BY <1>1, <1>2 DEF Kept, Alike
  <2>2. Shape(F, rm)
    BY <1>1
  <2> HIDE DEF F, G
  <2>3. Shape(G, rm)
    BY ZenonT(30), <2>1, <2>2 DEF Shape
  <2> QED BY <2>3 DEF G
<1>5. Ties(s1)
  <2> DEFINE F == s0.stack[Top]
             G == s1.stack[Top]
             K == s0.stack[Sub]
             L == s1.stack[Sub]
             M == s0.stack[Extra]
             N == s1.stack[Extra]
  <2>1. /\ DOMAIN G = DOMAIN F /\ (G = <<>> <=> F = <<>>) /\ (F # <<>> => 1 \in DOMAIN F)
        /\ \A n \in DOMAIN F : G[n].subs = F[n].subs /\ G[n].kind = F[n].kind /\ G[n].end = F[n].end
    BY <1>1, <1>2 DEF Kept, Alike
  <2>2. /\ Len(L) = Len(K) /\ (L = <<>> <=> K = <<>>) /\ (K # <<>> => 1 \in DOMAIN K)
        /\ \A n \in DOMAIN K : L[n].dependent = K[n].dependent /\ L[n].kind = K[n].kind
    BY <1>1, <1>2 DEF Kept, Alike
  <2>3. /\ Len(M) = Len(N) /\ (Len(M) = 1 => 1 \in DOMAIN M)
        /\ \A n \in DOMAIN M : M[n].kind = N[n].kind /\ M[n].end = N[n].end
    BY <1>1, <1>2 DEF Kept, Alike
  <2> HIDE DEF F, G, K, L, M, N
  <2>4. Ties(s0)
    BY <1>1
  <2> QED BY <2>1, <2>2, <2>3, <2>4 DEF Ties, F, G, K, L, M, N
<1>6. Outputs(s1)
  OBVIOUS
<1>7. Links(s1)
  <2>1. \A o \in Objects : \A n \in DOMAIN s1.stack[o] : Alike(s1.stack[o][n], s0.stack[o][n])
    BY <1>2 DEF Kept
  <2>2. Sub \in s1.parent /\ (Extra \in DOMAIN s1.dict[Top] => Extra \in s1.parent)
        /\ DOMAIN s1.dict[Sub] \subseteq Leaves /\ Whole(s1.contents[Extra], s1.dict[Extra])
    BY <1>1 DEF Links
  <2>3. \A n \in DOMAIN s1.stack[Top] : Sub \in DOMAIN s1.dict[Top] => s1.dict[Top][Sub] <= s1.stack[Top][n].end
    BY <1>1, <1>2, <2>1 DEF Links, Alike
  <2>4. \A o \in {Top, Sub} : \A n \in DOMAIN s1.stack[o] : \A i \in DOMAIN s1.stack[o][n].backup :
          i <= s1.stack[o][n].end => s1.stack[o][n].backup[i][1] \in Leaves
    BY SMTT(30), <1>1, <1>2, <2>1 DEF Links, Alike
  <2> QED BY <2>2, <2>3, <2>4 DEF Links
<1>8. OwnGaps(s1)
  <2>1. ASSUME NEW o \in Objects, NEW p \in {Top, Sub}, p # o, NEW n \in DOMAIN s1.stack[o]
        PROVE  s1.stack[o][n].temps.gap[p] = 0
    <3>1. n \in DOMAIN s0.stack[o] /\ s0.stack[o][n].temps.gap[p] = 0
      BY <1>1, <1>2, <2>1 DEF OwnGaps
    <3>2. SameGaps(s1.stack[o][n], s0.stack[o][n])
      BY <3>1
    <3>3. s1.stack[o][n].temps.gap[p] = s0.stack[o][n].temps.gap[p]
      BY <2>1, <3>2 DEF SameGaps
    <3> QED BY <3>1, <3>3
  <2>2. \A n \in DOMAIN s1.stack[Extra] : s1.stack[Extra][n].end = 0
    BY <1>1, <1>2 DEF OwnGaps, Kept, Alike
  <2> QED BY <2>1, <2>2 DEF OwnGaps
<1> QED BY <1>1, <1>3, <1>4, <1>5, <1>6, <1>7, <1>8 DEF Good

(* Those with nothing but flags and items changed are good.                             *)
LEMMA Retouched ==
  ASSUME NEW s0, NEW rm, Good(s0, rm), NEW s1 \in States,
         s1.contents = s0.contents, s1.dict = s0.dict, s1.parent = s0.parent, s1.cleanup.gap = s0.cleanup.gap,
         \A o \in Objects :
           /\ Len(s1.stack[o]) = Len(s0.stack[o])
           /\ \A n \in DOMAIN s0.stack[o] : /\ Flagged(s1.stack[o][n], s0.stack[o][n])
                                            /\ SameGaps(s1.stack[o][n], s0.stack[o][n])
  PROVE  Good(s1, rm)
<1>1. s0 \in States /\ Top \in Objects /\ Sub \in Objects /\ Outputs(s0)
  BY Different DEF Good
<1>2. \A o \in Objects : s1.stack[o] \in Seq(Frames) /\ s0.stack[o] \in Seq(Frames)
  BY <1>1, StateParts
<1>3. \A o \in Objects : DOMAIN s1.stack[o] = DOMAIN s0.stack[o]
  BY <1>2
<1>4. Outputs(s1)
  BY <1>1, <1>3 DEF Outputs, Flagged, Alike
<1>5. \A o \in Objects : \A n \in DOMAIN s0.stack[o] : Kept(s1.stack[o][n], s0.stack[o][n])
  BY DEF Flagged, Kept
<1> QED BY <1>4, <1>5, Reworked

(* Stacks, the cleanup table and parents are as they were.                              *)
SameStacks(s1, s0) == s1.stack = s0.stack /\ s1.cleanup = s0.cleanup /\ s1.parent = s0.parent

\* A cell is appended.
Appended(s0, o, k, cell) ==
  [s0 EXCEPT !.contents[o] = Append(@, cell), !.dict[o] = With(@, k, Len(s0.contents[o]) + 1)]

(* A state with one cell more is as good.                                               *)
LEMMA Appends ==
  ASSUME NEW s0, NEW rm, Good(s0, rm), NEW o \in {Top, Sub}, NEW cell \in Cells, NEW k, k = cell[1],
         k \notin DOMAIN s0.dict[o],
         k \in Leaves \/ (o = Top /\ k = Extra /\ Extra \in s0.parent),
         s0.stack[o] # <<>> => s0.stack[o][1].kind = "rule" \/
           \A i \in DOMAIN s0.stack[o][1].backup : s0.stack[o][1].backup[i][1] = k => k \in Free(o, rm),
         NEW s1, s1 = Appended(s0, o, k, cell)
  PROVE  /\ Good(s1, rm) /\ SameStacks(s1, s0)
         /\ \A p \in Objects : p # o => s1.contents[p] = s0.contents[p] /\ s1.dict[p] = s0.dict[p]
         /\ Len(s1.contents[o]) = Len(s0.contents[o]) + 1
         /\ DOMAIN s1.dict[o] = DOMAIN s0.dict[o] \cup {k} /\ s1.dict[o][k] = Len(s0.contents[o]) + 1
         /\ \A j \in DOMAIN s0.dict[o] : s1.dict[o][j] = s0.dict[o][j]
<1> DEFINE c  == s0.contents[o]
           d  == s0.dict[o]
           c1 == Append(c, cell)
           d1 == With(d, k, Len(c) + 1)
           F  == s0.stack[o]
           H  == GapsOf(F, o)
           g  == s0.cleanup.gap[o]
           free == Free(o, rm)
<1>1. /\ s0 \in States /\ o \in Objects /\ Top \in Objects /\ Sub \in Objects /\ Extra \in Objects
      /\ Top # Sub /\ Top # Extra /\ Sub # Extra /\ Sub \notin Leaves /\ Extra \notin Leaves
      /\ Part(s0, Top, rm) /\ Part(s0, Sub, rm) /\ Shape(s0.stack[Top], rm) /\ Ties(s0) /\ Outputs(s0) /\ Links(s0)
      /\ OwnGaps(s0)
  BY Different DEF Good
<1>2. c \in Contents /\ d \in Dicts /\ F \in Seq(Frames) /\ g \in Nat /\ H \in [DOMAIN F -> Nat] /\ k \in Keys
  BY <1>1, StateParts, GapsTyped, GapIsNoCell
<1>3. c1 \in Contents /\ d1 \in Dicts /\ Len(c) \in Nat /\ Len(c1) = Len(c) + 1
  <2> HIDE DEF c, d
  <2>1. Len(c) \in Nat /\ c1 \in Contents
    BY <1>2, Sequence
  <2>2. Len(c) + 1 \in Nat
    BY <2>1
  <2>3. Len(c1) = Len(c) + 1
    BY <1>2 DEF Contents
  <2> QED BY <1>2, <2>1, <2>2, <2>3, Dictionary
<1>4. DOMAIN d1 = DOMAIN d \cup {k} /\ d1[k] = Len(c) + 1 /\ \A j \in DOMAIN d : d1[j] = d[j]
  BY DEF With, Over
<1> DEFINE C == c1
           D == d1
           X == [s0.contents EXCEPT ![o] = C]
           Y == [s0.dict EXCEPT ![o] = D]
<1>5. s1 = [s0 EXCEPT !.contents = X, !.dict = Y] /\ C \in Contents /\ D \in Dicts
  BY <1>1, <1>3, StateParts DEF Appended
<1> HIDE DEF C, D
<1>51. X \in [Objects -> Contents] /\ Y \in [Objects -> Dicts]
  BY <1>1, <1>5, StateParts
<1>6. /\ s1 \in States /\ s1.contents = [s0.contents EXCEPT ![o] = C] /\ s1.dict = [s0.dict EXCEPT ![o] = D]
      /\ SameStacks(s1, s0)
  <2>1. s0 \in States
    BY <1>1
  <2> HIDE DEF X, Y
  <2>2. s1 \in States /\ s1.contents = X /\ s1.dict = Y /\ SameStacks(s1, s0)
    BY <1>5, <1>51, <2>1 DEF States, SameStacks
  <2> QED BY <2>2 DEF X, Y
<1>7. /\ s1.contents[o] = c1 /\ s1.dict[o] = d1
      /\ \A p \in Objects : p # o => s1.contents[p] = s0.contents[p] /\ s1.dict[p] = s0.dict[p]
  BY <1>1, <1>6, StateParts DEF C, D
<1>8. \A p \in Objects : s1.stack[p] = s0.stack[p] /\ s1.cleanup.gap[p] = s0.cleanup.gap[p]
  BY <1>6 DEF SameStacks
<1>9. Part(s1, o, rm)
  <2>1. Stacked(c, d, F, g, H, free)
    BY <1>1 DEF Part
  <2>2. F # <<>> => F[1].kind = "rule" \/ \A i \in DOMAIN F[1].backup : F[1].backup[i][1] = k => k \in free
    OBVIOUS
  <2>25. k \notin DOMAIN d
    OBVIOUS
  <2> HIDE DEF c, d, F, H, g, free
  <2>3. Stacked(c1, d1, F, g, H, free)
    BY ONLY <1>2, <2>1, <2>2, <2>25, StackedAppend, cell \in Cells, k = cell[1]
  <2>4. s1.stack[o] = F /\ s1.cleanup.gap[o] = g
    BY <1>1, <1>8 DEF F, g
  <2> QED BY <1>7, <2>3, <2>4 DEF Part, H, free
<1>10. \A p \in {Top, Sub} : p # o => Part(s1, p, rm)
  <2> SUFFICES ASSUME NEW p \in {Top, Sub}, p # o PROVE Part(s1, p, rm)
    OBVIOUS
  <2>1. Part(s0, p, rm) /\ p \in Objects
    BY <1>1
  <2> QED BY <1>7, <1>8, <2>1 DEF Part
<1> HIDE DEF c, d, c1, d1, F, H, g, free
<1>11. Shape(s1.stack[Top], rm)
  BY <1>1, <1>8
<1>12. \A p \in Objects : DOMAIN s0.dict[p] \subseteq DOMAIN s1.dict[p] /\ \A j \in DOMAIN s0.dict[p] : s1.dict[p][j] = s0.dict[p][j]
  BY <1>4, <1>7 DEF d
<1>13. Ties(s1)
  BY <1>1, <1>8, <1>12 DEF Ties
<1>14. Outputs(s1)
  BY <1>1, <1>8, <1>12 DEF Outputs
<1>15. Links(s1)
  <2>1. s1.parent = s0.parent
    BY <1>6 DEF SameStacks
  <2>2. Sub \in DOMAIN s1.dict[Top] => Sub \in DOMAIN s0.dict[Top] /\ s1.dict[Top][Sub] = s0.dict[Top][Sub]
    BY <1>1, <1>4, <1>7 DEF d
  <2>3. Extra \in DOMAIN s1.dict[Top] => Extra \in s1.parent
    BY <1>1, <1>4, <1>7, <2>1 DEF d, Links
  <2>4. DOMAIN s1.dict[Sub] \subseteq Leaves
    BY <1>1, <1>4, <1>7 DEF d, Links
  <2>5. Whole(s1.contents[Extra], s1.dict[Extra])
    BY <1>1, <1>7 DEF Links
  <2> QED BY SMTT(30), <1>1, <1>8, <2>1, <2>2, <2>3, <2>4, <2>5 DEF Links
<1>16. OwnGaps(s1)
  BY <1>1, <1>8 DEF OwnGaps
<1>17. Good(s1, rm)
  BY <1>1, <1>6, <1>9, <1>10, <1>11, <1>13, <1>14, <1>15, <1>16 DEF Good
<1> QED BY <1>3, <1>4, <1>6, <1>7, <1>17 DEF c, d

(* A cell is overwritten.                                                               *)
LEMMA Overwrites ==
  ASSUME NEW s0, NEW rm, Good(s0, rm), NEW o \in {Top, Sub}, NEW cell \in Cells, NEW k \in DOMAIN s0.dict[o],
         k = cell[1], NEW s1, s1 = [s0 EXCEPT !.contents[o][s0.dict[o][k]] = cell]
  PROVE  /\ Good(s1, rm) /\ SameStacks(s1, s0) /\ s1.dict = s0.dict
         /\ \A p \in Objects : p # o => s1.contents[p] = s0.contents[p]
         /\ Len(s1.contents[o]) = Len(s0.contents[o])
<1> DEFINE c  == s0.contents[o]
           d  == s0.dict[o]
           i  == d[k]
           c1 == [c EXCEPT ![i] = cell]
           F  == s0.stack[o]
           H  == GapsOf(F, o)
           g  == s0.cleanup.gap[o]
           free == Free(o, rm)
<1>1. /\ s0 \in States /\ o \in Objects /\ Top \in Objects /\ Sub \in Objects /\ Extra \in Objects
      /\ Top # Sub /\ Top # Extra /\ Sub # Extra
      /\ Part(s0, Top, rm) /\ Part(s0, Sub, rm) /\ Shape(s0.stack[Top], rm) /\ Ties(s0) /\ Outputs(s0) /\ Links(s0)
      /\ OwnGaps(s0)
  BY Different DEF Good
<1>2. c \in Contents /\ d \in Dicts /\ F \in Seq(Frames) /\ g \in Nat /\ H \in [DOMAIN F -> Nat]
  BY <1>1, StateParts, GapsTyped
<1>3. Stacked(c, d, F, g, H, free)
  BY <1>1 DEF Part
<1>4. i \in DOMAIN c /\ c[i] # Gap /\ c[i][1] = k
  BY <1>3 DEF Stacked, Whole
<1>5. c1 \in Contents /\ Len(c1) = Len(c)
  BY <1>2, <1>4 DEF Contents
<1>6. s1 = [s0 EXCEPT !.contents = [@ EXCEPT ![o] = c1]]
  BY <1>1, StateParts
<1> DEFINE C == c1
<1>61. s1 = [s0 EXCEPT !.contents = [@ EXCEPT ![o] = C]] /\ C \in Contents
  BY <1>5, <1>6
<1> HIDE DEF C
<1>7. /\ s1 \in States /\ s1.contents = [s0.contents EXCEPT ![o] = C] /\ s1.dict = s0.dict
      /\ SameStacks(s1, s0)
  BY ZenonT(30), <1>1, <1>61, StateParts DEF States, SameStacks
<1>8. /\ s1.contents[o] = c1
      /\ \A p \in Objects : p # o => s1.contents[p] = s0.contents[p]
  BY <1>1, <1>7, StateParts DEF C
<1>9. \A p \in Objects : s1.stack[p] = s0.stack[p] /\ s1.cleanup.gap[p] = s0.cleanup.gap[p] /\ s1.dict[p] = s0.dict[p]
  BY <1>7 DEF SameStacks
<1>10. Part(s1, o, rm)
  <2> HIDE DEF c, d, i, F, H, g, free
  <2>3. Stacked(c1, d, F, g, H, free)
    BY ONLY <1>2, <1>3, <1>4, StackedReplace, cell \in Cells, k = cell[1]
  <2>4. s1.stack[o] = F /\ s1.cleanup.gap[o] = g /\ s1.dict[o] = d
    BY <1>1, <1>9 DEF F, g, d
  <2> QED BY <1>8, <2>3, <2>4 DEF Part, H, free
<1>11. \A p \in {Top, Sub} : p # o => Part(s1, p, rm)
  <2> SUFFICES ASSUME NEW p \in {Top, Sub}, p # o PROVE Part(s1, p, rm)
    OBVIOUS
  <2>1. Part(s0, p, rm) /\ p \in Objects
    BY <1>1
  <2> QED BY <1>8, <1>9, <2>1 DEF Part
<1> HIDE DEF c, d, i, c1, F, H, g, free
<1>12. Shape(s1.stack[Top], rm) /\ Ties(s1) /\ Outputs(s1) /\ OwnGaps(s1)
  BY <1>1, <1>9 DEF Ties, Outputs, OwnGaps
<1>13. Links(s1)
  <2>1. s1.parent = s0.parent
    BY <1>7 DEF SameStacks
  <2>2. s1.contents[Extra] = s0.contents[Extra]
    BY <1>1, <1>8
  <2> QED BY <1>1, <1>9, <2>1, <2>2 DEF Links
<1>14. Good(s1, rm)
  BY <1>1, <1>7, <1>10, <1>11, <1>12, <1>13 DEF Good
<1> QED BY <1>5, <1>7, <1>8, <1>14 DEF c

\* What a change of flags leaves alone, in every frame.
Flags(s1, s0) ==
  \A p \in Objects :
    /\ Len(s1.stack[p]) = Len(s0.stack[p]) /\ (s1.stack[p] = <<>> <=> s0.stack[p] = <<>>)
    /\ \A n \in DOMAIN s0.stack[p] : /\ Flagged(s1.stack[p][n], s0.stack[p][n])
                                     /\ SameGaps(s1.stack[p][n], s0.stack[p][n])

(* Flags and items of the current transaction change.                                   *)
LEMMA Flaggings ==
  ASSUME NEW s0, NEW rm, Good(s0, rm), NEW o \in Objects, s0.stack[o] # <<>>, NEW f \in Frames,
         Flagged(f, Current(s0, o)), SameGaps(f, Current(s0, o))
  PROVE  LET s1 == SetFrame(s0, o, f)
         IN  /\ Good(s1, rm) /\ Same(s1, s0) /\ Flags(s1, s0)
             /\ s1.stack[o][Len(s0.stack[o])] = f
<1> DEFINE s1 == SetFrame(s0, o, f)
<1>1. s0 \in States
  BY DEF Good
<1>2. /\ s1 \in States /\ Same(s1, s0) /\ \A p \in Objects : p # o => s1.stack[p] = s0.stack[p]
      /\ Len(s1.stack[o]) = Len(s0.stack[o]) /\ s1.stack[o] # <<>>
      /\ s1.stack[o][Len(s0.stack[o])] = f
      /\ \A n \in DOMAIN s0.stack[o] : n # Len(s0.stack[o]) => s1.stack[o][n] = s0.stack[o][n]
  BY <1>1, SetFrameIs
<1> HIDE DEF s1
<1>3. Current(s0, o) = s0.stack[o][Len(s0.stack[o])]
  BY DEF Current, Last
<1>4. Flags(s1, s0)
  <2> SUFFICES ASSUME NEW p \in Objects
               PROVE  /\ Len(s1.stack[p]) = Len(s0.stack[p]) /\ (s1.stack[p] = <<>> <=> s0.stack[p] = <<>>)
                      /\ \A n \in DOMAIN s0.stack[p] : /\ Flagged(s1.stack[p][n], s0.stack[p][n])
                                                       /\ SameGaps(s1.stack[p][n], s0.stack[p][n])
    BY DEF Flags
  <2>1. CASE p = o
    BY <1>2, <1>3, <2>1 DEF Flagged, Alike, SameGaps
  <2>2. CASE p # o
    BY <1>2, <2>2 DEF Flagged, Alike, SameGaps
  <2> QED BY <2>1, <2>2
<1>5. Good(s1, rm)
  <2>1. s1.contents = s0.contents /\ s1.dict = s0.dict /\ s1.parent = s0.parent /\ s1.cleanup.gap = s0.cleanup.gap
    BY <1>2 DEF Same
  <2> QED BY <1>2, <1>4, <2>1, Retouched DEF Flags
<1> QED BY <1>2, <1>4, <1>5 DEF s1

(* put(): what is needed for it, and what it does.                                      *)
Storable(s0, rm, o, k) ==
  \/ k \in DOMAIN s0.dict[o]
  \/ /\ k \in Leaves \/ (o = Top /\ k = Extra /\ Extra \in s0.parent)
     /\ s0.stack[o][1].kind = "rule" \/
          \A i \in DOMAIN s0.stack[o][1].backup : s0.stack[o][1].backup[i][1] = k => k \in Free(o, rm)

(* put() in a transaction that is open: what may be stored keeps a state good.          *)
LEMMA Stores ==
  ASSUME NEW s0, NEW rm, Good(s0, rm), NEW o \in {Top, Sub}, s0.stack[o] # <<>>,
         NEW k \in Keys, NEW v \in CellValues, NEW temp \in BOOLEAN, Storable(s0, rm, o, k)
  PROVE  LET s1 == Store(s0, o, k, v, temp)
         IN  /\ Good(s1, rm) /\ Flags(s1, s0) /\ s1.parent = s0.parent /\ s1.cleanup = s0.cleanup
             /\ \A p \in Objects : p # o => s1.contents[p] = s0.contents[p] /\ s1.dict[p] = s0.dict[p]
             /\ DOMAIN s1.dict[o] = DOMAIN s0.dict[o] \cup {k}
             /\ \A j \in DOMAIN s0.dict[o] : s1.dict[o][j] = s0.dict[o][j]
             /\ k \notin DOMAIN s0.dict[o] => s1.dict[o][k] = Len(s0.contents[o]) + 1
<1> DEFINE f == Current(s0, o)
           t == temp \/ f.temporary
           n == Len(s0.contents[o]) + 1
           cell == <<k, v, t>>
           e == [f EXCEPT !.temps.items = IF t THEN @ \cup {<<o, k>>} ELSE @, !.changed = @ \/ ~t]
           sm == IF k \in DOMAIN s0.dict[o]
              THEN [s0 EXCEPT !.contents[o][s0.dict[o][k]] = cell]
              ELSE [s0 EXCEPT !.contents[o] = Append(@, cell), !.dict[o] = With(@, k, n)]
           s1 == Store(s0, o, k, v, temp)
<1>1. s0 \in States /\ o \in Objects
  BY Different DEF Good
<1>2. s0.stack[o] \in Seq(Frames) /\ f \in Frames /\ f = s0.stack[o][Len(s0.stack[o])]
  BY <1>1, StateParts, Framed DEF Current
<1>3. t \in BOOLEAN /\ cell \in Cells /\ cell[1] = k
  BY <1>2, Fields DEF Cells
<1>4. e \in Frames /\ Flagged(e, f) /\ SameGaps(e, f)
  <2>1. (IF t THEN f.temps.items \cup {<<o, k>>} ELSE f.temps.items) \in SUBSET (Objects \X Keys)
    BY <1>1, <1>2, Fields
  <2>2. (f.changed \/ ~t) \in BOOLEAN
    OBVIOUS
  <2> HIDE DEF f, t
  <2> QED BY ZenonT(30), <1>2, <2>1, <2>2 DEF Frames, Temps, Flagged, Alike, SameGaps
<1>5. s1 = SetFrame(sm, o, e)
  BY DEF Store
<1> HIDE DEF t, n, cell, e, s1, f
<1>6. /\ Good(sm, rm) /\ SameStacks(sm, s0)
      /\ \A p \in Objects : p # o => sm.contents[p] = s0.contents[p] /\ sm.dict[p] = s0.dict[p]
      /\ DOMAIN sm.dict[o] = DOMAIN s0.dict[o] \cup {k}
      /\ \A j \in DOMAIN s0.dict[o] : sm.dict[o][j] = s0.dict[o][j]
      /\ k \notin DOMAIN s0.dict[o] => sm.dict[o][k] = Len(s0.contents[o]) + 1
  <2>1. CASE k \in DOMAIN s0.dict[o]
    <3>1. sm = [s0 EXCEPT !.contents[o][s0.dict[o][k]] = cell]
      BY <2>1
    <3> HIDE DEF sm
    <3>2. /\ Good(sm, rm) /\ SameStacks(sm, s0) /\ sm.dict = s0.dict
          /\ \A p \in Objects : p # o => sm.contents[p] = s0.contents[p]
      BY <1>3, <2>1, <3>1, Overwrites
    <3> QED BY <2>1, <3>2
  <2>2. CASE k \notin DOMAIN s0.dict[o]
    <3>1. sm = Appended(s0, o, k, cell)
      BY <2>2 DEF n, Appended
    <3> HIDE DEF sm
    <3>2. /\ k \in Leaves \/ (o = Top /\ k = Extra /\ Extra \in s0.parent)
          /\ s0.stack[o][1].kind = "rule" \/
              \A i \in DOMAIN s0.stack[o][1].backup : s0.stack[o][1].backup[i][1] = k => k \in Free(o, rm)
      BY <2>2 DEF Storable
    <3>3. /\ Good(sm, rm) /\ SameStacks(sm, s0)
          /\ \A p \in Objects : p # o => sm.contents[p] = s0.contents[p] /\ sm.dict[p] = s0.dict[p]
          /\ DOMAIN sm.dict[o] = DOMAIN s0.dict[o] \cup {k} /\ sm.dict[o][k] = Len(s0.contents[o]) + 1
          /\ \A j \in DOMAIN s0.dict[o] : sm.dict[o][j] = s0.dict[o][j]
      <4>1. k \notin DOMAIN s0.dict[o] /\ cell \in Cells /\ cell[1] = k
        BY <1>3, <2>2
      <4>2. s0.stack[o] # <<>> => s0.stack[o][1].kind = "rule" \/
              \A i \in DOMAIN s0.stack[o][1].backup : s0.stack[o][1].backup[i][1] = k => k \in Free(o, rm)
        BY <3>2
      <4>3. k \in Leaves \/ (o = Top /\ k = Extra /\ Extra \in s0.parent)
        BY <3>2
      <4>4. k = cell[1]
        BY <4>1
      <4> QED BY ONLY Good(s0, rm), o \in {Top, Sub}, <3>1, <4>1, <4>2, <4>3, <4>4, Appends
    <3> QED BY <2>2, <3>3
  <2> QED BY <2>1, <2>2
<1> HIDE DEF sm
<1>7. sm.stack = s0.stack /\ Current(sm, o) = f
  BY <1>6 DEF SameStacks, Current, f
<1>8. Good(s1, rm) /\ Same(s1, sm) /\ Flags(s1, sm)
  BY <1>1, <1>4, <1>5, <1>6, <1>7, Flaggings
<1>9. Flags(s1, s0)
  BY <1>7, <1>8 DEF Flags
<1> QED BY <1>6, <1>8, <1>9 DEF Same, SameStacks, s1

(* An object has one transaction while nothing is being reconstructed.                  *)
LEMMA OneFrame ==
  ASSUME NEW s0, NEW rm, Good(s0, rm), NEW o \in {Top, Sub}, s0.stack[o] # <<>>, o = Sub \/ rm = NotRemoving
  PROVE  /\ Len(s0.stack[o]) = 1 /\ DOMAIN s0.stack[o] = {1} /\ s0.stack[o][1] \in Frames
         /\ s0.stack[o] = <<s0.stack[o][1]>> /\ Current(s0, o) = s0.stack[o][1]
         /\ s0.stack[o][1].kind \in {"plain", "rule"}
<1>1. s0 \in States /\ o \in Objects
  BY Different DEF Good
<1>2. s0.stack[o] \in Seq(Frames) /\ s0.stack[Top] \in Seq(Frames)
  BY <1>1, StateParts, Different
<1>3. Len(s0.stack[o]) <= 1
  BY DEF Good, Ties, Shape, NotRemoving
<1>4. Len(s0.stack[o]) = 1 /\ DOMAIN s0.stack[o] = {1} /\ s0.stack[o][1] \in Frames
      /\ s0.stack[o] = <<s0.stack[o][1]>> /\ Last(s0.stack[o]) = s0.stack[o][1]
  BY <1>2, <1>3, OneOnly
<1>5. s0.stack[o] = <<s0.stack[o][1]>> /\ Current(s0, o) = s0.stack[o][1]
  BY <1>4 DEF Current
<1>6. s0.stack[Top] # <<>> => s0.stack[Top][1].kind \in {"plain", "rule"}
  BY <1>2, Framed DEF Good, Shape
<1>7. s0.stack[o][1].kind \in {"plain", "rule"}
  BY <1>6 DEF Good, Ties
<1> QED BY <1>4, <1>5, <1>7

\* k has been dropped by s0, which gives s1.
Dropped(s1, s0, o, k) ==
  LET f == s0.stack[o][1]
      e == s1.stack[o][1]
      i == s0.dict[o][k]
      c == s0.contents[o]
  IN  /\ s1 \in States /\ Part(s1, Top, NotRemoving) /\ Part(s1, Sub, NotRemoving)
      /\ Len(s1.stack[o]) = 1 /\ DOMAIN s1.stack[o] = {1} /\ s1.stack[o] # <<>>
      /\ e \in Frames /\ e.kind = "plain" /\ e.end = f.end /\ e.subs = f.subs /\ e.dependent = f.dependent
      /\ \A p \in Objects : p # o => e.temps.gap[p] = f.temps.gap[p]
      /\ \A j \in DOMAIN e.backup : (j \in DOMAIN f.backup /\ e.backup[j] = f.backup[j]) \/ (j = i /\ e.backup[j] = c[i])
      /\ i \in DOMAIN c /\ i \in Nat /\ c[i][1] = k
      /\ DOMAIN s1.dict[o] = DOMAIN s0.dict[o] \ {k} /\ \A j \in DOMAIN s1.dict[o] : s1.dict[o][j] = s0.dict[o][j]
      /\ \A p \in Objects : p # o => s1.contents[p] = s0.contents[p] /\ s1.dict[p] = s0.dict[p] /\ s1.stack[p] = s0.stack[p]
      /\ s1.parent = s0.parent /\ s1.cleanup = s0.cleanup

(* remove() in a frame that is not a rule's.                                            *)
LEMMA DropIs ==
  ASSUME NEW s0, Good(s0, NotRemoving), NEW o \in {Top, Sub}, s0.stack[o] # <<>>, s0.stack[o][1].kind = "plain",
         NEW k \in DOMAIN s0.dict[o]
  PROVE  Dropped(Drop(s0, o, k), s0, o, k)
<1> DEFINE c  == s0.contents[o]
           d  == s0.dict[o]
           g  == s0.cleanup.gap[o]
           f  == s0.stack[o][1]
           h  == f.temps.gap[o]
           i  == d[k]
           rm == NotRemoving
           e  == [f EXCEPT !.backup = Over(@, With(<<>>, i, c[i])), !.temps.gap[o] = AssignMin(@, i), !.changed = TRUE]
           C  == [c EXCEPT ![i] = Gap]
           D  == [j \in DOMAIN d \ {k} |-> d[j]]
           sm == [s0 EXCEPT !.dict = [@ EXCEPT ![o] = D], !.contents = [@ EXCEPT ![o] = C]]
           s1 == Drop(s0, o, k)
<1>1. /\ s0 \in States /\ o \in Objects /\ Top \in Objects /\ Sub \in Objects /\ Extra \in Objects
      /\ Top # Sub /\ Top # Extra /\ Sub # Extra /\ Sub \notin Leaves
      /\ Part(s0, Top, rm) /\ Part(s0, Sub, rm) /\ Shape(s0.stack[Top], rm) /\ Ties(s0) /\ Outputs(s0) /\ Links(s0)
      /\ OwnGaps(s0)
  BY Different DEF Good, rm
<1>2. c \in Contents /\ d \in Dicts /\ s0.stack[o] \in Seq(Frames) /\ g \in Nat
  BY <1>1, StateParts
<1>3. Len(s0.stack[o]) = 1 /\ DOMAIN s0.stack[o] = {1} /\ f \in Frames /\ s0.stack[o] = <<f>> /\ Current(s0, o) = f
      /\ f.kind = "plain"
  BY OneFrame
<1>4. GapsOf(s0.stack[o], o) = <<h>> /\ h \in Nat
  BY <1>1, <1>2, <1>3, GapsTyped, Fields
<1>5. Free(o, rm) = {}
  BY DEF Free, rm, NotRemoving
<1>6. Stacked(c, d, <<f>>, g, <<h>>, {})
  BY <1>1, <1>3, <1>4, <1>5 DEF Part
<1>7. i \in DOMAIN c /\ c[i] # Gap /\ c[i][1] = k /\ i \in Nat
  BY <1>2, <1>6, Sequence DEF Stacked, Whole
<1>8. c[i] \in Cells
  BY <1>2, <1>7, Sequence
<1>9. AssignMin(h, i) \in Nat
  BY <1>4, <1>7 DEF AssignMin
<1>10. /\ e \in Frames /\ e.kind = f.kind /\ e.end = f.end /\ e.subs = f.subs /\ e.dependent = f.dependent
       /\ e.backup = Over(f.backup, With(<<>>, i, c[i])) /\ e.temps.gap[o] = AssignMin(h, i)
       /\ \A p \in Objects : p # o => e.temps.gap[p] = f.temps.gap[p]
  <2>1. Over(f.backup, With(<<>>, i, c[i])) \in Backups
    BY <1>3, <1>7, <1>8, Fields, Backup
  <2> DEFINE B == Over(f.backup, With(<<>>, i, c[i]))
             m == AssignMin(h, i)
  <2>2. e = [f EXCEPT !.backup = B, !.temps = [f.temps EXCEPT !.gap = [f.temps.gap EXCEPT ![o] = m]], !.changed = TRUE]
    BY <1>3, Fields DEF Frames, Temps
  <2>3. B \in Backups /\ m \in Nat
    BY <1>9, <2>1
  <2> HIDE DEF B, m, e, f
  <2>4. [f.temps.gap EXCEPT ![o] = m] \in [Objects -> Nat]
    BY <1>1, <1>3, <2>3, Fields
  <2>5. [f.temps EXCEPT !.gap = [f.temps.gap EXCEPT ![o] = m]] \in Temps
    BY <1>3, <2>4, Fields DEF Temps
  <2>6. e \in Frames /\ e.kind = f.kind /\ e.end = f.end /\ e.subs = f.subs /\ e.dependent = f.dependent
        /\ e.backup = B /\ e.temps = [f.temps EXCEPT !.gap = [f.temps.gap EXCEPT ![o] = m]]
    BY <1>3, <2>2, <2>3, <2>5 DEF Frames
  <2>7. e.temps.gap = [f.temps.gap EXCEPT ![o] = m]
    BY <1>3, <2>6, Fields DEF Temps
  <2> QED BY <1>1, <1>3, <2>6, <2>7, Fields DEF B, m
<1>11. s1 = SetFrame(sm, o, e)
  BY <1>1, <1>3, StateParts DEF Drop, Cell
<1>12. C \in Contents /\ D \in Dicts /\ DOMAIN D = DOMAIN d \ {k} /\ \A j \in DOMAIN D : D[j] = d[j]
  <2>1. C \in Contents
    BY <1>2, <1>7, Sequence
  <2>2. D \in Dicts
    <3> HIDE DEF d
    <3> QED BY <1>2, Dictionary
  <2> QED BY <2>1, <2>2
<1>13. Stacked(C, D, <<e>>, g, <<e.temps.gap[o]>>, {})
  <2> HIDE DEF e, c, d, g, f, h
  <2>1. Stacked([c EXCEPT ![d[k]] = Gap], [j \in DOMAIN d \ {k} |-> d[j]], <<e>>, g, <<AssignMin(h, d[k])>>, {})
    <3>1. k \in DOMAIN d
      BY DEF d
    <3>2. f.kind # "rule"
      BY <1>3
    <3> QED BY <1>2, <1>3, <1>4, <1>6, <1>10, <3>1, <3>2, StackedDrop
  <2> QED BY <1>10, <2>1
<1>16. \A j \in DOMAIN e.backup : (j \in DOMAIN f.backup /\ e.backup[j] = f.backup[j]) \/ (j = i /\ e.backup[j] = c[i])
  <2> HIDE DEF e, f, i, c
  <2> QED BY <1>10 DEF With, Over
<1> HIDE DEF c, d, g, f, h, i, e, C, D, s1
<1>17. sm \in States /\ sm.dict = [s0.dict EXCEPT ![o] = D] /\ sm.contents = [s0.contents EXCEPT ![o] = C]
       /\ SameStacks(sm, s0)
  BY <1>1, <1>12, StateParts DEF States, SameStacks
<1> HIDE DEF sm
<1>18. s1 \in States /\ Same(s1, sm) /\ (\A p \in Objects : p # o => s1.stack[p] = sm.stack[p])
       /\ Len(s1.stack[o]) = Len(sm.stack[o]) /\ s1.stack[o] # <<>>
       /\ s1.stack[o][Len(sm.stack[o])] = e
  BY SMTT(30), <1>1, <1>3, <1>10, <1>11, <1>17, SetFrameIs DEF SameStacks
<1>19. /\ Len(s1.stack[o]) = 1 /\ s1.stack[o][1] = e
       /\ \A p \in Objects : p # o => s1.contents[p] = s0.contents[p] /\ s1.dict[p] = s0.dict[p] /\ s1.stack[p] = s0.stack[p]
       /\ s1.contents[o] = C /\ s1.dict[o] = D /\ s1.parent = s0.parent /\ s1.cleanup = s0.cleanup
  BY <1>1, <1>3, <1>17, <1>18, StateParts DEF SameStacks, Same
<1>20. DOMAIN s1.stack[o] = {1} /\ s1.stack[o] = <<e>> /\ GapsOf(s1.stack[o], o) = <<e.temps.gap[o]>>
  <2>1. s1.stack[o] \in Seq(Frames)
    BY <1>1, <1>18, StateParts
  <2> QED BY <1>1, <1>19, <2>1, GapsTyped, Framed
<1>21. Part(s1, o, rm)
  BY <1>5, <1>13, <1>19, <1>20 DEF Part, g
<1>22. \A p \in {Top, Sub} : p # o => Part(s1, p, rm)
  <2> SUFFICES ASSUME NEW p \in {Top, Sub}, p # o PROVE Part(s1, p, rm)
    OBVIOUS
  <2>1. Part(s0, p, rm) /\ p \in Objects
    BY <1>1
  <2> QED BY <1>19, <2>1 DEF Part
<1> DEFINE e1 == s1.stack[o][1]
<1>23. e1 = e
  BY <1>19
<1> HIDE DEF e1
<1>24. e1 \in Frames /\ e1.kind = "plain" /\ e1.end = f.end /\ e1.subs = f.subs /\ e1.dependent = f.dependent
       /\ (\A p \in Objects : p # o => e1.temps.gap[p] = f.temps.gap[p])
       /\ (\A j \in DOMAIN e1.backup : (j \in DOMAIN f.backup /\ e1.backup[j] = f.backup[j]) \/ (j = i /\ e1.backup[j] = c[i]))
  BY <1>3, <1>10, <1>16, <1>23
<1>25. DOMAIN s1.dict[o] = DOMAIN d \ {k} /\ \A j \in DOMAIN s1.dict[o] : s1.dict[o][j] = d[j]
  BY <1>12, <1>19
<1>26. Part(s1, Top, rm) /\ Part(s1, Sub, rm)
  BY <1>21, <1>22
<1>27. Dropped(s1, s0, o, k)
  BY <1>7, <1>18, <1>19, <1>20, <1>24, <1>25, <1>26 DEF Dropped, f, d, c, i, e1, rm
<1> QED BY <1>27 DEF s1

(* remove() in the only transaction of an object                                        *)
LEMMA Drops ==
  ASSUME NEW s0, Good(s0, NotRemoving), NEW o \in {Top, Sub}, s0.stack[o] # <<>>, s0.stack[o][1].kind = "plain",
         NEW k \in DOMAIN s0.dict[o],
         k \in Leaves \/ (o = Top /\ k = Extra /\ s0.dict[Top][Extra] > s0.stack[Top][1].end /\ Extra \notin s0.stack[Top][1].subs)
  PROVE  LET s1 == Drop(s0, o, k)
         IN  /\ Good(s1, NotRemoving) /\ s1.parent = s0.parent /\ s1.cleanup = s0.cleanup
             /\ \A p \in Objects : p # o => s1.contents[p] = s0.contents[p] /\ s1.dict[p] = s0.dict[p] /\ s1.stack[p] = s0.stack[p]
             /\ DOMAIN s1.dict[o] = DOMAIN s0.dict[o] \ {k}
             /\ Len(s1.stack[o]) = 1 /\ s1.stack[o] # <<>> /\ s1.stack[o][1].kind = "plain"
             /\ s1.stack[o][1].subs = s0.stack[o][1].subs /\ s1.stack[o][1].dependent = s0.stack[o][1].dependent
             /\ \A j \in DOMAIN s1.stack[o][1].backup : s1.stack[o][1].backup[j][1] = k \/ j \in DOMAIN s0.stack[o][1].backup
<1> DEFINE c  == s0.contents[o]
           d  == s0.dict[o]
           f  == s0.stack[o][1]
           i  == d[k]
           rm == NotRemoving
           s1 == Drop(s0, o, k)
           e  == s1.stack[o][1]
           D  == s1.dict[o]
<1>1. /\ s0 \in States /\ o \in Objects /\ Top \in Objects /\ Sub \in Objects /\ Extra \in Objects
      /\ Top # Sub /\ Top # Extra /\ Sub # Extra /\ Sub \notin Leaves
      /\ Part(s0, Top, rm) /\ Part(s0, Sub, rm) /\ Shape(s0.stack[Top], rm) /\ Ties(s0) /\ Outputs(s0) /\ Links(s0)
      /\ OwnGaps(s0)
  BY Different DEF Good, rm
<1>3. Len(s0.stack[o]) = 1 /\ DOMAIN s0.stack[o] = {1} /\ f \in Frames /\ s0.stack[o] = <<f>> /\ Current(s0, o) = f
      /\ f.kind = "plain"
  BY OneFrame
<1>4. /\ s1 \in States /\ Part(s1, Top, rm) /\ Part(s1, Sub, rm)
      /\ Len(s1.stack[o]) = 1 /\ DOMAIN s1.stack[o] = {1} /\ s1.stack[o] # <<>>
      /\ e \in Frames /\ e.kind = "plain" /\ e.end = f.end /\ e.subs = f.subs /\ e.dependent = f.dependent
      /\ (\A p \in Objects : p # o => e.temps.gap[p] = f.temps.gap[p])
      /\ (\A j \in DOMAIN e.backup : (j \in DOMAIN f.backup /\ e.backup[j] = f.backup[j]) \/ (j = i /\ e.backup[j] = c[i]))
      /\ i \in DOMAIN c /\ i \in Nat /\ c[i][1] = k
      /\ DOMAIN D = DOMAIN d \ {k} /\ (\A j \in DOMAIN D : D[j] = d[j])
      /\ (\A p \in Objects : p # o => s1.contents[p] = s0.contents[p] /\ s1.dict[p] = s0.dict[p] /\ s1.stack[p] = s0.stack[p])
      /\ s1.parent = s0.parent /\ s1.cleanup = s0.cleanup
  <2>1. Dropped(s1, s0, o, k)
    BY DropIs
  <2> HIDE DEF s1
  <2> QED BY <2>1 DEF Dropped, rm
<1> HIDE DEF c, d, f, i, e, D, s1
<1>10. e \in Frames /\ e.kind = f.kind /\ e.end = f.end /\ e.subs = f.subs /\ e.dependent = f.dependent
       /\ \A p \in Objects : p # o => e.temps.gap[p] = f.temps.gap[p]
  BY <1>3, <1>4
<1>12. DOMAIN D = DOMAIN d \ {k} /\ \A j \in DOMAIN D : D[j] = d[j]
  BY <1>4
<1>14. Sub \in DOMAIN D => Sub \in DOMAIN d /\ D[Sub] = d[Sub]
  BY <1>12
<1>15. i <= f.end => c[i][1] \in Leaves
  <2>1. i \in Nat /\ f.end \in Nat /\ c[i][1] = k
    BY <1>3, <1>4, Fields
  <2> QED BY <2>1 DEF i, f, d
<1>16. \A j \in DOMAIN e.backup : (j \in DOMAIN f.backup /\ e.backup[j] = f.backup[j]) \/ (j = i /\ e.backup[j] = c[i])
  BY <1>4
<1>18. s1 \in States /\ s1.stack[o] # <<>>
  BY <1>4
<1>19. /\ Len(s1.stack[o]) = 1 /\ s1.stack[o][1] = e
       /\ \A p \in Objects : p # o => s1.contents[p] = s0.contents[p] /\ s1.dict[p] = s0.dict[p] /\ s1.stack[p] = s0.stack[p]
       /\ s1.dict[o] = D /\ s1.parent = s0.parent /\ s1.cleanup = s0.cleanup
  BY <1>4 DEF e, D
<1>20. DOMAIN s1.stack[o] = {1}
  BY <1>4
<1>23. Shape(s1.stack[Top], rm)
  <2>1. CASE o = Top
    <3>1. Len(s1.stack[o]) = 1 /\ DOMAIN s1.stack[o] = {1} /\ s1.stack[o][1] = e /\ e.kind = "plain"
      BY <1>3, <1>10, <1>19, <1>20
    <3> DEFINE G == s1.stack[o]
    <3>2. Len(G) = 1 /\ DOMAIN G = {1} /\ G[1].kind \in {"plain", "rule"}
      BY <3>1
    <3> HIDE DEF G
    <3>3. Shape(G, rm)
      BY <3>2, ShapeOne DEF rm
    <3> QED BY <2>1, <3>3 DEF G
  <2>2. CASE o = Sub
    BY <1>1, <1>19, <2>2
  <2> QED BY <2>1, <2>2
<1>24. Ties(s1)
  <2>1. CASE o = Top
    <3>1. Extra \in f.subs => k # Extra
      BY <1>1, <2>1, Different DEF f
    <3>2. Extra \in f.subs => Extra \in DOMAIN D /\ D[Extra] = s0.dict[Top][Extra]
      BY <1>1, <1>3, <1>12, <2>1, <3>1 DEF Ties, f, d
    <3>4. Sub \in f.subs => Sub \in DOMAIN D
      <4>1. k # Sub
        BY <1>1
      <4>2. Sub \in f.subs => Sub \in DOMAIN d
        BY <1>1, <1>3, <2>1 DEF Ties, f, d
      <4> QED BY <1>12, <4>1, <4>2
    <3>3. s0.stack[Top] # <<>> /\ s0.stack[Top][1] = f /\ s1.stack[Top] # <<>> /\ s1.stack[Top][1] = e
          /\ DOMAIN s1.stack[Top] = {1} /\ s1.dict[Top] = D /\ s1.stack[Sub] = s0.stack[Sub] /\ s1.stack[Extra] = s0.stack[Extra]
      BY <1>1, <1>18, <1>19, <1>20, <2>1 DEF f
    <3> QED BY <1>1, <1>10, <3>2, <3>3, <3>4 DEF Ties
  <2>2. CASE o = Sub
    <3>1. s0.stack[Sub] # <<>> /\ s0.stack[Sub][1] = f /\ s1.stack[Sub] # <<>> /\ s1.stack[Sub][1] = e
          /\ Len(s1.stack[Sub]) = 1 /\ s1.dict[Top] = s0.dict[Top] /\ s1.stack[Top] = s0.stack[Top] /\ s1.stack[Extra] = s0.stack[Extra]
      BY <1>1, <1>18, <1>19, <2>2 DEF f
    <3> QED BY <1>1, <1>10, <3>1 DEF Ties
  <2> QED BY <2>1, <2>2
<1>25. Outputs(s1)
  <2> SUFFICES ASSUME NEW p \in {Top, Sub}, NEW n \in DOMAIN s1.stack[p], s1.stack[p][n].kind = "rule"
               PROVE  s1.stack[p][n].outputs \subseteq DOMAIN s1.dict[p]
    BY DEF Outputs
  <2>1. p # o
    BY <1>4, <1>19, <1>20
  <2> QED BY <1>1, <1>19, <2>1 DEF Outputs
<1>26. Links(s1)
  <2>1. Sub \in s1.parent /\ (Extra \in DOMAIN s1.dict[Top] => Extra \in s1.parent)
        /\ DOMAIN s1.dict[Sub] \subseteq Leaves /\ Whole(s1.contents[Extra], s1.dict[Extra])
    BY <1>1, <1>12, <1>19 DEF Links, d
  <2>2. ASSUME NEW n \in DOMAIN s1.stack[Top], Sub \in DOMAIN s1.dict[Top]
        PROVE  s1.dict[Top][Sub] <= s1.stack[Top][n].end
    <3>1. CASE o = Top
      <4>1. n = 1 /\ s1.stack[Top][n] = e /\ s1.dict[Top][Sub] = s0.dict[Top][Sub] /\ Sub \in DOMAIN s0.dict[Top]
        BY <1>14, <1>19, <1>20, <2>2, <3>1 DEF d
      <4>2. s0.dict[Top][Sub] <= f.end
        BY <1>1, <1>3, <3>1, <4>1 DEF Links, f
      <4> QED BY <1>10, <4>1, <4>2
    <3>2. CASE o = Sub
      BY <1>1, <1>19, <2>2, <3>2 DEF Links
    <3> QED BY <3>1, <3>2
  <2>3. ASSUME NEW p \in {Top, Sub}, NEW n \in DOMAIN s1.stack[p], NEW j \in DOMAIN s1.stack[p][n].backup,
               j <= s1.stack[p][n].end
        PROVE  s1.stack[p][n].backup[j][1] \in Leaves
    <3>1. CASE p = o
      <4>1. s1.stack[p][n] = e
        BY <1>19, <1>20, <3>1
      <4>2. \A m \in DOMAIN f.backup : m <= f.end => f.backup[m][1] \in Leaves
        BY <1>1, <1>3 DEF Links, f
      <4> QED BY <1>10, <1>15, <1>16, <2>3, <4>1, <4>2
    <3>2. CASE p # o
      <4>1. s1.stack[p] = s0.stack[p]
        BY <1>1, <1>19, <3>2
      <4> QED BY <1>1, <2>3, <4>1 DEF Links
    <3> QED BY <3>1, <3>2
  <2> QED BY <2>1, <2>2, <2>3 DEF Links
<1>27. OwnGaps(s1)
  <2>1. ASSUME NEW q \in Objects, NEW p \in {Top, Sub}, p # q, NEW n \in DOMAIN s1.stack[q]
        PROVE  s1.stack[q][n].temps.gap[p] = 0
    <3>1. CASE q = o
      <4>1. s1.stack[q][n] = e /\ p \in Objects
        BY <1>1, <1>19, <1>20, <2>1, <3>1
      <4>2. f.temps.gap[p] = 0
        BY <1>1, <1>3, <2>1, <3>1 DEF OwnGaps, f
      <4> QED BY <1>10, <2>1, <3>1, <4>1, <4>2
    <3>2. CASE q # o
      BY <1>1, <1>19, <2>1, <3>2 DEF OwnGaps
    <3> QED BY <3>1, <3>2
  <2>2. s1.stack[Extra] = s0.stack[Extra]
    BY <1>1, <1>19
  <2> QED BY <1>1, <2>1, <2>2 DEF OwnGaps
<1>28. Good(s1, rm)
  BY <1>4, <1>18, <1>23, <1>24, <1>25, <1>26, <1>27 DEF Good
<1>29. \A j \in DOMAIN e.backup : e.backup[j][1] = k \/ j \in DOMAIN f.backup
  BY <1>4, <1>16
<1> QED BY <1>10, <1>12, <1>18, <1>19, <1>28, <1>29, <1>3 DEF s1, f, d, rm

-----------------------------------------------------------------------------
\* What remains of goodness without the transactions of the object and of Sub.
Calm(s0) ==
  /\ s0 \in States
  /\ \A o \in Objects : Whole(s0.contents[o], s0.dict[o])
  /\ \A o \in {Top, Sub} : GapAt(s0.contents[o], s0.cleanup.gap[o])
  /\ Sub \in s0.parent /\ (Extra \in DOMAIN s0.dict[Top] => Extra \in s0.parent)
  /\ DOMAIN s0.dict[Sub] \subseteq Leaves
  /\ \A n \in DOMAIN s0.stack[Extra] :
       /\ s0.stack[Extra][n].end = 0
       /\ s0.stack[Extra][n].temps.gap[Top] = 0 /\ s0.stack[Extra][n].temps.gap[Sub] = 0

(* Good states are calm ...                                                             *)
LEMMA GoodIsCalm ==
  ASSUME NEW s0, NEW rm, Good(s0, rm)
  PROVE  Calm(s0)
<1>1. /\ s0 \in States /\ Part(s0, Top, rm) /\ Part(s0, Sub, rm) /\ Links(s0) /\ OwnGaps(s0)
  BY DEF Good
<1>2. \A o \in {Top, Sub} : Whole(s0.contents[o], s0.dict[o]) /\ GapAt(s0.contents[o], s0.cleanup.gap[o])
  BY <1>1 DEF Part, Stacked
<1>3. \A o \in Objects : Whole(s0.contents[o], s0.dict[o])
  BY <1>1, <1>2 DEF Links, Objects
<1>4. Sub \in s0.parent /\ (Extra \in DOMAIN s0.dict[Top] => Extra \in s0.parent) /\ DOMAIN s0.dict[Sub] \subseteq Leaves
  BY <1>1 DEF Links
<1>5. \A n \in DOMAIN s0.stack[Extra] :
       /\ s0.stack[Extra][n].end = 0
       /\ s0.stack[Extra][n].temps.gap[Top] = 0 /\ s0.stack[Extra][n].temps.gap[Sub] = 0
  BY <1>1, Different DEF OwnGaps
<1> QED BY <1>1, <1>2, <1>3, <1>4, <1>5 DEF Calm

(* ... and calm ones without transactions are good.                                     *)
LEMMA CalmIsGood ==
  ASSUME NEW s0, Calm(s0), s0.stack[Top] = <<>>, s0.stack[Sub] = <<>>
  PROVE  Good(s0, NotRemoving)
<1>1. DOMAIN s0.stack[Top] = {} /\ DOMAIN s0.stack[Sub] = {} /\ Len(s0.stack[Top]) = 0 /\ Len(s0.stack[Sub]) = 0
  OBVIOUS
<1>2. \A o \in {Top, Sub} : Part(s0, o, NotRemoving)
  <2> SUFFICES ASSUME NEW o \in {Top, Sub} PROVE Part(s0, o, NotRemoving)
    OBVIOUS
  <2>1. Whole(s0.contents[o], s0.dict[o]) /\ GapAt(s0.contents[o], s0.cleanup.gap[o])
    BY Different DEF Calm
  <2>2. s0.stack[o] = <<>> /\ DOMAIN s0.stack[o] = {}
    BY <1>1
  <2> QED BY <2>1, <2>2 DEF Part, Stacked
<1>3. Shape(s0.stack[Top], NotRemoving)
  BY ShapeOne
<1>4. Ties(s0)
  BY <1>1 DEF Ties
<1>5. Outputs(s0)
  BY <1>1 DEF Outputs
<1>6. Links(s0)
  <2>1. /\ Sub \in s0.parent /\ (Extra \in DOMAIN s0.dict[Top] => Extra \in s0.parent)
        /\ DOMAIN s0.dict[Sub] \subseteq Leaves /\ Whole(s0.contents[Extra], s0.dict[Extra])
    BY Different DEF Calm
  <2> QED BY <1>1, <2>1 DEF Links
<1>7. OwnGaps(s0)
  <2>1. ASSUME NEW o \in Objects, NEW p \in {Top, Sub}, p # o, NEW n \in DOMAIN s0.stack[o]
        PROVE  s0.stack[o][n].temps.gap[p] = 0
    <3>1. o = Extra
      BY <1>1, <2>1 DEF Objects
    <3> QED BY <2>1, <3>1 DEF Calm
  <2>2. \A n \in DOMAIN s0.stack[Extra] : s0.stack[Extra][n].end = 0
    BY DEF Calm
  <2> QED BY <2>1, <2>2 DEF OwnGaps
<1>8. s0 \in States
  BY DEF Calm
<1> QED BY <1>2, <1>3, <1>4, <1>5, <1>6, <1>7, <1>8 DEF Good

(* What calms down stays calm.                                                          *)
LEMMA CalmKept ==
  ASSUME NEW s0, Calm(s0), NEW s1 \in States,
         s1.contents = s0.contents, s1.dict = s0.dict, s1.parent = s0.parent,
         \A o \in {Top, Sub} : GapAt(s0.contents[o], s1.cleanup.gap[o]),
         \A n \in DOMAIN s1.stack[Extra] : n \in DOMAIN s0.stack[Extra] /\ s1.stack[Extra][n] = s0.stack[Extra][n]
  PROVE  Calm(s1)
BY DEF Calm

(* What Restored makes of a state.                                                      *)
LEMMA RestoredIs ==
  ASSUME NEW s0 \in States, NEW o \in Objects, NEW f \in Frames, Fits(s0.contents[o], f),
         Whole(s0.contents[o], s0.dict[o]),
         f.kind # "rule" => \A i \in DOMAIN f.backup : f.backup[i][1] \notin DOMAIN s0.dict[o]
  PROVE  LET s1 == Restored(s0, o, f)
         IN  /\ s1 \in States /\ s1.cleanup = s0.cleanup /\ s1.changed = s0.changed /\ s1.parent = s0.parent
             /\ s1.contents[o] = Undone(s0.contents[o], f) /\ s1.dict[o] = Relisted(s0.contents[o], s0.dict[o], f)
             /\ \A p \in Objects : p # o => s1.contents[p] = s0.contents[p] /\ s1.dict[p] = s0.dict[p]
             /\ \A p \in Objects : s1.stack[p] = IF f.end # 0 /\ p \in Gone(s0.contents[o], f) THEN <<>> ELSE s0.stack[p]
<1> DEFINE c == s0.contents[o]
           d == s0.dict[o]
           X == Undone(c, f)
           Y == Relisted(c, d, f)
           Z == [p \in Objects |-> IF f.end # 0 /\ p \in Gone(c, f) THEN <<>> ELSE s0.stack[p]]
           s1 == Restored(s0, o, f)
           gone == {cell[1] : cell \in Added(s0, o, f)}
<1>1. c \in Contents /\ d \in Dicts /\ s0.stack \in [Objects -> Seq(Frames)]
      /\ s0.contents \in [Objects -> Contents] /\ s0.dict \in [Objects -> Dicts]
  BY StateParts
<1>2. X \in Contents
  <2> HIDE DEF c
  <2> QED BY <1>1, UndoneCells DEF c
<1>3. Y \in Dicts
  <2> HIDE DEF c, d
  <2> QED BY <1>1, RelistedKeys DEF c, d
<1>4. Z \in [Objects -> Seq(Frames)]
  <2>1. <<>> \in Seq(Frames)
    OBVIOUS
  <2> QED BY <1>1, <2>1
<1>5. gone = Gone(c, f)
  BY DEF Added, Gone
<1>6. f.end = 0 => X = <<>> /\ Y = <<>> /\ Z = s0.stack
  <2>1. f.end = 0 => Z = s0.stack
    BY <1>1
  <2> HIDE DEF c, d, Z
  <2> QED BY <1>1, <2>1, NothingLeft DEF c, d
<1>7. s1 = IF f.end = 0 THEN [s0 EXCEPT !.contents[o] = <<>>, !.dict[o] = <<>>]
           ELSE [s0 EXCEPT !.contents[o] = X, !.dict[o] = Y, !.stack = [p \in Objects |-> IF p \in gone THEN <<>> ELSE @[p]]]
  <2>1. Refilled(s0, o, f) = RefilledIn(c, f)
    BY DEF Refilled, RefilledIn
  <2>2. [k \in {f.backup[i][1] : i \in Refilled(s0, o, f)} |->
           CHOOSE i \in {j \in DOMAIN f.backup : j <= f.end} : f.backup[i][1] = k] = Back(c, f)
    BY <2>1 DEF Back, Saved
  <2> HIDE DEF gone
  <2> QED BY <1>5, <2>2 DEF Restored, Undone, Relisted, Saved, gone
<1>8. f.end # 0 => [p \in Objects |-> IF p \in gone THEN <<>> ELSE s0.stack[p]] = Z
  BY <1>5
<1> HIDE DEF X, Y, Z, gone, s1, c, d
<1>9. s1 = [s0 EXCEPT !.contents = [s0.contents EXCEPT ![o] = X], !.dict = [s0.dict EXCEPT ![o] = Y], !.stack = Z]
  <2>1. CASE f.end = 0
    <3>1. s1 = [s0 EXCEPT !.contents[o] = X, !.dict[o] = Y] /\ Z = s0.stack
      BY <1>6, <1>7, <2>1
    <3> QED BY <3>1 DEF States
  <2>2. CASE f.end # 0
    <3>1. s1 = [s0 EXCEPT !.contents[o] = X, !.dict[o] = Y, !.stack = [p \in Objects |-> IF p \in gone THEN <<>> ELSE @[p]]]
      BY <1>7, <2>2
    <3> QED BY <1>8, <2>2, <3>1 DEF States
  <2> QED BY <2>1, <2>2
<1> DEFINE A == [s0.contents EXCEPT ![o] = X]
           B == [s0.dict EXCEPT ![o] = Y]
<1>10. A \in [Objects -> Contents] /\ B \in [Objects -> Dicts]
       /\ A[o] = X /\ B[o] = Y /\ \A p \in Objects : p # o => A[p] = s0.contents[p] /\ B[p] = s0.dict[p]
  BY <1>1, <1>2, <1>3
<1>11. s1 = [s0 EXCEPT !.contents = A, !.dict = B, !.stack = Z]
  BY <1>9
<1> HIDE DEF A, B
<1>12. /\ s1 \in States /\ s1.cleanup = s0.cleanup /\ s1.changed = s0.changed /\ s1.parent = s0.parent
       /\ s1.contents = A /\ s1.dict = B /\ s1.stack = Z
  BY <1>4, <1>10, <1>11 DEF States
<1>13. \A p \in Objects : Z[p] = IF f.end # 0 /\ p \in Gone(c, f) THEN <<>> ELSE s0.stack[p]
  BY DEF Z
<1> QED BY <1>10, <1>12, <1>13 DEF X, Y, c, d, s1

\* A frame that can be rolled back.
Undoable(s0, o, f) ==
  /\ f \in Frames /\ Fits(s0.contents[o], f) /\ Before(f, s0.cleanup.gap[o])
  /\ f.kind # "rule" => \A i \in DOMAIN f.backup : f.backup[i][1] \notin DOMAIN s0.dict[o]
  /\ \A i \in DOMAIN f.backup : i <= f.end => f.backup[i][1] \in Leaves

(* Rolling it back, the state stays calm.                                               *)
LEMMA UndoneCalm ==
  ASSUME NEW s0, Calm(s0), NEW o \in {Top, Sub}, NEW f, Undoable(s0, o, f)
  PROVE  LET s1 == Restored(s0, o, f)
         IN  /\ Calm(s1)
             /\ \A p \in Objects : s1.stack[p] = IF f.end # 0 /\ p \in Gone(s0.contents[o], f) THEN <<>> ELSE s0.stack[p]
             /\ \A p \in Objects : p # o => s1.contents[p] = s0.contents[p] /\ s1.dict[p] = s0.dict[p]
             /\ s1.cleanup = s0.cleanup /\ s1.parent = s0.parent
<1> DEFINE c == s0.contents[o]
           d == s0.dict[o]
           g == s0.cleanup.gap[o]
           s1 == Restored(s0, o, f)
<1>1. s0 \in States /\ o \in Objects /\ f \in Frames /\ c \in Contents /\ d \in Dicts /\ g \in Nat
  BY StateParts, Different DEF Calm, Undoable
<1>2. Whole(c, d) /\ GapAt(c, g) /\ Fits(c, f) /\ Before(f, g)
      /\ (f.kind # "rule" => \A i \in DOMAIN f.backup : f.backup[i][1] \notin DOMAIN d)
  BY <1>1 DEF Calm, Undoable
<1>3. /\ s1 \in States /\ s1.cleanup = s0.cleanup /\ s1.changed = s0.changed /\ s1.parent = s0.parent
      /\ s1.contents[o] = Undone(c, f) /\ s1.dict[o] = Relisted(c, d, f)
      /\ \A p \in Objects : p # o => s1.contents[p] = s0.contents[p] /\ s1.dict[p] = s0.dict[p]
      /\ \A p \in Objects : s1.stack[p] = IF f.end # 0 /\ p \in Gone(c, f) THEN <<>> ELSE s0.stack[p]
  BY <1>1, <1>2, RestoredIs
<1>4. /\ DOMAIN Undone(c, f) = 1..f.end
      /\ \A i \in 1..f.end : i \in DOMAIN c /\ Undone(c, f)[i] = IF i \in DOMAIN f.backup THEN f.backup[i] ELSE c[i]
  <2> HIDE DEF c, d
  <2> QED BY <1>1, <1>2, UndoneCells
<1>5. Whole(Undone(c, f), Relisted(c, d, f))
  <2> HIDE DEF c, d
  <2> QED BY <1>1, <1>2, UndoneWhole
<1>6. \A k : k \in DOMAIN Relisted(c, d, f) => k \in DOMAIN d \/ k \in Leaves
  <2>1. \A k : k \in DOMAIN Relisted(c, d, f) => \/ k \in DOMAIN d /\ d[k] <= f.end
                                \/ \E i \in DOMAIN f.backup : i <= f.end /\ f.backup[i][1] = k
    <3> HIDE DEF c, d
    <3> QED BY <1>1, <1>2, RelistedKeys
  <2> QED BY <2>1 DEF Undoable
<1>7. GapAt(Undone(c, f), g)
  <2>1. f.end \in Nat
    BY <1>1, Fields
  <2>2. g # 0 => g \in 1..f.end
    BY <1>1, <1>2, <2>1 DEF Before
  <2> QED BY <1>2, <1>4, <2>2 DEF GapAt, Before
<1> HIDE DEF s1
<1>8. \A p \in Objects : Whole(s1.contents[p], s1.dict[p])
  BY <1>3, <1>5 DEF Calm
<1>9. \A p \in {Top, Sub} : GapAt(s1.contents[p], s1.cleanup.gap[p])
  BY <1>3, <1>7, Different DEF Calm
<1>10. /\ Sub \in s1.parent /\ (Extra \in DOMAIN s1.dict[Top] => Extra \in s1.parent)
       /\ DOMAIN s1.dict[Sub] \subseteq Leaves
  <2>1. CASE o = Top
    BY <1>3, <1>6, <2>1, Different DEF Calm
  <2>2. CASE o = Sub
    BY <1>3, <1>6, <2>2, Different DEF Calm
  <2> QED BY <2>1, <2>2
<1>11. s1.stack[Extra] = <<>> \/ s1.stack[Extra] = s0.stack[Extra]
  BY <1>3, Different
<1>12. \A n \in DOMAIN s1.stack[Extra] :
       /\ s1.stack[Extra][n].end = 0
       /\ s1.stack[Extra][n].temps.gap[Top] = 0 /\ s1.stack[Extra][n].temps.gap[Sub] = 0
  <2>1. DOMAIN <<>> = {}
    OBVIOUS
  <2> QED BY <1>11, <2>1 DEF Calm
<1>13. Calm(s1)
  BY <1>3, <1>8, <1>9, <1>10, <1>12 DEF Calm
<1> QED BY <1>3, <1>13 DEF s1

(* Taking frames off leaves a state calm.                                               *)
LEMMA PopCalm ==
  ASSUME NEW s0, Calm(s0), NEW o \in Objects, s0.stack[o] # <<>>
  PROVE  LET s1 == Pop(s0, o)
         IN  /\ Calm(s1) /\ Same(s1, s0) /\ \A p \in Objects : p # o => s1.stack[p] = s0.stack[p]
             /\ (Len(s0.stack[o]) = 1 => s1.stack[o] = <<>>)
<1> DEFINE s1 == Pop(s0, o)
<1>1. s0 \in States
  BY DEF Calm
<1>2. /\ s1 \in States /\ Same(s1, s0) /\ \A p \in Objects : p # o => s1.stack[p] = s0.stack[p]
      /\ DOMAIN s1.stack[o] = 1..(Len(s0.stack[o]) - 1)
      /\ \A n \in DOMAIN s1.stack[o] : s1.stack[o][n] = s0.stack[o][n]
      /\ (Len(s0.stack[o]) = 1 => s1.stack[o] = <<>>)
  BY <1>1, PopIs
<1> HIDE DEF s1
<1>3. s0.stack[o] \in Seq(Frames)
  BY <1>1, StateParts
<1>4. \A n \in DOMAIN s1.stack[o] : n \in DOMAIN s0.stack[o]
  BY <1>2, <1>3, Framed
<1>5. \A n \in DOMAIN s1.stack[Extra] : n \in DOMAIN s0.stack[Extra] /\ s1.stack[Extra][n] = s0.stack[Extra][n]
  <2>1. CASE o = Extra
    BY <1>2, <1>4, <2>1
  <2>2. CASE o # Extra
    BY <1>2, <2>2, Different
  <2> QED BY <2>1, <2>2
<1>6. s1.contents = s0.contents /\ s1.dict = s0.dict /\ s1.parent = s0.parent /\ s1.cleanup = s0.cleanup
  BY <1>2 DEF Same
<1>7. \A p \in {Top, Sub} : GapAt(s0.contents[p], s1.cleanup.gap[p])
  BY <1>6 DEF Calm
<1>8. Calm(s1)
  BY <1>2, <1>5, <1>6, <1>7, CalmKept
<1> QED BY <1>2, <1>8 DEF s1

(* Only what an object consists of and its frame make it undoable.                      *)
LEMMA UndoableKept ==
  ASSUME NEW s0, NEW s1, NEW o, NEW f, Undoable(s0, o, f), s1.contents[o] = s0.contents[o],
         s1.dict[o] = s0.dict[o], s1.cleanup = s0.cleanup
  PROVE  Undoable(s1, o, f)
BY DEF Undoable

\* The only transaction of o can be rolled back.
Single(s0, o) == Len(s0.stack[o]) = 1 /\ s0.stack[o] # <<>> /\ Undoable(s0, o, s0.stack[o][1])

(* A transaction of the subobject is rolled back.                                       *)
LEMMA RollsBackSub ==
  ASSUME NEW s0, Calm(s0), Single(s0, Sub)
  PROVE  LET s1 == RollbackSub(s0, Sub)
         IN  Calm(s1) /\ s1.stack[Sub] = <<>> /\ (s0.stack[Top] = <<>> => s1.stack[Top] = <<>>)
<1> DEFINE f  == s0.stack[Sub][1]
           sp == Pop(s0, Sub)
           s1 == Restored(sp, Sub, f)
<1>1. RollbackSub(s0, Sub) = s1
  BY DEF RollbackSub, InTransaction, Single, Current, Last
<1>2. /\ Calm(sp) /\ Same(sp, s0) /\ \A p \in Objects : p # Sub => sp.stack[p] = s0.stack[p]
      /\ sp.stack[Sub] = <<>>
  BY Different, PopCalm DEF Single
<1>3. Undoable(sp, Sub, f)
  BY <1>2, UndoableKept DEF Same, Single
<1> HIDE DEF sp, f
<1>4. /\ Calm(s1)
      /\ \A p \in Objects : s1.stack[p] = <<>> \/ s1.stack[p] = sp.stack[p]
  BY <1>2, <1>3, UndoneCalm
<1> HIDE DEF s1
<1> QED BY <1>1, <1>2, <1>4, Different

(* The only transaction of the object is rolled back, with that of its subobject.       *)
LEMMA RollsBackTop ==
  ASSUME NEW s0, Calm(s0), Single(s0, Top),
         Sub \notin s0.stack[Top][1].subs => s0.stack[Sub] = <<>>,
         Sub \in s0.stack[Top][1].subs =>
           Single(s0, Sub) /\ Sub \in DOMAIN s0.dict[Top] /\ s0.dict[Top][Sub] <= s0.stack[Top][1].end
  PROVE  LET s1 == Rollback(s0, Top)
         IN  Calm(s1) /\ s1.stack[Top] = <<>> /\ s1.stack[Sub] = <<>>
<1> DEFINE f  == s0.stack[Top][1]
           c  == s0.contents[Top]
           d  == s0.dict[Top]
           sp == Pop(s0, Top)
           sm == Restored(sp, Top, f)
           s1 == Rollback(s0, Top)
<1>0. Top \in Objects /\ Sub \in Objects /\ Top # Sub /\ s0 \in States
  BY Different DEF Calm
<1>1. s1 = IF Sub \in RemainingSubs(sp, f) THEN RollbackSub(sm, Sub) ELSE sm
  BY DEF Rollback, RollbackTop, Single, Current, Last
<1>2. /\ Calm(sp) /\ Same(sp, s0) /\ \A p \in Objects : p # Top => sp.stack[p] = s0.stack[p]
      /\ sp.stack[Top] = <<>>
  BY <1>0, PopCalm DEF Single
<1>3. Undoable(sp, Top, f) /\ sp.contents = s0.contents
  BY <1>2, UndoableKept DEF Same, Single
<1> HIDE DEF sp
<1>4. /\ Calm(sm)
      /\ \A p \in Objects : sm.stack[p] = IF f.end # 0 /\ p \in Gone(c, f) THEN <<>> ELSE sp.stack[p]
      /\ \A p \in Objects : p # Top => sm.contents[p] = sp.contents[p] /\ sm.dict[p] = sp.dict[p]
      /\ sm.cleanup = sp.cleanup
  <2>1. Top \in {Top, Sub}
    OBVIOUS
  <2>2. c = sp.contents[Top]
    BY <1>3
  <2> HIDE DEF c, f
  <2> QED BY <1>2, <1>3, <2>1, <2>2, UndoneCalm
<1>5. sm.stack[Top] = <<>>
  BY <1>0, <1>2, <1>4
<1> HIDE DEF sm, s1
<1>6. CASE Sub \notin f.subs
  <2>1. Sub \notin RemainingSubs(sp, f)
    BY <1>6 DEF RemainingSubs
  <2>2. s1 = sm /\ sm.stack[Sub] = <<>>
    BY <1>0, <1>1, <1>2, <1>4, <1>6, <2>1
  <2> QED BY <1>4, <1>5, <2>2 DEF s1
<1>7. CASE Sub \in f.subs
  <2>1. Single(s0, Sub) /\ Sub \in DOMAIN d /\ d[Sub] <= f.end
    BY <1>7
  <2>2. c \in Contents /\ Whole(c, d) /\ f \in Frames
    BY <1>0, StateParts DEF Calm, Single, Undoable
  <2>3. f.end # 0
    <3>1. d[Sub] \in DOMAIN c
      BY <2>1, <2>2 DEF Whole
    <3>2. d[Sub] \in Nat /\ d[Sub] >= 1 /\ f.end \in Nat
      <4> HIDE DEF c, d, f
      <4> QED BY <2>2, <3>1, Sequence, Fields
    <3> QED BY <2>1, <3>2
  <2>4. Sub \notin Gone(c, f)
    <3> SUFFICES ASSUME Sub \in Gone(c, f) PROVE FALSE
      OBVIOUS
    <3>1. PICK j \in DOMAIN c : j > f.end /\ c[j] # Gap /\ Sub = c[j][1]
      BY DEF Gone
    <3>2. d[Sub] = j /\ j \in Nat /\ f.end \in Nat
      <4> HIDE DEF c, d, f
      <4> QED BY <2>2, <3>1, Sequence, Fields DEF Whole
    <3> QED BY <2>1, <3>1, <3>2
  <2>5. RemainingSubs(sp, f) = f.subs \ Gone(c, f)
    <3>1. {cell[1] : cell \in Added(sp, Top, f)} = Gone(c, f)
      BY <1>3 DEF Added, Gone
    <3> HIDE DEF c, f
    <3> QED BY <2>3, <3>1 DEF RemainingSubs
  <2>6. s1 = RollbackSub(sm, Sub)
    BY <1>1, <1>7, <2>4, <2>5
  <2>7. sm.stack[Sub] = s0.stack[Sub] /\ sm.contents[Sub] = s0.contents[Sub] /\ sm.dict[Sub] = s0.dict[Sub] /\ sm.cleanup = s0.cleanup
    BY <1>0, <1>2, <1>4, <2>4 DEF Same
  <2>8. Single(sm, Sub)
    BY <2>1, <2>7, UndoableKept DEF Single
  <2> QED BY <1>4, <1>5, <2>6, <2>8, RollsBackSub DEF s1
<1> QED BY <1>6, <1>7

\* Nothing removed has come back.
Away(s0, o) ==
  s0.stack[o][1].kind # "rule" =>
    \A i \in DOMAIN s0.stack[o][1].backup : s0.stack[o][1].backup[i][1] \notin DOMAIN s0.dict[o]

(* Outermost transactions of good states can be rolled back.                            *)
LEMMA SingleInGood ==
  ASSUME NEW s0, NEW rm, Good(s0, rm), NEW o \in {Top, Sub}, Len(s0.stack[o]) = 1, Away(s0, o)
  PROVE  Single(s0, o)
<1> DEFINE F == s0.stack[o]
<1>1. s0 \in States /\ o \in Objects /\ Part(s0, o, rm) /\ Links(s0)
  BY Different DEF Good
<1>2. F \in Seq(Frames) /\ F # <<>> /\ 1 \in DOMAIN F /\ F[1] \in Frames
  <2>1. F \in Seq(Frames) /\ Len(F) = 1
    BY <1>1, StateParts
  <2> HIDE DEF F
  <2>2. F # <<>>
    BY <2>1
  <2> QED BY <2>1, <2>2, Framed
<1>3. FirstFits(s0.contents[o], s0.dict[o], F[1], s0.cleanup.gap[o], GapsOf(F, o)[1], Free(o, rm))
  BY <1>1, <1>2 DEF Part, Stacked
<1>4. Fits(s0.contents[o], F[1]) /\ Before(F[1], s0.cleanup.gap[o])
  BY <1>3 DEF FirstFits
<1>5. \A i \in DOMAIN F[1].backup : i <= F[1].end => F[1].backup[i][1] \in Leaves
  BY <1>1, <1>2 DEF Links
<1>6. Undoable(s0, o, F[1])
  BY <1>2, <1>4, <1>5 DEF Undoable, Away
<1> QED BY <1>2, <1>6 DEF Single

(* While nothing is being reconstructed, nothing removed comes back.                    *)
LEMMA AwayUnlessRemoving ==
  ASSUME NEW s0, Good(s0, NotRemoving), NEW o \in {Top, Sub}, s0.stack[o] # <<>>
  PROVE  Away(s0, o)
<1>1. Part(s0, o, NotRemoving)
  BY DEF Good
<1>2. Free(o, NotRemoving) = {}
  BY DEF Free, NotRemoving
<1> QED BY <1>1, <1>2 DEF Part, Stacked, FirstFits, Reserved, Away

(* Rolling back the outermost transaction.                                              *)
LEMMA RollbackOuter ==
  ASSUME NEW s0, NEW rm, Good(s0, rm), Len(s0.stack[Top]) = 1, Away(s0, Top), s0.stack[Sub] # <<>> => Away(s0, Sub)
  PROVE  LET s1 == Rollback(s0, Top)
         IN  Good(s1, NotRemoving) /\ s1.stack[Top] = <<>> /\ s1.stack[Sub] = <<>>
<1> DEFINE F == s0.stack[Top]
           G == s0.stack[Sub]
<1>1. Calm(s0) /\ Single(s0, Top)
  BY GoodIsCalm, SingleInGood
<1>2. F # <<>> /\ 1 \in DOMAIN F /\ Ties(s0) /\ Links(s0) /\ s0 \in States /\ Sub \in Objects
  <2>1. F \in Seq(Frames) /\ Len(F) = 1
    BY StateParts, Different DEF Good
  <2> HIDE DEF F
  <2>2. F # <<>>
    BY ONLY <2>1, Framed
  <2>3. 1 \in DOMAIN F
    BY <2>1, <2>2, Framed
  <2> QED BY <2>2, <2>3, Different DEF Good
<1>3. Sub \notin F[1].subs => G = <<>>
  BY <1>2 DEF Ties
<1>4. Sub \in F[1].subs => G # <<>> /\ Sub \in DOMAIN s0.dict[Top] /\ s0.dict[Top][Sub] <= F[1].end
  BY <1>2 DEF Ties, Links
<1>5. G # <<>> => Single(s0, Sub)
  <2>1. G \in Seq(Frames) /\ Len(G) <= 1
    BY <1>2, StateParts DEF Ties
  <2>2. G # <<>> => Len(G) = 1
    <3> HIDE DEF G
    <3> QED BY <2>1, OneOnly
  <2> QED BY <2>2, SingleInGood
<1> DEFINE s1 == Rollback(s0, Top)
<1>6. Calm(s1) /\ s1.stack[Top] = <<>> /\ s1.stack[Sub] = <<>>
  BY <1>1, <1>3, <1>4, <1>5, RollsBackTop
<1> HIDE DEF s1
<1>7. Good(s1, NotRemoving)
  BY <1>6, CalmIsGood
<1> QED BY <1>6, <1>7 DEF s1

(* Rolling back a transaction of the subobject alone.                                   *)
LEMMA RollbackDirect ==
  ASSUME NEW s0, Good(s0, NotRemoving), s0.stack[Top] = <<>>, s0.stack[Sub] # <<>>
  PROVE  Good(Rollback(s0, Sub), NotRemoving)
<1> DEFINE s1 == Rollback(s0, Sub)
<1>1. s1 = RollbackSub(s0, Sub)
  BY Different DEF Rollback
<1>2. Calm(s0) /\ Len(s0.stack[Sub]) = 1 /\ Away(s0, Sub)
  BY GoodIsCalm, OneFrame, AwayUnlessRemoving
<1>3. Single(s0, Sub)
  BY <1>2, SingleInGood
<1>4. Calm(s1) /\ s1.stack[Top] = <<>> /\ s1.stack[Sub] = <<>>
  BY <1>1, <1>2, <1>3, RollsBackSub
<1> HIDE DEF s1
<1> QED BY <1>4, CalmIsGood DEF s1

-----------------------------------------------------------------------------
\* What a rule's commit needs.
Rewritten(c, f) ==
  f.kind = "rule" => \A i \in DOMAIN f.backup : i \in DOMAIN c /\ c[i] # Gap /\ c[i][1] = f.backup[i][1]

(* The old values come back when an outermost rule is committed.                        *)
LEMMA BackupRestored ==
  ASSUME NEW s0, Calm(s0), NEW o \in Objects, s0.stack[o] = <<>>, NEW f \in Frames, Rewritten(s0.contents[o], f)
  PROVE  LET s1 == RestoreBackup(s0, o, f)
         IN  /\ Calm(s1) /\ s1.stack = s0.stack /\ s1.cleanup = s0.cleanup /\ s1.dict = s0.dict /\ s1.parent = s0.parent
             /\ \A p \in Objects : p # o => s1.contents[p] = s0.contents[p]
             /\ \A p \in Objects : \A h \in Nat : GapAt(s0.contents[p], h) => GapAt(s1.contents[p], h)
<1> DEFINE c  == s0.contents[o]
           d  == s0.dict[o]
           C  == Revealed(c, f)
           A  == [s0.contents EXCEPT ![o] = C]
           s1 == RestoreBackup(s0, o, f)
<1>1. s0 \in States /\ c \in Contents /\ d \in Dicts /\ Whole(c, d) /\ s0.contents \in [Objects -> Contents]
      /\ \A p \in Objects : s0.cleanup.gap[p] \in Nat
  BY StateParts DEF Calm
<1>2. s1 = IF f.kind # "rule" THEN s0 ELSE [s0 EXCEPT !.contents = A]
  BY <1>1 DEF RestoreBackup, InTransaction, Revealed
<1>3. CASE f.kind # "rule"
  BY <1>2, <1>3
<1>4. CASE f.kind = "rule"
  <2>1. /\ C \in Contents /\ Whole(C, d)
        /\ \A h \in Nat : GapAt(c, h) => GapAt(C, h)
    <3>1. \A i \in DOMAIN f.backup : i \in DOMAIN c /\ c[i] # Gap /\ c[i][1] = f.backup[i][1]
      BY <1>4 DEF Rewritten
    <3> HIDE DEF c, d
    <3> QED BY <1>1, <3>1, WholeRevealed
  <2> HIDE DEF C, s1
  <2>2. A \in [Objects -> Contents] /\ A[o] = C /\ \A p \in Objects : p # o => A[p] = s0.contents[p]
    BY <1>1, <2>1
  <2>3. s1 = [s0 EXCEPT !.contents = A]
    BY <1>2, <1>4
  <2> HIDE DEF A
  <2>4. /\ s1 \in States /\ s1.stack = s0.stack /\ s1.cleanup = s0.cleanup /\ s1.dict = s0.dict /\ s1.parent = s0.parent
        /\ s1.contents = A
    BY <1>1, <2>2, <2>3 DEF States
  <2>5. \A p \in Objects : \A h \in Nat : GapAt(s0.contents[p], h) => GapAt(s1.contents[p], h)
    BY <2>1, <2>2, <2>4
  <2>6. \A p \in Objects : Whole(s1.contents[p], s1.dict[p])
    BY <2>1, <2>2, <2>4 DEF Calm
  <2>7. \A p \in {Top, Sub} : GapAt(s1.contents[p], s1.cleanup.gap[p])
    BY <1>1, <2>4, <2>5, Different DEF Calm
  <2>8. Calm(s1)
    BY <2>4, <2>6, <2>7 DEF Calm
  <2> QED BY <2>2, <2>4, <2>5, <2>8 DEF s1
<1> QED BY <1>3, <1>4

(* Lists of temporaries that are put together.                                          *)
LEMMA Merged ==
  ASSUME NEW t \in Temps, NEW u \in Temps
  PROVE  /\ MergeTemporaries(t, u) \in Temps
         /\ \A o \in Objects : MergeTemporaries(t, u).gap[o] \in {t.gap[o], u.gap[o]}
         /\ \A o \in Objects : u.gap[o] = 0 => MergeTemporaries(t, u).gap[o] = t.gap[o]
<1> DEFINE m == MergeTemporaries(t, u)
<1>1. t.gap \in [Objects -> Nat] /\ u.gap \in [Objects -> Nat]
      /\ t.items \in SUBSET (Objects \X Keys) /\ u.items \in SUBSET (Objects \X Keys)
  BY DEF Temps
<1>2. \A i, j \in Nat : AssignMin(i, j) \in Nat /\ AssignMin(i, j) \in {i, j} /\ (j = 0 => AssignMin(i, j) = i)
  BY DEF AssignMin
<1>3. m = [items |-> {i \in t.items \cup u.items : <<Top, i[1]>> \notin t.items \cup u.items},
           gap   |-> [o \in Objects |-> AssignMin(t.gap[o], u.gap[o])]]
  BY DEF MergeTemporaries
<1> HIDE DEF m
<1>4. m.items \in SUBSET (Objects \X Keys) /\ m.gap = [o \in Objects |-> AssignMin(t.gap[o], u.gap[o])]
  BY <1>1, <1>3
<1>5. m.gap \in [Objects -> Nat]
  BY <1>1, <1>2, <1>4
<1>6. m = [items |-> m.items, gap |-> m.gap]
  BY <1>3
<1>7. m \in Temps
  BY <1>4, <1>5, <1>6 DEF Temps
<1>8. \A o \in Objects : m.gap[o] \in {t.gap[o], u.gap[o]} /\ (u.gap[o] = 0 => m.gap[o] = t.gap[o])
  BY <1>1, <1>2, <1>4
<1> QED BY <1>7, <1>8 DEF m

\* The gaps a frame has noted are gaps.
Noted(s0, f) == f \in Frames /\ \A o \in {Top, Sub} : GapAt(s0.contents[o], f.temps.gap[o])

(* A subobject's transaction is committed into that of its parent.                      *)
LEMMA CommitsSub ==
  ASSUME NEW acc, Calm(acc.s), Noted(acc.s, acc.f), NEW p \in {Sub, Extra}, acc.s.stack[p] # <<>>,
         Noted(acc.s, Current(acc.s, p)),
         Current(acc.s, p).kind = "rule" => Len(acc.s.stack[p]) = 1,
         Rewritten(acc.s.contents[p], Current(acc.s, p))
  PROVE  LET a == CommitSub(acc, p)
         IN  /\ Calm(a.s) /\ Noted(a.s, a.f) /\ a.s.cleanup = acc.s.cleanup /\ a.f.subs = acc.f.subs
             /\ \A q \in Objects : q # p => a.s.stack[q] = acc.s.stack[q] /\ a.s.contents[q] = acc.s.contents[q]
             /\ (Len(acc.s.stack[p]) = 1 => a.s.stack[p] = <<>>)
<1> DEFINE s0 == acc.s
           f  == acc.f
           g  == Current(s0, p)
           sp == Pop(s0, p)
           s1 == RestoreBackup(sp, p, g)
           T  == IF IsTemporary(s0, p) THEN f.temps ELSE MergeTemporaries(f.temps, g.temps)
           e  == [f EXCEPT !.temps = T, !.changed = @ \/ g.changed]
           a  == CommitSub(acc, p)
<1>1. s0 \in States /\ p \in Objects /\ f \in Frames /\ g \in Frames
  BY Different DEF Calm, Noted
<1>2. a.s = s1 /\ a.f = e
  BY DEF CommitSub
<1>3. /\ Calm(sp) /\ Same(sp, s0) /\ \A q \in Objects : q # p => sp.stack[q] = s0.stack[q]
      /\ (Len(s0.stack[p]) = 1 => sp.stack[p] = <<>>)
  BY <1>1, PopCalm
<1> HIDE DEF sp
<1>4. /\ Calm(s1) /\ s1.stack = sp.stack /\ s1.cleanup = sp.cleanup
      /\ \A q \in Objects : q # p => s1.contents[q] = sp.contents[q]
      /\ \A q \in Objects : \A h \in Nat : GapAt(sp.contents[q], h) => GapAt(s1.contents[q], h)
  <2>1. CASE g.kind = "rule"
    <3>1. sp.stack[p] = <<>> /\ Rewritten(sp.contents[p], g)
      BY <1>3, <2>1 DEF Same
    <3> HIDE DEF g
    <3> QED BY <1>1, <1>3, <3>1, BackupRestored
  <2>2. CASE g.kind # "rule"
    <3>1. s1 = sp
      BY <2>2 DEF RestoreBackup
    <3> QED BY <1>3, <3>1
  <2> QED BY <2>1, <2>2
<1>5. T \in Temps /\ \A q \in Objects : T.gap[q] \in {f.temps.gap[q], g.temps.gap[q]}
  <2> HIDE DEF f, g
  <2>1. f.temps \in Temps /\ g.temps \in Temps
    BY <1>1, Fields
  <2> QED BY <2>1, Merged
<1>6. e \in Frames /\ e.temps = T /\ e.subs = f.subs
  <2>1. (f.changed \/ g.changed) \in BOOLEAN
    OBVIOUS
  <2> HIDE DEF f, g, T
  <2> QED BY <1>1, <1>5, <2>1 DEF Frames
<1>7. ASSUME NEW q \in {Top, Sub} PROVE GapAt(s1.contents[q], T.gap[q])
  <2>1. q \in Objects /\ T.gap[q] \in {f.temps.gap[q], g.temps.gap[q]}
    BY <1>5, Different
  <2>2. f.temps.gap[q] \in Nat /\ g.temps.gap[q] \in Nat
    <3> HIDE DEF f, g
    <3> QED BY <1>1, <2>1, Fields
  <2>3. GapAt(sp.contents[q], f.temps.gap[q]) /\ GapAt(sp.contents[q], g.temps.gap[q])
    BY <1>3 DEF Noted, Same
  <2>4. GapAt(s1.contents[q], f.temps.gap[q]) /\ GapAt(s1.contents[q], g.temps.gap[q])
    <3> HIDE DEF f, g, s1
    <3> QED BY <1>4, <2>1, <2>2, <2>3
  <2> HIDE DEF f, g, s1, T
  <2> QED BY <2>1, <2>4
<1>8. Noted(a.s, a.f)
  BY <1>2, <1>6, <1>7 DEF Noted
<1> HIDE DEF s1, e, T, g, a
<1> QED BY <1>2, <1>3, <1>4, <1>6, <1>8 DEF Same, a

\* What is needed for the outermost transaction to be committed.
Closing(s0) ==
  LET f == s0.stack[Top][1]
      g == s0.stack[Sub][1]
  IN  /\ Calm(s0) /\ Len(s0.stack[Top]) = 1 /\ Noted(s0, f) /\ Rewritten(s0.contents[Top], f)
      /\ IF Sub \in f.subs THEN Len(s0.stack[Sub]) = 1 /\ Noted(s0, g) /\ Rewritten(s0.contents[Sub], g)
         ELSE s0.stack[Sub] = <<>>
      /\ Extra \in f.subs => s0.stack[Extra] # <<>> /\ Current(s0, Extra).kind # "rule"

(* Committing the outermost transaction.                                                *)
LEMMA CommitsOuter ==
  ASSUME NEW s0, Closing(s0)
  PROVE  LET s1 == Commit(s0, Top)
         IN  Good(s1, NotRemoving) /\ s1.stack[Top] = <<>> /\ s1.stack[Sub] = <<>>
<1> DEFINE f  == s0.stack[Top][1]
           g  == s0.stack[Sub][1]
           sp == Pop(s0, Top)
           a0 == Committing(s0)
           a1 == IF Sub \in f.subs THEN CommitSub(a0, Sub) ELSE a0
           a2 == IF Extra \in f.subs THEN CommitSub(a1, Extra) ELSE a1
           sn == a2.s
           fn == a2.f
           s1 == Commit(s0, Top)
<1>0. Top \in Objects /\ Sub \in Objects /\ Extra \in Objects /\ Top # Sub /\ Top # Extra /\ Sub # Extra /\ s0 \in States
  BY Different DEF Closing, Calm
<1>1. f \in Frames /\ s0.stack[Top] # <<>> /\ Current(s0, Top) = f /\ Calm(s0)
  <2>1. s0.stack[Top] \in Seq(Frames) /\ Len(s0.stack[Top]) = 1
    BY <1>0, StateParts DEF Closing
  <2> DEFINE F == s0.stack[Top]
  <2>2. F # <<>> /\ F[1] \in Frames /\ Last(F) = F[1]
    <3> HIDE DEF F
    <3> QED BY <2>1, OneLong DEF F
  <2> QED BY <2>2 DEF Current, Closing
<1>2. s1 = Conclude(sn, fn)
  BY <1>1 DEF Commit, CommitSubs
<1>3. /\ Calm(sp) /\ Same(sp, s0) /\ \A q \in Objects : q # Top => sp.stack[q] = s0.stack[q]
      /\ sp.stack[Top] = <<>>
  BY <1>0, <1>1, PopCalm DEF Closing
<1>4. a0.s = RestoreBackup(sp, Top, f) /\ a0.f = f
  BY <1>1 DEF Committing
<1> HIDE DEF sp, s1
<1>5. /\ Calm(a0.s) /\ a0.s.stack = sp.stack /\ a0.s.cleanup = s0.cleanup
      /\ \A q \in Objects : q # Top => a0.s.contents[q] = s0.contents[q]
      /\ \A q \in Objects : \A h \in Nat : GapAt(s0.contents[q], h) => GapAt(a0.s.contents[q], h)
  <2>1. Rewritten(sp.contents[Top], f)
    BY <1>3 DEF Closing, Same
  <2> DEFINE sr == RestoreBackup(sp, Top, f)
  <2>2. /\ Calm(sr) /\ sr.stack = sp.stack /\ sr.cleanup = sp.cleanup
        /\ \A q \in Objects : q # Top => sr.contents[q] = sp.contents[q]
        /\ \A q \in Objects : \A h \in Nat : GapAt(sp.contents[q], h) => GapAt(sr.contents[q], h)
    <3> HIDE DEF f
    <3> QED BY <1>0, <1>1, <1>3, <2>1, BackupRestored
  <2> HIDE DEF sr
  <2> QED BY <1>3, <1>4, <2>2 DEF Same, sr
<1>6. \A e \in Frames : Noted(s0, e) => Noted(a0.s, e)
  <2> SUFFICES ASSUME NEW e \in Frames, Noted(s0, e) PROVE Noted(a0.s, e)
    OBVIOUS
  <2>1. \A o \in {Top, Sub} : e.temps.gap[o] \in Nat /\ o \in Objects /\ GapAt(s0.contents[o], e.temps.gap[o])
    BY <1>0, Fields DEF Noted
  <2> HIDE DEF a0
  <2> QED BY <1>5, <2>1 DEF Noted
<1>7. Noted(a0.s, a0.f)
  BY <1>1, <1>4, <1>6 DEF Closing
<1> HIDE DEF a0
<1>8. /\ Calm(a1.s) /\ Noted(a1.s, a1.f) /\ a1.s.stack[Top] = <<>> /\ a1.s.stack[Sub] = <<>>
      /\ a1.s.stack[Extra] = s0.stack[Extra]
  <2>1. CASE Sub \notin f.subs
    <3>1. s0.stack[Sub] = <<>> /\ a1 = a0
      BY <2>1 DEF Closing
    <3> QED BY <1>0, <1>3, <1>5, <1>7, <3>1
  <2>2. CASE Sub \in f.subs
    <3>1. Len(s0.stack[Sub]) = 1 /\ Noted(s0, g) /\ Rewritten(s0.contents[Sub], g) /\ a1 = CommitSub(a0, Sub) /\ g \in Frames
      BY <2>2 DEF Closing, Noted
    <3>2. a0.s.stack[Sub] = s0.stack[Sub] /\ a0.s.contents[Sub] = s0.contents[Sub]
      BY <1>0, <1>3, <1>5
    <3>3. s0.stack[Sub] # <<>> /\ Current(a0.s, Sub) = g
      <4>1. s0.stack[Sub] \in Seq(Frames) /\ Len(s0.stack[Sub]) = 1
        BY <1>0, <3>1, StateParts
      <4> DEFINE G == s0.stack[Sub]
      <4>2. G # <<>> /\ Last(G) = G[1]
        <5> HIDE DEF G
        <5> QED BY <4>1, OneLong DEF G
      <4> QED BY <3>2, <4>2 DEF Current
    <3>4. Noted(a0.s, g)
      BY <1>6, <3>1
    <3> HIDE DEF g, a1
    <3>5. /\ Calm(a1.s) /\ Noted(a1.s, a1.f)
          /\ \A q \in Objects : q # Sub => a1.s.stack[q] = a0.s.stack[q]
          /\ a1.s.stack[Sub] = <<>>
      BY <1>5, <1>7, <3>1, <3>2, <3>3, <3>4, CommitsSub
    <3> QED BY <1>0, <1>3, <1>5, <3>5
  <2> QED BY <2>1, <2>2
<1> HIDE DEF a1
<1>9. /\ Calm(sn) /\ Noted(sn, fn) /\ sn.stack[Top] = <<>> /\ sn.stack[Sub] = <<>>
  <2>1. CASE Extra \notin f.subs
    BY <1>8, <2>1
  <2>2. CASE Extra \in f.subs
    <3> DEFINE h == Current(a1.s, Extra)
    <3>1. a2 = CommitSub(a1, Extra) /\ a1.s.stack[Extra] # <<>> /\ h.kind # "rule"
      BY <1>8, <2>2 DEF Closing, Current
    <3>2. a1.s.stack[Extra] \in Seq(Frames)
      BY <1>0, <1>8, StateParts
    <3>3. h \in Frames /\ Len(a1.s.stack[Extra]) \in DOMAIN a1.s.stack[Extra] /\ h = a1.s.stack[Extra][Len(a1.s.stack[Extra])]
      BY <3>1, <3>2, Framed DEF Current
    <3>4. h.temps.gap[Top] = 0 /\ h.temps.gap[Sub] = 0
      BY <1>8, <3>3 DEF Calm
    <3>5. Noted(a1.s, h)
      BY <3>3, <3>4 DEF Noted, GapAt
    <3>6. Rewritten(a1.s.contents[Extra], h)
      BY <3>1 DEF Rewritten
    <3> HIDE DEF h, a2
    <3>7. /\ Calm(a2.s) /\ Noted(a2.s, a2.f)
          /\ \A q \in Objects : q # Extra => a2.s.stack[q] = a1.s.stack[q]
      BY <1>8, <3>1, <3>5, <3>6, CommitsSub DEF h
    <3> QED BY <1>0, <1>8, <3>7
  <2> QED BY <2>1, <2>2
<1> HIDE DEF sn, fn
<1> DEFINE T == MergeTemporaries(sn.cleanup, fn.temps)
<1>10. s1 = [sn EXCEPT !.cleanup = T, !.changed = @ \/ fn.changed]
  BY <1>2, <1>9 DEF Conclude, InTransaction
<1>11. sn \in States /\ fn \in Frames /\ sn.cleanup \in Temps /\ fn.temps \in Temps
  BY <1>9, StateParts, Fields DEF Calm, Noted
<1>12. T \in Temps /\ \A o \in Objects : T.gap[o] \in {sn.cleanup.gap[o], fn.temps.gap[o]}
  BY <1>11, Merged
<1> HIDE DEF T
<1>13. /\ s1 \in States /\ s1.contents = sn.contents /\ s1.dict = sn.dict /\ s1.parent = sn.parent /\ s1.stack = sn.stack
       /\ s1.cleanup = T
  BY <1>10, <1>11, <1>12 DEF States
<1>14. \A o \in {Top, Sub} : GapAt(sn.contents[o], s1.cleanup.gap[o])
  <2> SUFFICES ASSUME NEW o \in {Top, Sub} PROVE GapAt(sn.contents[o], s1.cleanup.gap[o])
    OBVIOUS
  <2>1. GapAt(sn.contents[o], sn.cleanup.gap[o]) /\ GapAt(sn.contents[o], fn.temps.gap[o]) /\ o \in Objects
    BY <1>0, <1>9 DEF Calm, Noted
  <2> QED BY <1>12, <1>13, <2>1
<1>15. Calm(s1)
  BY <1>9, <1>13, <1>14, CalmKept
<1>16. s1.stack[Top] = <<>> /\ s1.stack[Sub] = <<>>
  BY <1>9, <1>13
<1> QED BY <1>15, <1>16, CalmIsGood DEF s1

(* What good states say of outermost transactions.                                      *)
LEMMA NotedInGood ==
  ASSUME NEW s0, NEW rm, Good(s0, rm), NEW o \in {Top, Sub}, s0.stack[o] # <<>>
  PROVE  /\ s0.stack[o][1] \in Frames /\ Noted(s0, s0.stack[o][1])
         /\ Rewritten(s0.contents[o], s0.stack[o][1]) /\ Fits(s0.contents[o], s0.stack[o][1])
<1> DEFINE F == s0.stack[o]
           H == GapsOf(F, o)
<1>1. s0 \in States /\ o \in Objects /\ Part(s0, o, rm) /\ OwnGaps(s0)
  BY Different DEF Good
<1>2. F \in Seq(Frames) /\ F # <<>>
  BY <1>1, StateParts
<1>3. 1 \in DOMAIN F /\ F[1] \in Frames /\ H[1] = F[1].temps.gap[o]
  <2> HIDE DEF F
  <2> QED BY <1>1, <1>2, Framed, GapsTyped
<1>4. FirstFits(s0.contents[o], s0.dict[o], F[1], s0.cleanup.gap[o], H[1], Free(o, rm))
  BY <1>1, <1>2 DEF Part, Stacked
<1>5. Fits(s0.contents[o], F[1]) /\ GapAt(s0.contents[o], F[1].temps.gap[o])
  BY <1>3, <1>4 DEF FirstFits
<1>6. Rewritten(s0.contents[o], F[1])
  BY <1>5 DEF Fits, Rewritten
<1>7. \A p \in {Top, Sub} : p # o => F[1].temps.gap[p] = 0
  BY <1>1, <1>3 DEF OwnGaps
<1>8. Noted(s0, F[1])
  BY <1>3, <1>5, <1>7 DEF Noted, GapAt
<1> QED BY <1>3, <1>5, <1>6, <1>8

(* Outermost transactions of good states can be committed.                              *)
LEMMA ClosingInGood ==
  ASSUME NEW s0, NEW rm, Good(s0, rm), Len(s0.stack[Top]) = 1
  PROVE  Closing(s0)
<1> DEFINE F == s0.stack[Top]
           G == s0.stack[Sub]
           E == s0.stack[Extra]
<1>1. s0 \in States /\ Ties(s0) /\ Calm(s0) /\ F \in Seq(Frames) /\ G \in Seq(Frames) /\ E \in Seq(Frames)
  BY StateParts, GoodIsCalm, Different DEF Good
<1>2. F # <<>>
  <2>1. Len(F) = 1
    OBVIOUS
  <2> HIDE DEF F
  <2> QED BY <1>1, <2>1, OneLong
<1>3. Noted(s0, F[1]) /\ Rewritten(s0.contents[Top], F[1])
  BY <1>2, NotedInGood
<1>4. Sub \in F[1].subs => Len(G) = 1 /\ Noted(s0, G[1]) /\ Rewritten(s0.contents[Sub], G[1])
  <2>1. Sub \in F[1].subs => G # <<>> /\ Len(G) <= 1
    BY <1>1, <1>2 DEF Ties
  <2>2. G # <<>> /\ Len(G) <= 1 => Len(G) = 1
    <3> HIDE DEF G
    <3> QED BY <1>1, OneOnly
  <2>3. G # <<>> => Noted(s0, G[1]) /\ Rewritten(s0.contents[Sub], G[1])
    BY NotedInGood
  <2> QED BY <2>1, <2>2, <2>3
<1>5. Sub \notin F[1].subs => G = <<>>
  BY <1>1, <1>2 DEF Ties
<1>6. Extra \in F[1].subs => E # <<>> /\ Last(E).kind # "rule"
  <2>1. Extra \in F[1].subs => Len(E) = 1 /\ E[1].kind = "init"
    BY <1>1, <1>2 DEF Ties
  <2>2. Len(E) = 1 => E # <<>> /\ Last(E) = E[1]
    <3> HIDE DEF E
    <3> QED BY <1>1, OneLong
  <2> QED BY <2>1, <2>2
<1> QED BY <1>1, <1>3, <1>4, <1>5, <1>6 DEF Closing, Current

(* Committing it.                                                                       *)
LEMMA CommitOuter ==
  ASSUME NEW s0, NEW rm, Good(s0, rm), Len(s0.stack[Top]) = 1
  PROVE  LET s1 == Commit(s0, Top)
         IN  Good(s1, NotRemoving) /\ s1.stack[Top] = <<>> /\ s1.stack[Sub] = <<>>
BY ClosingInGood, CommitsOuter

(* Committing a transaction of the subobject alone.                                     *)
LEMMA CommitDirect ==
  ASSUME NEW s0, Good(s0, NotRemoving), s0.stack[Top] = <<>>, s0.stack[Sub] # <<>>
  PROVE  Good(Commit(s0, Sub), NotRemoving)
<1> DEFINE f  == s0.stack[Sub][1]
           sp == Pop(s0, Sub)
           T  == MergeTemporaries(sp.cleanup, f.temps)
           s1 == Commit(s0, Sub)
<1>1. /\ Calm(s0) /\ f \in Frames /\ Noted(s0, f) /\ Len(s0.stack[Sub]) = 1 /\ Current(s0, Sub) = f
      /\ Top \in Objects /\ Sub \in Objects /\ Top # Sub
  BY GoodIsCalm, NotedInGood, OneFrame, Different
<1>2. Calm(sp) /\ Same(sp, s0) /\ sp.stack[Sub] = <<>> /\ sp.stack[Top] = <<>>
  BY <1>1, PopCalm
<1>3. s1 = Conclude(sp, f)
  BY <1>1 DEF Commit
<1> HIDE DEF sp, f
<1>4. s1 = [sp EXCEPT !.cleanup = T, !.changed = @ \/ f.changed]
  BY <1>2, <1>3 DEF Conclude, InTransaction
<1>5. sp \in States /\ sp.cleanup \in Temps /\ f.temps \in Temps
  BY <1>1, <1>2, StateParts, Fields DEF Calm
<1>6. T \in Temps /\ \A o \in Objects : T.gap[o] \in {sp.cleanup.gap[o], f.temps.gap[o]}
  BY <1>5, Merged
<1> HIDE DEF T, s1
<1>7. /\ s1 \in States /\ s1.contents = sp.contents /\ s1.dict = sp.dict /\ s1.parent = sp.parent /\ s1.stack = sp.stack
      /\ s1.cleanup = T
  BY <1>4, <1>5, <1>6 DEF States
<1>8. \A o \in {Top, Sub} : GapAt(sp.contents[o], s1.cleanup.gap[o])
  <2> SUFFICES ASSUME NEW o \in {Top, Sub} PROVE GapAt(sp.contents[o], s1.cleanup.gap[o])
    OBVIOUS
  <2>1. GapAt(sp.contents[o], sp.cleanup.gap[o]) /\ GapAt(sp.contents[o], f.temps.gap[o]) /\ o \in Objects
    BY <1>1, <1>2 DEF Calm, Noted, Same
  <2> QED BY <1>6, <1>7, <2>1
<1>9. Calm(s1)
  BY <1>2, <1>7, <1>8, CalmKept
<1> QED BY <1>2, <1>7, <1>9, CalmIsGood DEF s1

-----------------------------------------------------------------------------
(* What is being reconstructed may change as long as the same properties may come back. *)
LEMMA PopsInner ==
  ASSUME NEW s0, NEW rm, Good(s0, rm), Len(s0.stack[Top]) >= 2, NEW rm1,
         \A o \in {Top, Sub} : Free(o, rm1) = Free(o, rm), Shape(Pop(s0, Top).stack[Top], rm1)
  PROVE  LET s1 == Pop(s0, Top)
             F  == s0.stack[Top]
             G  == s1.stack[Top]
         IN  /\ Good(s1, rm1) /\ Same(s1, s0) /\ \A p \in Objects : p # Top => s1.stack[p] = s0.stack[p]
             /\ Len(G) = Len(F) - 1 /\ G # <<>> /\ DOMAIN G = 1..(Len(F) - 1) /\ \A n \in DOMAIN G : G[n] = F[n]
<1> DEFINE s1 == Pop(s0, Top)
           F  == s0.stack[Top]
           G  == s1.stack[Top]
<1>1. /\ s0 \in States /\ Part(s0, Top, rm) /\ Part(s0, Sub, rm) /\ Ties(s0) /\ Outputs(s0) /\ Links(s0) /\ OwnGaps(s0)
      /\ Top \in Objects /\ Sub \in Objects /\ Extra \in Objects /\ Top # Sub /\ Top # Extra
  BY Different DEF Good
<1>2. F \in Seq(Frames) /\ F # <<>> /\ Len(F) > 1 /\ Len(F) \in Nat
  <2>1. F \in Seq(Frames) /\ Len(F) >= 2
    BY <1>1, StateParts
  <2> HIDE DEF F
  <2>2. Len(F) \in Nat
    BY <2>1
  <2>3. Len(F) # 0 /\ Len(F) > 1
    BY <2>1, <2>2
  <2>4. F # <<>>
    BY ONLY <2>1, <2>3, Framed
  <2> QED BY <2>1, <2>2, <2>3, <2>4
<1>3. /\ s1 \in States /\ Same(s1, s0) /\ \A p \in Objects : p # Top => s1.stack[p] = s0.stack[p]
      /\ Len(G) = Len(F) - 1 /\ DOMAIN G = 1..(Len(F) - 1)
      /\ (\A n \in DOMAIN G : G[n] = F[n]) /\ G # <<>>
  BY <1>1, <1>2, PopIs
<1> HIDE DEF s1, F, G
<1>4. \A n \in DOMAIN G : n \in DOMAIN F
  BY <1>2, <1>3, Framed
<1>45. 1 \in DOMAIN G /\ 1 \in DOMAIN F /\ G[1] = F[1]
  BY <1>2, <1>3, <1>4
<1>5. Part(s1, Top, rm1)
  <2>1. Len(s1.stack[Top]) <= Len(s0.stack[Top])
    BY <1>2, <1>3 DEF F, G
  <2>2. \A n \in DOMAIN s1.stack[Top] :
          Alike(s1.stack[Top][n], s0.stack[Top][n]) /\ s1.stack[Top][n].temps.gap[Top] = s0.stack[Top][n].temps.gap[Top]
    BY <1>3 DEF F, G, Alike
  <2>3. s1.contents[Top] = s0.contents[Top] /\ s1.dict[Top] = s0.dict[Top] /\ s1.cleanup.gap[Top] = s0.cleanup.gap[Top]
    BY <1>3 DEF Same
  <2>4. Part(s1, Top, rm)
    BY <1>1, <1>3, <2>1, <2>2, <2>3, PartAlike
  <2> QED BY <2>4 DEF Part
<1>6. Part(s1, Sub, rm1)
  BY <1>1, <1>3 DEF Part, Same
<1>7. Shape(s1.stack[Top], rm1)
  BY DEF s1
<1>8. Ties(s1)
  <2>1. s1.dict = s0.dict /\ s1.stack[Sub] = s0.stack[Sub] /\ s1.stack[Extra] = s0.stack[Extra]
    BY <1>1, <1>3 DEF Same
  <2>2. s1.stack[Top] = G /\ s0.stack[Top] = F
    BY DEF F, G
  <2>3. \A n \in DOMAIN G : n > 1 => G[n].subs = {}
    BY <1>1, <1>3, <1>4, <2>2 DEF Ties
  <2>4. Extra \in G[1].subs => \A n \in DOMAIN G : n > 1 => s1.dict[Top][Extra] <= G[n].end
    BY <1>1, <1>2, <1>3, <1>4, <1>45, <2>1, <2>2 DEF Ties
  <2> QED BY <1>1, <1>2, <1>3, <1>45, <2>1, <2>2, <2>3, <2>4 DEF Ties
<1>9. Outputs(s1)
  <2> SUFFICES ASSUME NEW o \in {Top, Sub}, NEW n \in DOMAIN s1.stack[o], s1.stack[o][n].kind = "rule"
               PROVE  s1.stack[o][n].outputs \subseteq DOMAIN s1.dict[o]
    BY DEF Outputs
  <2>1. n \in DOMAIN s0.stack[o] /\ s1.stack[o][n] = s0.stack[o][n]
    BY <1>1, <1>3, <1>4 DEF F, G
  <2> QED BY <1>1, <1>3, <2>1 DEF Outputs, Same
<1>10. Links(s1)
  <2>1. /\ Sub \in s1.parent /\ (Extra \in DOMAIN s1.dict[Top] => Extra \in s1.parent)
        /\ DOMAIN s1.dict[Sub] \subseteq Leaves /\ Whole(s1.contents[Extra], s1.dict[Extra])
    BY <1>1, <1>3 DEF Links, Same
  <2>2. ASSUME NEW n \in DOMAIN s1.stack[Top], Sub \in DOMAIN s1.dict[Top]
        PROVE  s1.dict[Top][Sub] <= s1.stack[Top][n].end
    BY <1>1, <1>3, <1>4, <2>2 DEF Links, Same, F, G
  <2>3. ASSUME NEW o \in {Top, Sub}, NEW n \in DOMAIN s1.stack[o], NEW i \in DOMAIN s1.stack[o][n].backup,
               i <= s1.stack[o][n].end
        PROVE  s1.stack[o][n].backup[i][1] \in Leaves
    <3>1. n \in DOMAIN s0.stack[o] /\ s1.stack[o][n] = s0.stack[o][n]
      BY <1>1, <1>3, <1>4 DEF F, G
    <3> QED BY <1>1, <2>3, <3>1 DEF Links
  <2> QED BY <2>1, <2>2, <2>3 DEF Links
<1>11. OwnGaps(s1)
  <2>1. ASSUME NEW o \in Objects, NEW p \in {Top, Sub}, p # o, NEW n \in DOMAIN s1.stack[o]
        PROVE  s1.stack[o][n].temps.gap[p] = 0
    <3>1. n \in DOMAIN s0.stack[o] /\ s1.stack[o][n] = s0.stack[o][n]
      BY <1>1, <1>3, <1>4 DEF F, G
    <3> QED BY <1>1, <2>1, <3>1 DEF OwnGaps
  <2>2. \A n \in DOMAIN s1.stack[Extra] : s1.stack[Extra][n].end = 0
    BY <1>1, <1>3 DEF OwnGaps
  <2> QED BY <2>1, <2>2 DEF OwnGaps
<1>12. Good(s1, rm1)
  BY <1>3, <1>5, <1>6, <1>7, <1>8, <1>9, <1>10, <1>11 DEF Good
<1> QED BY <1>3, <1>12 DEF s1, F, G

(* What is known of the last of several transactions.                                   *)
LEMMA Innermost ==
  ASSUME NEW s0, NEW rm, Good(s0, rm), Len(s0.stack[Top]) >= 2
  PROVE  LET F == s0.stack[Top]
             e == Current(s0, Top)
         IN  /\ F \in Seq(Frames) /\ F # <<>> /\ Len(F) \in Nat /\ Len(F) > 1 /\ DOMAIN F = 1..Len(F)
             /\ e = F[Len(F)] /\ e \in Frames /\ e.subs = {} /\ DOMAIN e.backup = {}
             /\ e.temps.gap[Top] = 0 /\ e.temps.gap[Sub] = 0
<1> DEFINE F == s0.stack[Top]
           H == GapsOf(F, Top)
           n == Len(F)
<1>1. /\ s0 \in States /\ Part(s0, Top, rm) /\ Ties(s0) /\ OwnGaps(s0) /\ Top \in Objects /\ Top # Sub
  BY Different DEF Good
<1>2. F \in Seq(Frames) /\ Len(F) >= 2
  BY <1>1, StateParts
<1>3. F # <<>> /\ n \in Nat /\ n > 1 /\ n \in DOMAIN F /\ DOMAIN F = 1..n /\ F[n] \in Frames /\ Last(F) = F[n]
      /\ H[n] = F[n].temps.gap[Top]
  <2> HIDE DEF F
  <2>1. n \in Nat /\ n >= 2 /\ (F = <<>> <=> n = 0) /\ DOMAIN F = 1..n
    BY <1>2, Framed
  <2> HIDE DEF n
  <2>2. F # <<>> /\ n > 1
    BY <2>1
  <2> QED BY <1>1, <1>2, <2>1, <2>2, Framed, GapsTyped DEF n
<1> HIDE DEF n
<1>4. LaterFits(s0.contents[Top], F[1], H[1], F[n], H[n])
  BY <1>1, <1>3 DEF Part, Stacked
<1>5. DOMAIN F[n].backup = {} /\ F[n].temps.gap[Top] = 0
  BY <1>3, <1>4 DEF LaterFits
<1>6. F[n].subs = {} /\ F[n].temps.gap[Sub] = 0
  BY <1>1, <1>3 DEF Ties, OwnGaps
<1> QED BY <1>2, <1>3, <1>5, <1>6 DEF Current, n

\* No frame has other backups than before.
BackupsKept(s1, s0) ==
  \A o \in {Top, Sub} : \A n \in DOMAIN s1.stack[o] :
    n \in DOMAIN s0.stack[o] /\ s1.stack[o][n].backup = s0.stack[o][n].backup

(* Backups are kept when nothing but flags and items change ...                         *)
LEMMA FlagsKeepBackups ==
  ASSUME NEW s0 \in States, NEW s1 \in States, Flags(s1, s0)
  PROVE  BackupsKept(s1, s0)
<1> SUFFICES ASSUME NEW o \in {Top, Sub}, NEW n \in DOMAIN s1.stack[o]
             PROVE  n \in DOMAIN s0.stack[o] /\ s1.stack[o][n].backup = s0.stack[o][n].backup
  BY DEF BackupsKept
<1>1. o \in Objects
  BY Different
<1>2. s1.stack[o] \in Seq(Frames) /\ s0.stack[o] \in Seq(Frames) /\ Len(s1.stack[o]) = Len(s0.stack[o])
  BY <1>1, StateParts DEF Flags
<1>3. DOMAIN s1.stack[o] = DOMAIN s0.stack[o]
  BY <1>2
<1> QED BY <1>1, <1>3 DEF Flags, Flagged, Alike

(* ... or a transaction is taken off.                                                   *)
LEMMA PopKeepsBackups ==
  ASSUME NEW s0 \in States, s0.stack[Top] # <<>>
  PROVE  BackupsKept(Pop(s0, Top), s0)
<1> DEFINE s1 == Pop(s0, Top)
           F  == s0.stack[Top]
           G  == s1.stack[Top]
<1>0. Top \in Objects /\ Sub \in Objects /\ Top # Sub
  BY Different
<1>1. /\ s1.stack[Sub] = s0.stack[Sub] /\ DOMAIN G = 1..(Len(F) - 1) /\ \A n \in DOMAIN G : G[n] = F[n]
  BY <1>0, PopIs
<1>2. F \in Seq(Frames) /\ DOMAIN F = 1..Len(F) /\ Len(F) \in Nat
  <2>1. F \in Seq(Frames)
    BY <1>0, StateParts
  <2> QED BY <2>1
<1> HIDE DEF F, G
<1>3. \A n \in DOMAIN G : n \in DOMAIN F /\ G[n] = F[n]
  BY <1>1, <1>2
<1> HIDE DEF s1
<1>4. BackupsKept(s1, s0)
  BY <1>0, <1>1, <1>3 DEF BackupsKept, F, G
<1> QED BY <1>4 DEF s1

(* Committing a transaction within others.                                              *)
LEMMA CommitInner ==
  ASSUME NEW s0, NEW rm, Good(s0, rm), Len(s0.stack[Top]) >= 2, NEW rm1,
         \A o \in {Top, Sub} : Free(o, rm1) = Free(o, rm), Shape(Pop(s0, Top).stack[Top], rm1)
  PROVE  LET s1 == Commit(s0, Top)
         IN  Good(s1, rm1) /\ Len(s1.stack[Top]) = Len(s0.stack[Top]) - 1 /\ BackupsKept(s1, s0)
<1> DEFINE F  == s0.stack[Top]
           e  == Current(s0, Top)
           sp == Pop(s0, Top)
           g  == Current(sp, Top)
           sr == RestoreBackup(sp, Top, e)
           T  == MergeTemporaries(g.temps, e.temps)
           h  == [g EXCEPT !.temps = T, !.changed = @ \/ e.changed]
           s1 == Commit(s0, Top)
<1>0. Top \in Objects
  BY Different
<1>1. /\ F \in Seq(Frames) /\ F # <<>> /\ Len(F) \in Nat /\ Len(F) > 1
      /\ e \in Frames /\ e.subs = {} /\ DOMAIN e.backup = {}
      /\ e.temps.gap[Top] = 0 /\ e.temps.gap[Sub] = 0
  BY Innermost
<1>2. /\ Good(sp, rm1) /\ Same(sp, s0) /\ Len(sp.stack[Top]) = Len(F) - 1 /\ sp.stack[Top] # <<>>
  BY PopsInner
<1>3. g \in Frames
  <2>1. sp.stack[Top] \in Seq(Frames)
    BY <1>0, <1>2, StateParts DEF Good
  <2> QED BY <1>2, <2>1, Framed DEF Current
<1> HIDE DEF F, e, sp, g, s1
<1>10. BackupsKept(sp, s0)
  <2>1. s0 \in States /\ s0.stack[Top] # <<>>
    BY <1>1 DEF Good, F
  <2> QED BY <2>1, PopKeepsBackups DEF sp
<1>4. /\ Good(sr, rm1) /\ Len(sr.stack[Top]) = Len(F) - 1 /\ sr.stack[Top] # <<>> /\ Current(sr, Top) = g
      /\ BackupsKept(sr, s0)
  <2>1. CASE e.kind # "rule"
    BY <1>2, <1>10, <2>1 DEF RestoreBackup, g
  <2>2. CASE e.kind = "rule"
    <3> DEFINE b == Over(g.backup, [i \in {j \in DOMAIN e.backup : j <= g.end} |-> e.backup[i]])
    <3>1. sr = SetFrame(sp, Top, [g EXCEPT !.backup = b])
      BY <1>2, <2>2 DEF RestoreBackup, InTransaction, g
    <3>2. b = g.backup
      <4>1. g.backup = [i \in DOMAIN g.backup |-> g.backup[i]]
        BY <1>3, Fields, Backup
      <4>2. DOMAIN b = DOMAIN g.backup /\ b = [i \in DOMAIN b |-> b[i]] /\ \A i \in DOMAIN g.backup : b[i] = g.backup[i]
        BY <1>1 DEF Over
      <4> HIDE DEF b
      <4> QED BY <4>1, <4>2
    <3>3. [g EXCEPT !.backup = b] = g
      <4> HIDE DEF b
      <4> QED BY <1>3, <3>2 DEF Frames
    <3>4. sr = SetFrame(sp, Top, g)
      BY <3>1, <3>3
    <3>5. Flagged(g, g) /\ SameGaps(g, g)
      BY DEF Flagged, Alike, SameGaps
    <3> HIDE DEF sr, b
    <3>6. Good(sr, rm1) /\ Flags(sr, sp) /\ sr.stack[Top][Len(sp.stack[Top])] = g
      BY <1>0, <1>2, <1>3, <3>4, <3>5, Flaggings DEF g
    <3>7. Len(sr.stack[Top]) = Len(sp.stack[Top]) /\ sr.stack[Top] # <<>>
      BY <1>0, <1>2, <3>6 DEF Flags
    <3>8. Current(sr, Top) = g
      BY <3>6, <3>7 DEF Current, Last
    <3>9. BackupsKept(sr, sp)
      BY <1>2, <3>6, FlagsKeepBackups DEF Good
    <3>10. BackupsKept(sr, s0)
      BY <1>10, <3>9 DEF BackupsKept
    <3> QED BY <1>2, <3>6, <3>7, <3>8, <3>10
  <2> QED BY <2>1, <2>2
<1>5. s1 = SetFrame(sr, Top, h)
  <2>1. Committing(s0).s = sr /\ Committing(s0).f = e
    BY DEF Committing, e, sp
  <2>2. CommitSubs(Committing(s0), Current(s0, Top).subs) = Committing(s0)
    BY <1>1 DEF CommitSubs, e
  <2>3. s1 = Conclude(sr, e)
    BY <2>1, <2>2 DEF Commit, s1
  <2> HIDE DEF sr
  <2> QED BY <1>4, <2>3 DEF Conclude, InTransaction
<1>6. T \in Temps /\ T.gap[Top] = g.temps.gap[Top] /\ T.gap[Sub] = g.temps.gap[Sub]
  BY <1>1, <1>3, Fields, Merged, Different
<1>7. h \in Frames /\ Flagged(h, g) /\ SameGaps(h, g)
  <2>1. (g.changed \/ e.changed) \in BOOLEAN
    OBVIOUS
  <2> HIDE DEF T
  <2> QED BY <1>3, <1>6, <2>1 DEF Frames, Flagged, Alike, SameGaps
<1> HIDE DEF sr, h
<1>8. Good(s1, rm1) /\ Flags(s1, sr)
  BY <1>0, <1>4, <1>5, <1>7, Flaggings
<1>9. Len(s1.stack[Top]) = Len(F) - 1
  BY <1>0, <1>4, <1>8 DEF Flags
<1>11. BackupsKept(s1, sr)
  BY <1>4, <1>8, FlagsKeepBackups DEF Good
<1>12. BackupsKept(s1, s0)
  BY <1>4, <1>11 DEF BackupsKept
<1> QED BY <1>8, <1>9, <1>12 DEF s1, F

(* Rolling it back.                                                                     *)
LEMMA RollbackInner ==
  ASSUME NEW s0, NEW rm, Good(s0, rm), Len(s0.stack[Top]) >= 2, NEW rm1,
         \A o \in {Top, Sub} : Free(o, rm1) = Free(o, rm), Shape(Pop(s0, Top).stack[Top], rm1)
  PROVE  LET s1 == Rollback(s0, Top)
         IN  Good(s1, rm1) /\ Len(s1.stack[Top]) = Len(s0.stack[Top]) - 1 /\ BackupsKept(s1, s0)
<1> DEFINE F  == s0.stack[Top]
           e  == Current(s0, Top)
           sp == Pop(s0, Top)
           G  == sp.stack[Top]
           c  == s0.contents[Top]
           d  == s0.dict[Top]
           g  == s0.cleanup.gap[Top]
           H  == GapsOf(F, Top)
           J  == GapsOf(G, Top)
           free == Free(Top, rm)
           u  == Undone(c, e)
           r  == Relisted(c, d, e)
           s1 == Rollback(s0, Top)
<1>0. Top \in Objects /\ Sub \in Objects /\ Extra \in Objects /\ Top # Sub /\ Top # Extra /\ Sub # Extra /\ Top \notin Keys
  BY Different
<1>1. /\ F \in Seq(Frames) /\ F # <<>> /\ Len(F) \in Nat /\ Len(F) > 1 /\ DOMAIN F = 1..Len(F) /\ e = F[Len(F)]
      /\ e \in Frames /\ e.subs = {} /\ DOMAIN e.backup = {}
  BY Innermost
<1>2. /\ Good(sp, rm1) /\ Same(sp, s0) /\ (\A p \in Objects : p # Top => sp.stack[p] = s0.stack[p])
      /\ Len(G) = Len(F) - 1 /\ G # <<>> /\ DOMAIN G = 1..(Len(F) - 1) /\ \A n \in DOMAIN G : G[n] = F[n]
  BY PopsInner
<1>3. /\ s0 \in States /\ Part(s0, Top, rm) /\ Shape(F, rm) /\ Ties(s0) /\ Links(s0) /\ sp \in States
      /\ Part(sp, Sub, rm1) /\ Ties(sp) /\ Links(sp) /\ OwnGaps(sp) /\ Shape(G, rm1)
  BY <1>2 DEF Good
<1>4. /\ c \in Contents /\ d \in Dicts /\ g \in Nat /\ G \in Seq(Frames)
      /\ H \in [DOMAIN F -> Nat] /\ J \in [DOMAIN G -> Nat] /\ \A n \in DOMAIN G : J[n] = H[n]
  <2>1. c \in Contents /\ d \in Dicts /\ g \in Nat /\ G \in Seq(Frames)
    BY <1>0, <1>3, StateParts
  <2>2. \A n \in DOMAIN G : n \in DOMAIN F /\ G[n] = F[n]
    BY <1>1, <1>2
  <2>3. H \in [DOMAIN F -> Nat] /\ \A n \in DOMAIN F : H[n] = F[n].temps.gap[Top]
    <3> HIDE DEF F
    <3> QED BY <1>0, <1>1, GapsTyped DEF GapsOf
  <2>4. J \in [DOMAIN G -> Nat] /\ \A n \in DOMAIN G : J[n] = G[n].temps.gap[Top]
    <3> HIDE DEF G
    <3> QED BY <1>0, <2>1, GapsTyped DEF GapsOf
  <2> HIDE DEF F, G, H, J
  <2>5. \A n \in DOMAIN G : J[n] = H[n]
    BY <2>2, <2>3, <2>4
  <2> QED BY <2>1, <2>3, <2>4, <2>5
<1>5. s1 = Restored(sp, Top, e)
  BY <1>1 DEF Rollback, RollbackTop, RemainingSubs
<1> HIDE DEF F, e, sp, G, c, d, g, H, J, free, s1
<1>6. Stacked(c, d, F, g, H, free)
  BY <1>3 DEF Part, c, d, F, g, H, free
<1>7. Fits(c, e) /\ Stacked(u, r, G, g, J, free)
  <2>1. c \in Contents /\ d \in Dicts /\ F \in Seq(Frames) /\ g \in Nat /\ H \in [DOMAIN F -> Nat]
    BY <1>1, <1>4
  <2>2. Len(F) > 1 /\ e = F[Len(F)] /\ G \in Seq(Frames) /\ Len(G) = Len(F) - 1 /\ \A n \in DOMAIN G : G[n] = F[n]
    BY <1>1, <1>2, <1>4
  <2>3. J \in [DOMAIN G -> Nat] /\ \A n \in DOMAIN G : J[n] = H[n]
    BY <1>4
  <2>4. Fits(c, e) /\ Stacked(Undone(c, e), Relisted(c, d, e), G, g, J, free)
    <3>1. Inner(c, d, F, g, H, free, e, G, J)
      BY ONLY <1>6, <2>1, <2>2, <2>3 DEF Inner
    <3> QED BY ONLY <3>1, StackedInner
  <2> QED BY <2>4 DEF u, r
<1>8. Whole(c, d)
  BY <1>6 DEF Stacked
<1>9. /\ s1 \in States /\ s1.cleanup = s0.cleanup /\ s1.parent = s0.parent
      /\ s1.contents[Top] = u /\ s1.dict[Top] = r
      /\ \A p \in Objects : p # Top => s1.contents[p] = s0.contents[p] /\ s1.dict[p] = s0.dict[p]
      /\ \A p \in Objects : s1.stack[p] = IF e.end # 0 /\ p \in Gone(c, e) THEN <<>> ELSE sp.stack[p]
  <2>1. sp.contents = s0.contents /\ sp.dict = s0.dict /\ sp.cleanup = s0.cleanup /\ sp.parent = s0.parent
        /\ sp.contents[Top] = c /\ sp.dict[Top] = d
    BY <1>2 DEF Same, c, d
  <2>2. \A i \in DOMAIN e.backup : e.backup[i][1] \notin DOMAIN d
    BY <1>1
  <2> QED BY SMTT(30), <1>0, <1>1, <1>3, <1>5, <1>7, <1>8, <2>1, <2>2, RestoredIs
<1>10. \A k : k \in DOMAIN r <=> k \in DOMAIN d /\ d[k] <= e.end
  <2>1. \A k : k \in DOMAIN r <=> \/ k \in DOMAIN d /\ d[k] <= e.end
                                  \/ \E i \in DOMAIN e.backup : i <= e.end /\ e.backup[i][1] = k
    BY <1>1, <1>4, <1>7, <1>8, RelistedKeys
  <2> QED BY <1>1, <2>1
<1>11. \A k \in DOMAIN d : d[k] <= e.end => r[k] = d[k]
  BY <1>1, <1>4, <1>7, <1>8, RelistedKeys
<1>12. \A k \in Gone(c, e) : k \in DOMAIN d /\ ~(d[k] <= e.end)
  <2> SUFFICES ASSUME NEW j \in DOMAIN c, j > e.end, c[j] # Gap
               PROVE  c[j][1] \in DOMAIN d /\ ~(d[c[j][1]] <= e.end)
    BY DEF Gone
  <2>1. c[j][1] \in DOMAIN d /\ d[c[j][1]] = j
    BY <1>8 DEF Whole
  <2>2. j \in Nat /\ e.end \in Nat
    BY <1>1, <1>4, Sequence, Fields
  <2> QED BY <2>1, <2>2
<1> HIDE DEF u, r
<1>13. Sub \in DOMAIN d => d[Sub] <= e.end
  BY <1>1, <1>3 DEF Links, d, F
<1>14. Extra \in F[1].subs => Extra \in DOMAIN d /\ d[Extra] <= e.end
  BY <1>1, <1>3 DEF Ties, d, F
<1>15. s1.stack[Top] = G /\ s1.stack[Sub] = sp.stack[Sub] /\ (s1.stack[Extra] = sp.stack[Extra] \/ s1.stack[Extra] = <<>>)
       /\ (Extra \in F[1].subs => s1.stack[Extra] = sp.stack[Extra])
  <2>1. Top \notin Gone(c, e)
    BY <1>0, <1>4, <1>12, Dictionary
  <2>2. Sub \notin Gone(c, e)
    BY <1>12, <1>13
  <2>3. Extra \in F[1].subs => Extra \notin Gone(c, e)
    BY <1>12, <1>14
  <2> QED BY <1>0, <1>9, <2>1, <2>2, <2>3 DEF G
<1>16. 1 \in DOMAIN G /\ G[1] = F[1] /\ sp.stack[Top] = G /\ 1 \in DOMAIN F
  <2>1. 1 \in DOMAIN G /\ G[1] = F[1] /\ 1 \in DOMAIN F
    BY <1>1, <1>2
  <2>2. sp.stack[Top] = G
    BY DEF G
  <2> QED BY <2>1, <2>2
<1>17. Part(s1, Top, rm1)
  <2>1. free = Free(Top, rm1)
    BY DEF free
  <2> QED BY <1>7, <1>9, <1>15, <2>1 DEF Part, J, g
<1>18. Part(s1, Sub, rm1)
  BY <1>0, <1>2, <1>3, <1>9, <1>15 DEF Part, Same
<1>19. Shape(s1.stack[Top], rm1)
  BY <1>3, <1>15
<1>20. Ties(s1)
  <2>1. sp.dict[Top] = d
    BY <1>2 DEF Same, d
  <2>2. Sub \in G[1].subs => Sub \in DOMAIN r
    <3>1. Sub \in G[1].subs => Sub \in DOMAIN d
      BY <1>2, <1>3, <1>16, <2>1 DEF Ties
    <3> QED BY <1>10, <1>13, <3>1
  <2>3. Extra \in G[1].subs => Extra \in DOMAIN r /\ r[Extra] = d[Extra]
    BY <1>10, <1>11, <1>14, <1>16
  <2>4. Extra \in G[1].subs => s1.stack[Extra] = sp.stack[Extra]
    BY <1>15, <1>16
  <2> QED BY <1>2, <1>3, <1>9, <1>15, <1>16, <2>1, <2>2, <2>3, <2>4 DEF Ties
<1>21. Outputs(s1)
  <2>1. \A n \in DOMAIN G : G[n].kind # "rule"
    <3>1. \A n \in DOMAIN G : n \in DOMAIN F /\ n # Len(F)
      BY <1>1, <1>2
    <3> QED BY <1>2, <1>3, <3>1 DEF Shape
  <2>2. \A n \in DOMAIN sp.stack[Sub] : sp.stack[Sub][n].kind # "rule"
    <3>1. sp.stack[Sub] \in Seq(Frames) /\ Len(sp.stack[Sub]) <= 1
      BY <1>0, <1>3, StateParts DEF Ties
    <3>2. CASE sp.stack[Sub] = <<>>
      BY <3>2
    <3>3. CASE sp.stack[Sub] # <<>>
      <4>1. DOMAIN sp.stack[Sub] = {1}
        BY <3>1, <3>3, OneOnly
      <4>2. sp.stack[Sub][1].kind = G[1].kind
        BY <1>2, <1>3, <1>16, <3>3 DEF Ties
      <4> QED BY <1>16, <2>1, <4>1, <4>2
    <3> QED BY <3>2, <3>3
  <2> QED BY <1>15, <2>1, <2>2 DEF Outputs
<1>22. Links(s1)
  <2>1. sp.dict[Top] = d /\ sp.parent = s0.parent /\ sp.dict = s0.dict /\ sp.contents = s0.contents
    BY <1>2 DEF Same, d
  <2>2. /\ Sub \in s1.parent /\ (Extra \in DOMAIN s1.dict[Top] => Extra \in s1.parent)
        /\ DOMAIN s1.dict[Sub] \subseteq Leaves /\ Whole(s1.contents[Extra], s1.dict[Extra])
    BY <1>0, <1>3, <1>9, <1>10, <2>1 DEF Links
  <2>3. ASSUME NEW n \in DOMAIN s1.stack[Top], Sub \in DOMAIN s1.dict[Top]
        PROVE  s1.dict[Top][Sub] <= s1.stack[Top][n].end
    BY <1>3, <1>9, <1>10, <1>11, <1>13, <1>15, <1>16, <2>1, <2>3 DEF Links
  <2>4. \A o \in {Top, Sub} : \A n \in DOMAIN s1.stack[o] : \A i \in DOMAIN s1.stack[o][n].backup :
          i <= s1.stack[o][n].end => s1.stack[o][n].backup[i][1] \in Leaves
    BY <1>3, <1>15, <1>16 DEF Links
  <2> QED BY <2>2, <2>3, <2>4 DEF Links
<1>23. OwnGaps(s1)
  <2>1. ASSUME NEW o \in Objects, NEW p \in {Top, Sub}, p # o, NEW n \in DOMAIN s1.stack[o]
        PROVE  s1.stack[o][n].temps.gap[p] = 0
    <3>1. s1.stack[o] = sp.stack[o] \/ s1.stack[o] = <<>>
      BY <1>9
    <3>2. DOMAIN <<>> = {}
      OBVIOUS
    <3>3. s1.stack[o] = sp.stack[o]
      BY <2>1, <3>1, <3>2
    <3> QED BY <1>3, <2>1, <3>3 DEF OwnGaps
  <2>2. \A n \in DOMAIN s1.stack[Extra] : s1.stack[Extra][n].end = 0
    <3>1. DOMAIN <<>> = {}
      OBVIOUS
    <3> QED BY <1>3, <1>15, <3>1 DEF OwnGaps
  <2> QED BY <2>1, <2>2 DEF OwnGaps
<1>24. Good(s1, rm1)
  BY <1>9, <1>17, <1>18, <1>19, <1>20, <1>21, <1>22, <1>23 DEF Good
<1>25. BackupsKept(s1, s0)
  <2>1. BackupsKept(sp, s0)
    BY <1>3, PopKeepsBackups DEF sp
  <2> QED BY <1>15, <1>16, <2>1 DEF BackupsKept
<1> QED BY <1>2, <1>15, <1>24, <1>25 DEF s1, F

-----------------------------------------------------------------------------
\* While remove() looks for a way to reconstruct a property outside of any other
\* transaction, nothing else has a backup.
Owned(s0, rm) ==
  rm.by = "own" => \A o \in {Top, Sub} : \A n \in DOMAIN s0.stack[o] : \A i \in DOMAIN s0.stack[o][n].backup :
    s0.stack[o][n].backup[i][1] \in Free(o, rm)

(* The invariant of the specification.                                                  *)
IInv == instance \in Instances /\ Good(s, removing) /\ Owned(s, removing)

(* With Good, a property is there when the dictionary lists it.                         *)
LEMMA Found ==
  ASSUME NEW s0, NEW rm, Good(s0, rm)
  PROVE  /\ \A o \in Objects : \A k : Has(s0, o, k) <=> k \in DOMAIN s0.dict[o]
         /\ \A o \in Objects : o \in Linked(s0) <=> o = Top \/ o \in DOMAIN s0.dict[Top]
<1>1. \A o \in Objects : Whole(s0.contents[o], s0.dict[o])
  <2>1. Calm(s0)
    BY GoodIsCalm
  <2> QED BY <2>1 DEF Calm
<1>2. \A o \in Objects : \A k : Has(s0, o, k) <=> k \in DOMAIN s0.dict[o]
  BY <1>1 DEF Has, Cell, Whole
<1> QED BY <1>2, Different DEF Linked

(* Without a rule running and outside of remove(), there is one plain transaction.      *)
LEMMA IdleIs ==
  ASSUME IInv, Idle
  PROVE  /\ removing = NotRemoving /\ Good(s, NotRemoving)
         /\ s.stack[Top] # <<>> => Len(s.stack[Top]) = 1 /\ s.stack[Top][1].kind = "plain"
                                   /\ Current(s, Top) = s.stack[Top][1]
         /\ s.stack[Sub] # <<>> => Len(s.stack[Sub]) = 1 /\ s.stack[Sub][1].kind = "plain"
                                   /\ Current(s, Sub) = s.stack[Sub][1]
<1>1. removing = NotRemoving /\ Good(s, NotRemoving)
  BY DEF IInv, Idle
<1>2. ASSUME s.stack[Top] # <<>>
      PROVE  Len(s.stack[Top]) = 1 /\ s.stack[Top][1].kind = "plain" /\ Current(s, Top) = s.stack[Top][1]
  <2>1. Len(s.stack[Top]) = 1 /\ s.stack[Top][1].kind \in {"plain", "rule"} /\ Current(s, Top) = s.stack[Top][1]
    BY <1>1, <1>2, OneFrame
  <2> QED BY <1>2, <2>1 DEF Idle, RuleRunning, InTransaction
<1>3. ASSUME s.stack[Sub] # <<>>
      PROVE  Len(s.stack[Sub]) = 1 /\ s.stack[Sub][1].kind = "plain" /\ Current(s, Sub) = s.stack[Sub][1]
  <2>1. Len(s.stack[Sub]) = 1 /\ Current(s, Sub) = s.stack[Sub][1]
    BY <1>1, <1>3, OneFrame
  <2>2. Ties(s)
    BY <1>1 DEF Good
  <2>3. s.stack[Sub][1].kind = "plain"
    BY <1>2, <1>3, <2>2 DEF Ties
  <2> QED BY <2>1, <2>3
<1> QED BY <1>1, <1>2, <1>3

(* The way to the object a client wants to change, in a transaction of its own or in    *)
(* the one already open.                                                                *)
LEMMA Prepared ==
  ASSUME NEW s0, Good(s0, NotRemoving), NEW o \in {Top, Sub}, o = Sub => Sub \in DOMAIN s0.dict[Top],
         s0.stack[Top] # <<>> => s0.stack[Top][1].kind = "plain",
         s0.stack[Top] = <<>> => s0.stack[Sub] = <<>>
  PROVE  LET s1 == Reach(Opened(s0, Top), o)
         IN  /\ Good(s1, NotRemoving) /\ s1.contents = s0.contents /\ s1.dict = s0.dict
             /\ Len(s1.stack[Top]) = 1 /\ s1.stack[Top][1].kind = "plain"
             /\ s1.stack[o] # <<>> /\ s1.stack[o][1].kind = "plain" /\ Len(s1.stack[o]) = 1
             /\ s0.stack[Top] = <<>> => \A p \in {Top, Sub} : \A n \in DOMAIN s1.stack[p] : DOMAIN s1.stack[p][n].backup = {}
<1> DEFINE s2 == Opened(s0, Top)
           s1 == Reach(s2, o)
<1>1. /\ Good(s2, NotRemoving) /\ Same(s2, s0) /\ s2.stack[Top] # <<>> /\ s2.stack[Top][1].kind = "plain"
      /\ s0.stack[Top] = <<>> => DOMAIN s2.stack[Top][1].backup = {} /\ s2.stack[Sub] = <<>>
  <2>1. CASE s0.stack[Top] # <<>>
    BY <2>1 DEF Opened, InTransaction, Same
  <2>2. CASE s0.stack[Top] = <<>>
    <3>1. s2 = Begin(s0, Top)
      BY <2>2 DEF Opened, InTransaction
    <3> HIDE DEF s2
    <3> QED BY <2>2, <3>1, Begins, Different
  <2> QED BY <2>1, <2>2
<1>2. CASE o = Top
  <2>1. s1 = s2
    BY <1>2 DEF Reach
  <2>2. Len(s2.stack[Top]) = 1
    BY <1>1, OneFrame
  <2> HIDE DEF s1, s2
  <2>3. Good(s1, NotRemoving) /\ s1.contents = s0.contents /\ s1.dict = s0.dict
    BY <1>1, <2>1 DEF Same
  <2>4. DOMAIN s1.stack[Top] = {1} /\ DOMAIN <<>> = {}
    BY <1>1, <2>1, OneFrame
  <2>5. s0.stack[Top] = <<>> => \A p \in {Top, Sub} : \A n \in DOMAIN s1.stack[p] : DOMAIN s1.stack[p][n].backup = {}
    BY <1>1, <2>1, <2>4
  <2> QED BY <1>1, <1>2, <2>1, <2>2, <2>3, <2>5 DEF s1, s2
<1>3. CASE o = Sub
  <2>1. s1 = Descend(s2, Sub, FALSE)
    BY <1>3, Different DEF Reach
  <2>2. Sub \in DOMAIN s2.dict[Top]
    BY <1>1, <1>3 DEF Same
  <2> HIDE DEF s1, s2
  <2>3. /\ Good(s1, NotRemoving) /\ Same(s1, s2) /\ Len(s1.stack[Top]) = 1 /\ Alike(s1.stack[Top][1], s2.stack[Top][1])
        /\ Len(s1.stack[Sub]) = 1 /\ s1.stack[Sub] # <<>> /\ s1.stack[Sub][1].kind = s2.stack[Top][1].kind
        /\ (s2.stack[Sub] = <<>> => DOMAIN s1.stack[Sub][1].backup = {}) /\ s1.stack[Top] # <<>>
    BY <1>1, <2>1, <2>2, Descends
  <2>4. s1.contents = s0.contents /\ s1.dict = s0.dict
    BY <1>1, <2>3 DEF Same
  <2>5. s1.stack[Top][1].kind = "plain" /\ s1.stack[Sub][1].kind = "plain"
        /\ (s0.stack[Top] = <<>> => DOMAIN s1.stack[Top][1].backup = {})
    BY <1>1, <2>3 DEF Alike
  <2>6. DOMAIN s1.stack[Top] = {1} /\ DOMAIN s1.stack[Sub] = {1}
    BY <2>3, OneFrame
  <2>7. s0.stack[Top] = <<>> => \A p \in {Top, Sub} : \A n \in DOMAIN s1.stack[p] : DOMAIN s1.stack[p][n].backup = {}
    BY <1>1, <2>3, <2>5, <2>6
  <2> QED BY <1>3, <2>3, <2>4, <2>5, <2>7 DEF s1, s2
<1> QED BY <1>2, <1>3

(* What is known of the world.                                                          *)
LEMMA World ==
  ASSUME \A w \in Instances : Strict(w), IInv
  PROVE  /\ Liberties = {} /\ \A o \in Objects : Declared[o] \subseteq Leaves
         /\ \A v \in Values : v \in CellValues
         /\ \A k \in Leaves : k \in Keys
<1>1. instance \in Instances
  BY DEF IInv
<1>2. Liberties = {}
  BY <1>1 DEF Strict, Liberties
<1>3. \A o \in Objects : Declared[o] \subseteq Leaves
  BY <1>1, TransactionAssumption DEF Declared
<1>4. \A v \in Values : v \in CellValues
  BY <1>1 DEF Values, CellValues
<1> QED BY <1>2, <1>3, <1>4 DEF Keys

(* After a step of a client outside of remove().                                        *)
LEMMA Outside ==
  ASSUME IInv, removing' = NotRemoving, instance' = instance, Good(s', NotRemoving)
  PROVE  IInv'
<1>1. Owned(s', NotRemoving)
  BY DEF Owned, NotRemoving
<1> QED BY <1>1 DEF IInv

(* begin_transaction keeps the invariant.                                               *)
LEMMA KeepsBegin ==
  ASSUME \A w \in Instances : Strict(w), IInv, NEW o \in {Top, Sub}, BeginTransaction(o)
  PROVE  IInv'
<1>1. removing = NotRemoving /\ Good(s, NotRemoving)
  BY IdleIs DEF BeginTransaction
<1>2. s.stack[Top] = <<>> /\ s.stack[Sub] = <<>>
  BY World, Different DEF BeginTransaction, FreeFor, InTransaction
<1>3. s' = Begin(s, o) /\ removing' = removing /\ instance' = instance
  BY DEF BeginTransaction
<1>4. Good(s', NotRemoving)
  BY <1>1, <1>2, <1>3, Begins
<1> QED BY <1>1, <1>3, <1>4, Outside

(* take() of a property of the object or, from above, of its subobject.                 *)
LEMMA KeepsTake ==
  ASSUME \A w \in Instances : Strict(w), IInv, NEW o \in {Top, Sub}, NEW k \in Declared[o], NEW v \in Values,
         NEW temp \in BOOLEAN, Take(o, k, v, temp)
  PROVE  IInv'
<1> DEFINE s1 == Reach(Opened(s, Top), o)
           s2 == Store(s1, o, k, v, temp)
<1>1. /\ removing = NotRemoving /\ Good(s, NotRemoving)
      /\ s.stack[Top] # <<>> => s.stack[Top][1].kind = "plain"
  BY IdleIs DEF Take
<1>2. o = Sub => Sub \in DOMAIN s.dict[Top]
  BY <1>1, Found, Different DEF Take, InTree
<1>3. s.stack[Top] = <<>> => s.stack[Sub] = <<>>
  BY World, Different DEF Take, FreeFor, InTransaction
<1>4. /\ Good(s1, NotRemoving) /\ s1.dict = s.dict
      /\ Len(s1.stack[Top]) = 1 /\ s1.stack[o] # <<>> /\ Len(s1.stack[o]) = 1
  BY <1>1, <1>2, <1>3, Prepared
<1>5. /\ Disciplined(s1, InTransaction(s, Top), o, k, temp) /\ removing' = removing /\ instance' = instance
      /\ s' = IF InTransaction(s, Top) THEN s2 ELSE Commit(s2, Top)
  BY DEF Take
<1> HIDE DEF s1
<1>6. Current(s1, o) = s1.stack[o][1]
  BY <1>4, OneFrame
<1>7. \A i \in DOMAIN s1.stack[o][1].backup : s1.stack[o][1].backup[i][1] # k
  BY <1>5, <1>6, World DEF Disciplined
<1>8. k \in Leaves /\ k \in Keys /\ v \in CellValues
  BY World, Different
<1>9. Storable(s1, NotRemoving, o, k)
  BY <1>7, <1>8 DEF Storable
<1> HIDE DEF s2
<1>10. Good(s2, NotRemoving) /\ Flags(s2, s1)
  BY <1>4, <1>8, <1>9, Stores DEF s2
<1>11. Len(s2.stack[Top]) = 1
  BY <1>4, <1>10, Different DEF Flags
<1>12. Good(Commit(s2, Top), NotRemoving)
  BY <1>10, <1>11, CommitOuter
<1>13. Good(s', NotRemoving)
  BY <1>5, <1>10, <1>12
<1> QED BY <1>1, <1>5, <1>13, Outside

(* take() called for the subobject itself.                                              *)
LEMMA KeepsTakeDirect ==
  ASSUME \A w \in Instances : Strict(w), IInv, NEW k \in Declared[Sub], NEW v \in Values,
         NEW temp \in BOOLEAN, TakeDirect(k, v, temp)
  PROVE  IInv'
<1> DEFINE s1 == Opened(s, Sub)
           s2 == Store(s1, Sub, k, v, temp)
<1>1. removing = NotRemoving /\ Good(s, NotRemoving)
  BY IdleIs DEF TakeDirect
<1>2. ~InTransaction(s, Sub) => s.stack[Top] = <<>> /\ s.stack[Sub] = <<>>
  BY World, Different DEF TakeDirect, FreeFor, InTransaction
<1>3. /\ Good(s1, NotRemoving) /\ s1.stack[Sub] # <<>> /\ (~InTransaction(s, Sub) => s1.stack[Top] = <<>>)
  <2>1. CASE InTransaction(s, Sub)
    BY <1>1, <2>1 DEF Opened, InTransaction
  <2>2. CASE ~InTransaction(s, Sub)
    <3>1. s1 = Begin(s, Sub)
      BY <2>2 DEF Opened
    <3> HIDE DEF s1
    <3> QED BY <1>1, <1>2, <2>2, <3>1, Begins, Different
  <2> QED BY <2>1, <2>2
<1>5. /\ Disciplined(s1, InTransaction(s, Sub), Sub, k, temp) /\ removing' = removing /\ instance' = instance
      /\ s' = IF InTransaction(s, Sub) THEN s2 ELSE Commit(s2, Sub)
  BY DEF TakeDirect
<1> HIDE DEF s1
<1>6. Current(s1, Sub) = s1.stack[Sub][1]
  BY <1>3, OneFrame
<1>7. \A i \in DOMAIN s1.stack[Sub][1].backup : s1.stack[Sub][1].backup[i][1] # k
  BY <1>5, <1>6, World DEF Disciplined
<1>8. k \in Leaves /\ k \in Keys /\ v \in CellValues
  BY World, Different
<1>9. Storable(s1, NotRemoving, Sub, k)
  BY <1>7, <1>8 DEF Storable
<1> HIDE DEF s2
<1>10. Good(s2, NotRemoving) /\ Flags(s2, s1)
  BY <1>3, <1>8, <1>9, Stores DEF s2
<1>11. s2.stack[Sub] # <<>> /\ (~InTransaction(s, Sub) => s2.stack[Top] = <<>>)
  BY <1>3, <1>10, Different DEF Flags
<1>12. ~InTransaction(s, Sub) => Good(Commit(s2, Sub), NotRemoving)
  BY <1>10, <1>11, CommitDirect
<1>13. Good(s', NotRemoving)
  BY <1>5, <1>10, <1>12
<1> QED BY <1>1, <1>5, <1>13, Outside

(* remove() of a mutable property.                                                      *)
LEMMA KeepsRemoveMutable ==
  ASSUME \A w \in Instances : Strict(w), IInv, NEW o \in {Top, Sub}, NEW k \in Declared[o], RemoveMutable(o, k)
  PROVE  IInv'
<1> DEFINE s1 == Reach(Opened(s, Top), o)
           s2 == Drop(s1, o, k)
<1>1. /\ removing = NotRemoving /\ Good(s, NotRemoving)
      /\ s.stack[Top] # <<>> => s.stack[Top][1].kind = "plain"
  BY IdleIs DEF RemoveMutable
<1>2. o = Sub => Sub \in DOMAIN s.dict[Top]
  BY <1>1, Found, Different DEF RemoveMutable, InTree
<1>3. s.stack[Top] = <<>> => s.stack[Sub] = <<>>
  BY World, Different DEF RemoveMutable, FreeFor, InTransaction
<1>4. /\ Good(s1, NotRemoving) /\ s1.dict = s.dict /\ Len(s1.stack[Top]) = 1
      /\ s1.stack[o] # <<>> /\ Len(s1.stack[o]) = 1 /\ s1.stack[o][1].kind = "plain"
  BY <1>1, <1>2, <1>3, Prepared
<1>5. /\ k \in DOMAIN s.dict[o] /\ removing' = removing /\ instance' = instance
      /\ s' = IF InTransaction(s, Top) THEN s2 ELSE Commit(s2, Top)
  BY <1>1, Found, Different DEF RemoveMutable
<1> HIDE DEF s1
<1>6. k \in Leaves
  BY World, Different
<1> HIDE DEF s2
<1>7. /\ Good(s2, NotRemoving) /\ Len(s2.stack[o]) = 1
      /\ \A p \in Objects : p # o => s2.stack[p] = s1.stack[p]
  BY <1>4, <1>5, <1>6, Drops DEF s2
<1>8. Len(s2.stack[Top]) = 1
  BY <1>4, <1>7, Different
<1>9. Good(Commit(s2, Top), NotRemoving)
  BY <1>7, <1>8, CommitOuter
<1>10. Good(s', NotRemoving)
  BY <1>5, <1>7, <1>9
<1> QED BY <1>1, <1>5, <1>10, Outside

(* What the end of the outermost transaction of a client may come to.                   *)
LEMMA OutcomesAre ==
  ASSUME NEW s0, Good(s0, NotRemoving), s0.stack[Top] # <<>>, s0.stack[Top][1].kind = "plain", Liberties = {},
         NEW s1 \in Outcomes(s0)
  PROVE  Good(s1, NotRemoving)
<1> DEFINE f == Current(s0, Top)
<1>1. Len(s0.stack[Top]) = 1 /\ f = s0.stack[Top][1] /\ f.kind = "plain"
  BY OneFrame
<1>2. Good(Commit(s0, Top), NotRemoving)
  BY <1>1, CommitOuter
<1>3. Good(Rollback(s0, Top), NotRemoving)
  <2>1. Away(s0, Top) /\ (s0.stack[Sub] # <<>> => Away(s0, Sub))
    BY AwayUnlessRemoving
  <2> QED BY <1>1, <2>1, RollbackOuter
<1>4. FailedCommit(s0, {}) = Rollback(s0, Top)
  <2>1. CommitSubs(Committing(s0), {}) = Committing(s0)
    BY DEF CommitSubs
  <2>2. Committing(s0) = [s |-> Pop(s0, Top), f |-> f]
    BY <1>1 DEF Committing, RestoreBackup
  <2> QED BY <2>1, <2>2 DEF FailedCommit, Rollback
<1>5. s1 = Commit(s0, Top) \/ s1 = FailedCommit(s0, {})
  BY DEF Outcomes
<1> QED BY <1>2, <1>3, <1>4, <1>5

(* commit(), which may fail when the rules of a new subobject do.                       *)
LEMMA KeepsCommit ==
  ASSUME \A w \in Instances : Strict(w), IInv, NEW o \in {Top, Sub}, CommitTransaction(o)
  PROVE  IInv'
<1>1. /\ removing = NotRemoving /\ Good(s, NotRemoving)
      /\ s.stack[Top] # <<>> => s.stack[Top][1].kind = "plain"
      /\ s.stack[Sub] # <<>> => Current(s, Sub) = s.stack[Sub][1]
  BY IdleIs DEF CommitTransaction
<1>2. removing' = removing /\ instance' = instance
  BY DEF CommitTransaction
<1>3. CASE o = Top
  <2>1. s' \in Outcomes(s) /\ s.stack[Top] # <<>>
    BY <1>3 DEF CommitTransaction, InTransaction
  <2>2. Good(s', NotRemoving)
    BY <1>1, <2>1, World, OutcomesAre
  <2> QED BY <1>1, <1>2, <2>2, Outside
<1>4. CASE o = Sub
  <2>1. s' = Commit(s, Sub) /\ s.stack[Sub] # <<>> /\ ~s.stack[Sub][1].dependent
    BY <1>1, <1>4, Different DEF CommitTransaction, InTransaction
  <2>2. s.stack[Top] = <<>>
    BY <1>1, <2>1 DEF Good, Ties
  <2>3. Good(s', NotRemoving)
    BY <1>1, <2>1, <2>2, CommitDirect
  <2> QED BY <1>1, <1>2, <2>3, Outside
<1> QED BY <1>3, <1>4

(* rollback() by the client.                                                            *)
LEMMA KeepsRollback ==
  ASSUME \A w \in Instances : Strict(w), IInv, NEW o \in {Top, Sub}, RollbackTransaction(o)
  PROVE  IInv'
<1>1. /\ removing = NotRemoving /\ Good(s, NotRemoving)
      /\ s.stack[Top] # <<>> => Len(s.stack[Top]) = 1
      /\ s.stack[Sub] # <<>> => Current(s, Sub) = s.stack[Sub][1]
  BY IdleIs DEF RollbackTransaction
<1>2. removing' = removing /\ instance' = instance /\ s' = Rollback(s, o) /\ s.stack[o] # <<>>
  BY DEF RollbackTransaction, InTransaction
<1>3. CASE o = Top
  <2>1. Away(s, Top) /\ (s.stack[Sub] # <<>> => Away(s, Sub))
    BY <1>1, <1>2, <1>3, AwayUnlessRemoving
  <2>2. Good(s', NotRemoving)
    BY <1>1, <1>2, <1>3, <2>1, RollbackOuter
  <2> QED BY <1>1, <1>2, <2>2, Outside
<1>4. CASE o = Sub
  <2>1. ~s.stack[Sub][1].dependent
    BY <1>1, <1>2, <1>4 DEF RollbackTransaction
  <2>2. s.stack[Top] = <<>>
    BY <1>1, <1>2, <1>4, <2>1 DEF Good, Ties
  <2>3. Good(s', NotRemoving)
    BY <1>1, <1>2, <1>4, <2>2, RollbackDirect
  <2> QED BY <1>1, <1>2, <2>3, Outside
<1> QED BY <1>3, <1>4

(* Without a rule running, remove() has added one transaction for its search.           *)
LEMMA SearchIs ==
  ASSUME NEW s0, NEW rm, Good(s0, rm), rm # NotRemoving, s0.stack[Top] = <<>> \/ Current(s0, Top).kind # "rule"
  PROVE  /\ (rm.by = "own" /\ Len(s0.stack[Top]) = 1 /\ \E x : rm.what = {x})
            \/ (rm.by = "nested" /\ Len(s0.stack[Top]) = 2)
         /\ s0.stack[Top] \in Seq(Frames) /\ s0.stack[Top] # <<>>
         /\ \A n \in DOMAIN s0.stack[Top] : s0.stack[Top][n].kind = "plain"
<1> DEFINE F == s0.stack[Top]
<1>1. F \in Seq(Frames) /\ Shape(F, rm)
  BY StateParts, Different DEF Good
<1> HIDE DEF F
<1>2. /\ \A n \in DOMAIN F : F[n].kind \in {"plain", "rule"}
      /\ \/ rm.by = "own" /\ (\E x : rm.what = {x}) /\ Len(F) \in 1..2 /\ \A n \in DOMAIN F : F[n].kind = "rule" <=> n = 2
         \/ rm.by = "nested" /\ Len(F) \in 2..3 /\ \A n \in DOMAIN F : F[n].kind = "rule" <=> n = 3
  BY <1>1 DEF Shape
<1>3. F # <<>> /\ Len(F) \in DOMAIN F /\ Last(F) = F[Len(F)] /\ DOMAIN F = 1..Len(F)
  BY SMTT(30), <1>1, <1>2, Framed
<1>4. F[Len(F)].kind # "rule"
  BY <1>3 DEF Current, F
<1>5. \/ rm.by = "own" /\ Len(F) = 1 /\ (\E x : rm.what = {x}) /\ \A n \in DOMAIN F : F[n].kind = "plain"
      \/ rm.by = "nested" /\ Len(F) = 2 /\ \A n \in DOMAIN F : F[n].kind = "plain"
  BY <1>2, <1>3, <1>4
<1> QED BY <1>1, <1>3, <1>5 DEF F

(* The end of remove(): what the search for rules has stored is kept as temporary, or   *)
(* everything is rolled back.                                                           *)
LEMMA KeepsEndRemove ==
  ASSUME IInv, NEW allow \in BOOLEAN, EndRemove(allow)
  PROVE  IInv'
<1> DEFINE s1 == Commit(s, Top)
<1>1. Good(s, removing) /\ removing # NotRemoving /\ removing' = NotRemoving /\ instance' = instance
  BY DEF IInv, EndRemove
<1>2. /\ (removing.by = "own" /\ Len(s.stack[Top]) = 1 /\ \E x : removing.what = {x})
         \/ (removing.by = "nested" /\ Len(s.stack[Top]) = 2)
      /\ s.stack[Top] \in Seq(Frames) /\ s.stack[Top] # <<>>
      /\ \A n \in DOMAIN s.stack[Top] : s.stack[Top][n].kind = "plain"
  <2>1. s.stack[Top] = <<>> \/ Current(s, Top).kind # "rule"
    BY DEF EndRemove, RuleRunning, InTransaction
  <2> QED BY <1>1, <2>1, SearchIs
<1>3. /\ ~allow => \E p \in removing.what : ~Has(s, p[1], p[2])
      /\ s' = LET t == IF removing.by = "nested" THEN s1 ELSE s
              IN  IF ~allow THEN Rollback(t, Top) ELSE IF removing.by = "nested" THEN t ELSE Commit(t, Top)
  BY DEF EndRemove
<1> HIDE DEF s1
<1>4. CASE removing.by = "own"
  <2>1. Len(s.stack[Top]) = 1 /\ \E x : removing.what = {x}
    BY <1>2, <1>4
  <2>2. CASE allow
    <3>1. s' = s1
      BY <1>3, <1>4, <2>2 DEF s1
    <3>2. Good(s1, NotRemoving)
      BY <1>1, <2>1, CommitOuter DEF s1
    <3> QED BY <1>1, <3>1, <3>2, Outside
  <2>3. CASE ~allow
    <3>1. s' = Rollback(s, Top)
      BY <1>3, <1>4, <2>3
    <3>2. ASSUME NEW o \in {Top, Sub}, s.stack[o] # <<>>
          PROVE  Away(s, o)
      <4>1. PICK x : removing.what = {x} /\ ~Has(s, x[1], x[2])
        BY <1>3, <2>1, <2>3
      <4>2. \A k \in Free(o, removing) : k \notin DOMAIN s.dict[o]
        <5> SUFFICES ASSUME NEW k \in Keys, <<o, k>> \in removing.what PROVE k \notin DOMAIN s.dict[o]
          BY DEF Free
        <5>1. x = <<o, k>>
          BY <4>1
        <5>2. ~Has(s, o, k)
          BY <4>1, <5>1
        <5> QED BY <1>1, <5>2, Found, Different
      <4>3. Reserved(s.dict[o], s.stack[o][1], Free(o, removing))
        BY <1>1, <3>2 DEF Good, Part, Stacked, FirstFits
      <4> QED BY <4>2, <4>3 DEF Reserved, Away
    <3>3. Good(s', NotRemoving)
      BY <1>1, <1>2, <2>1, <3>1, <3>2, RollbackOuter
    <3> QED BY <1>1, <3>3, Outside
  <2> QED BY <2>2, <2>3
<1>5. CASE removing.by = "nested"
  <2>1. Len(s.stack[Top]) = 2
    BY <1>2, <1>5
  <2>2. \A o \in {Top, Sub} : Free(o, NotRemoving) = Free(o, removing)
    BY <1>5 DEF Free, NotRemoving
  <2>3. Shape(Pop(s, Top).stack[Top], NotRemoving)
    <3> DEFINE G == Pop(s, Top).stack[Top]
               F == s.stack[Top]
    <3>1. s \in States
      BY <1>1 DEF Good
    <3>2. Len(G) = Len(F) - 1 /\ DOMAIN G = 1..(Len(F) - 1) /\ \A n \in DOMAIN G : G[n] = F[n]
      BY <1>2, <3>1, PopIs, Different
    <3>3. DOMAIN F = 1..Len(F) /\ \A n \in DOMAIN F : F[n].kind = "plain"
      BY <1>2
    <3> HIDE DEF F, G
    <3>4. Len(F) = 2
      BY <2>1 DEF F
    <3>5. Len(G) = 1 /\ DOMAIN G = {1} /\ G[1].kind = "plain"
      BY <3>2, <3>3, <3>4
    <3> QED BY <3>5, ShapeOne DEF G
  <2>4. Good(s1, NotRemoving) /\ Len(s1.stack[Top]) = 1
    <3>1. Len(s.stack[Top]) >= 2
      BY <2>1
    <3>2. Good(s1, NotRemoving) /\ Len(s1.stack[Top]) = Len(s.stack[Top]) - 1
      BY <1>1, <2>2, <2>3, <3>1, CommitInner DEF s1
    <3> QED BY <2>1, <3>2
  <2>5. Good(Rollback(s1, Top), NotRemoving)
    <3>1. s1.stack[Top] # <<>>
      <4>1. s1.stack[Top] \in Seq(Frames)
        BY <2>4, StateParts, Different DEF Good
      <4> QED BY <2>4, <4>1, OneLong
    <3>2. Away(s1, Top) /\ (s1.stack[Sub] # <<>> => Away(s1, Sub))
      BY <2>4, <3>1, AwayUnlessRemoving
    <3> QED BY <2>4, <3>2, RollbackOuter
  <2>6. Good(s', NotRemoving)
    BY <1>3, <1>5, <2>4, <2>5
  <2> QED BY <1>1, <2>6, Outside
<1> QED BY <1>2, <1>4, <1>5

(* A transaction within another one.                                                    *)
LEMMA PushesInner ==
  ASSUME NEW s0, NEW rm, Good(s0, rm), s0.stack[Top] # <<>>, NEW e \in Frames, e.end = Len(s0.contents[Top]),
         DOMAIN e.backup = {}, \A p \in Objects : e.temps.gap[p] = 0, e.subs = {}, e.outputs = {},
         NEW rm1, \A o \in {Top, Sub} : Free(o, rm1) = Free(o, rm), Shape(Append(s0.stack[Top], e), rm1)
  PROVE  LET s1 == Push(s0, Top, e)
         IN  /\ Good(s1, rm1) /\ Same(s1, s0) /\ \A p \in Objects : p # Top => s1.stack[p] = s0.stack[p]
             /\ Len(s1.stack[Top]) = Len(s0.stack[Top]) + 1 /\ s1.stack[Top] # <<>> /\ Current(s1, Top) = e
             /\ \A n \in DOMAIN s1.stack[Top] :
                  (n \in DOMAIN s0.stack[Top] /\ s1.stack[Top][n] = s0.stack[Top][n]) \/ s1.stack[Top][n] = e
<1> DEFINE F  == s0.stack[Top]
           s1 == Push(s0, Top, e)
           G  == s1.stack[Top]
           l  == Len(F)
<1>0. Top \in Objects /\ Sub \in Objects /\ Extra \in Objects /\ Top # Sub /\ Top # Extra /\ Sub # Extra
  BY Different
<1>1. /\ s0 \in States /\ Part(s0, Top, rm) /\ Part(s0, Sub, rm) /\ Ties(s0) /\ Outputs(s0) /\ Links(s0) /\ OwnGaps(s0)
      /\ F \in Seq(Frames)
  BY <1>0, StateParts DEF Good
<1>2. /\ s1 \in States /\ Same(s1, s0) /\ (\A p \in Objects : p # Top => s1.stack[p] = s0.stack[p])
      /\ G = Append(F, e) /\ Len(G) = l + 1 /\ G # <<>> /\ Current(s1, Top) = e
      /\ DOMAIN G = 1..(l + 1) /\ G[l + 1] = e /\ \A n \in DOMAIN F : G[n] = F[n]
  <2>1. s1 = Push(s0, Top, e) /\ e \in Frames /\ s0 \in States /\ Top \in Objects
    BY <1>0, <1>1
  <2> HIDE DEF s1
  <2>2. /\ s1 \in States /\ Same(s1, s0) /\ (\A p \in Objects : p # Top => s1.stack[p] = s0.stack[p])
        /\ s1.stack[Top] = Append(s0.stack[Top], e) /\ Len(s1.stack[Top]) = Len(s0.stack[Top]) + 1 /\ s1.stack[Top] # <<>>
        /\ DOMAIN s1.stack[Top] = 1..(Len(s0.stack[Top]) + 1)
        /\ s1.stack[Top][Len(s0.stack[Top]) + 1] = e
    BY ONLY <2>1, PushIs
  <2>3. Current(s1, Top) = e
    BY ONLY <2>1, PushIs
  <2>4. \A n \in DOMAIN s0.stack[Top] : s1.stack[Top][n] = s0.stack[Top][n]
    BY ONLY <2>1, PushIs
  <2> HIDE DEF s1
  <2> QED BY <2>2, <2>3, <2>4
<1>3. l \in Nat /\ l >= 1 /\ DOMAIN F = 1..l /\ F # <<>>
  <2> HIDE DEF F
  <2>1. F # <<>>
    BY DEF F
  <2> QED BY <1>1, <2>1, Framed
<1> HIDE DEF F, s1, G, l
<1>4. (\A n \in DOMAIN G : (n \in DOMAIN F /\ G[n] = F[n]) \/ G[n] = e) /\ 1 \in DOMAIN F /\ G[1] = F[1]
  BY <1>2, <1>3
<1>5. Part(s1, Top, rm1)
  <2>1. Part(s1, Top, rm)
    <3>1. s1.stack[Top] = Append(s0.stack[Top], e)
      BY <1>2 DEF G, F
    <3>2. s1.contents[Top] = s0.contents[Top] /\ s1.dict[Top] = s0.dict[Top] /\ s1.cleanup.gap[Top] = s0.cleanup.gap[Top]
      BY <1>2 DEF Same
    <3>3. e.temps.gap[Top] = 0
      BY <1>0
    <3> QED BY ONLY <1>0, <1>1, <1>2, <3>1, <3>2, <3>3, PartPush, e \in Frames, e.end = Len(s0.contents[Top]), DOMAIN e.backup = {}
  <2> QED BY <2>1 DEF Part
<1>6. Part(s1, Sub, rm1)
  BY <1>0, <1>1, <1>2 DEF Part, Same
<1>7. Shape(s1.stack[Top], rm1)
  BY <1>2 DEF G, F
<1>8. Sub \in DOMAIN s0.dict[Top] => s0.dict[Top][Sub] <= e.end
  <2> SUFFICES ASSUME Sub \in DOMAIN s0.dict[Top] PROVE s0.dict[Top][Sub] <= e.end
    OBVIOUS
  <2>1. s0.dict[Top][Sub] \in DOMAIN s0.contents[Top]
    BY <1>1 DEF Part, Stacked, Whole
  <2>2. s0.contents[Top] \in Contents
    BY <1>0, <1>1, StateParts
  <2> QED BY <2>1, <2>2, Sequence
<1>9. Extra \in DOMAIN s0.dict[Top] => s0.dict[Top][Extra] <= e.end
  <2> SUFFICES ASSUME Extra \in DOMAIN s0.dict[Top] PROVE s0.dict[Top][Extra] <= e.end
    OBVIOUS
  <2>1. s0.dict[Top][Extra] \in DOMAIN s0.contents[Top]
    BY <1>1 DEF Part, Stacked, Whole
  <2>2. s0.contents[Top] \in Contents
    BY <1>0, <1>1, StateParts
  <2> QED BY <2>1, <2>2, Sequence
<1>10. s1.dict = s0.dict /\ s1.contents = s0.contents /\ s1.parent = s0.parent
       /\ s1.stack[Sub] = s0.stack[Sub] /\ s1.stack[Extra] = s0.stack[Extra] /\ s1.stack[Top] = G /\ s0.stack[Top] = F
  BY <1>0, <1>2 DEF Same, G, F
<1>11. Ties(s1)
  <2>1. \A n \in DOMAIN G : n > 1 => G[n].subs = {}
    BY <1>1, <1>4, <1>10 DEF Ties
  <2>2. /\ Len(s0.stack[Sub]) <= 1
        /\ s0.stack[Sub] # <<>> =>
             IF s0.stack[Sub][1].dependent THEN G # <<>> /\ Sub \in G[1].subs /\ s0.stack[Sub][1].kind = G[1].kind
             ELSE G = <<>> /\ s0.stack[Sub][1].kind = "plain"
        /\ Sub \in G[1].subs => s0.stack[Sub] # <<>> /\ Sub \in DOMAIN s0.dict[Top]
    BY <1>1, <1>2, <1>3, <1>4, <1>10 DEF Ties
  <2>3. Extra \in G[1].subs =>
           /\ G[1].kind = "plain" /\ Len(s0.stack[Extra]) = 1 /\ s0.stack[Extra][1].kind = "init" /\ s0.stack[Extra][1].end = 0
           /\ Extra \in DOMAIN s0.dict[Top] /\ s0.dict[Top][Extra] > G[1].end
           /\ \A n \in DOMAIN F : n > 1 => s0.dict[Top][Extra] <= F[n].end
    BY <1>1, <1>3, <1>4, <1>10 DEF Ties
  <2>4. Extra \in G[1].subs => \A n \in DOMAIN G : n > 1 => s0.dict[Top][Extra] <= G[n].end
    BY <1>4, <1>9, <2>3
  <2> QED BY <1>10, <2>1, <2>2, <2>3, <2>4 DEF Ties
<1>12. Outputs(s1)
  <2>1. \A n \in DOMAIN G : G[n].kind = "rule" => G[n].outputs \subseteq DOMAIN s0.dict[Top]
    <3>1. \A n \in DOMAIN F : F[n].kind = "rule" => F[n].outputs \subseteq DOMAIN s0.dict[Top]
      BY <1>1, <1>10 DEF Outputs
    <3> QED BY <1>4, <3>1
  <2> QED BY <1>1, <1>10, <2>1 DEF Outputs
<1>13. Links(s1)
  <2>1. Sub \in s1.parent /\ (Extra \in DOMAIN s1.dict[Top] => Extra \in s1.parent)
        /\ DOMAIN s1.dict[Sub] \subseteq Leaves /\ Whole(s1.contents[Extra], s1.dict[Extra])
    BY <1>1, <1>10 DEF Links
  <2>2. ASSUME NEW n \in DOMAIN s1.stack[Top], Sub \in DOMAIN s1.dict[Top]
        PROVE  s1.dict[Top][Sub] <= s1.stack[Top][n].end
    <3>1. CASE n \in DOMAIN F /\ G[n] = F[n]
      BY <1>1, <1>10, <2>2, <3>1 DEF Links
    <3>2. CASE G[n] = e
      BY <1>8, <1>10, <2>2, <3>2
    <3> QED BY <1>4, <1>10, <3>1, <3>2
  <2>3. ASSUME NEW p \in {Top, Sub}, NEW n \in DOMAIN s1.stack[p], NEW j \in DOMAIN s1.stack[p][n].backup,
               j <= s1.stack[p][n].end
        PROVE  s1.stack[p][n].backup[j][1] \in Leaves
    <3>1. CASE p = Top /\ G[n] = e
      BY <1>10, <2>3, <3>1
    <3>2. CASE p = Top /\ n \in DOMAIN F /\ G[n] = F[n]
      BY <1>1, <1>10, <2>3, <3>2 DEF Links
    <3>3. CASE p = Sub
      BY <1>1, <1>10, <2>3, <3>3 DEF Links
    <3> QED BY <1>4, <1>10, <3>1, <3>2, <3>3
  <2> QED BY <2>1, <2>2, <2>3 DEF Links
<1>14. OwnGaps(s1)
  <2>1. ASSUME NEW q \in Objects, NEW p \in {Top, Sub}, p # q, NEW n \in DOMAIN s1.stack[q]
        PROVE  s1.stack[q][n].temps.gap[p] = 0
    <3>1. CASE q = Top /\ G[n] = e
      BY <1>0, <1>10, <3>1
    <3>2. CASE q = Top /\ n \in DOMAIN F /\ G[n] = F[n]
      BY <1>1, <1>10, <2>1, <3>2 DEF OwnGaps
    <3>3. CASE q # Top
      BY <1>1, <1>2, <2>1, <3>3 DEF OwnGaps
    <3> QED BY <1>4, <1>10, <3>1, <3>2, <3>3
  <2> QED BY <1>1, <1>10, <2>1 DEF OwnGaps
<1>15. Good(s1, rm1)
  BY <1>2, <1>5, <1>6, <1>7, <1>11, <1>12, <1>13, <1>14 DEF Good
<1>16. Len(G) = Len(F) + 1
  BY <1>2 DEF l
<1> QED BY <1>2, <1>4, <1>15, <1>16 DEF s1, F, G

\* The properties that remove() drops.
DropsAll(s0, what) == FoldSet(LAMBDA p, s1 : Drop(Reach(s1, p[1]), p[1], p[2]), s0, what)

(* If there is only one, it is dropped.                                                 *)
LEMMA OneDropped ==
  ASSUME NEW x, NEW s0
  PROVE  DropsAll(s0, {x}) = Drop(Reach(s0, x[1]), x[1], x[2])
<1> DEFINE op(p, s1) == Drop(Reach(s1, p[1]), p[1], p[2])
           S == {x}
           Eq(h) == h = [t \in SUBSET S |-> IF t = {} THEN s0 ELSE op(CHOOSE y \in t : TRUE, h[t \ {CHOOSE y \in t : TRUE}])]
           f == CHOOSE h : Eq(h)
           g == [t \in SUBSET S |-> IF t = {} THEN s0 ELSE op(x, s0)]
<1>1. DropsAll(s0, {x}) = f[S]
  BY DEF DropsAll, FoldSet, MapThenFoldSet
<1>2. \A t \in SUBSET S : t # {} => (CHOOSE y \in t : TRUE) = x /\ t \ {x} = {} /\ t = S
  <2> SUFFICES ASSUME NEW t \in SUBSET S, t # {} PROVE (CHOOSE y \in t : TRUE) = x /\ t \ {x} = {} /\ t = S
    OBVIOUS
  <2>1. t = {x}
    OBVIOUS
  <2>2. (CHOOSE y \in t : TRUE) \in t
    OBVIOUS
  <2> QED BY <2>1, <2>2
<1> HIDE DEF op
<1>3. \A h : Eq(h) <=> h = [t \in SUBSET S |-> IF t = {} THEN s0 ELSE op(x, h[{}])]
  BY <1>2
<1>4. g[{}] = s0
  OBVIOUS
<1>5. Eq(g)
  BY <1>3, <1>4
<1>6. Eq(f)
  <2> HIDE DEF Eq
  <2> QED BY <1>5
<1>7. f[{}] = s0 /\ f[S] = op(x, f[{}])
  <2> HIDE DEF f
  <2> QED BY <1>3, <1>6
<1> QED BY <1>1, <1>7 DEF op

(* A finite set without two elements.                                                   *)
LEMMA OneElement ==
  ASSUME NEW S, IsFiniteSet(S), S # {}, ~(Cardinality(S) > 1)
  PROVE  \E x : S = {x}
<1>1. PICK x : x \in S
  OBVIOUS
<1>2. Cardinality(S \ {x}) = Cardinality(S) - 1 /\ Cardinality(S) \in Nat /\ Cardinality(S \ {x}) \in Nat
  BY <1>1, OneLess
<1>3. Cardinality(S \ {x}) = 0
  BY <1>2
<1>4. IsFiniteSet(S \ {x})
  BY FS_Subset
<1>5. S \ {x} = {}
  BY <1>3, <1>4, FS_EmptySet
<1> QED BY <1>1, <1>5

(* A state that is good when nothing is removed is also good when something is.         *)
LEMMA GoodAlso ==
  ASSUME NEW s0, Good(s0, NotRemoving), NEW rm, Shape(s0.stack[Top], rm)
  PROVE  Good(s0, rm)
<1>1. \A o \in {Top, Sub} : Free(o, NotRemoving) = {}
  BY DEF Free, NotRemoving
<1>2. ASSUME NEW o \in {Top, Sub}
      PROVE  Part(s0, o, rm)
  <2>1. Part(s0, o, NotRemoving)
    BY DEF Good
  <2> QED BY <1>1, <2>1 DEF Part, Stacked, FirstFits, Reserved
<1>3. Part(s0, Top, rm) /\ Part(s0, Sub, rm)
  BY <1>2
<1> QED BY <1>3 DEF Good

(* All changes of the current transaction will be temporary.                            *)
LEMMA MakesTemporary ==
  ASSUME NEW s0, NEW rm, Good(s0, rm), s0.stack[Top] # <<>>
  PROVE  LET s1 == SetFrame(s0, Top, [Current(s0, Top) EXCEPT !.temporary = TRUE])
         IN  Good(s1, rm) /\ Flags(s1, s0)
<1> DEFINE F == s0.stack[Top]
           f == Current(s0, Top)
           e == [f EXCEPT !.temporary = TRUE]
<1>1. f \in Frames
  <2>1. F \in Seq(Frames) /\ F # <<>>
    BY StateParts, Different DEF Good
  <2> HIDE DEF F
  <2>2. Last(F) \in Frames
    BY <2>1, Framed
  <2> QED BY <2>2 DEF Current, F
<1> HIDE DEF f
<1>2. e \in Frames /\ Flagged(e, f) /\ SameGaps(e, f)
  BY <1>1 DEF Frames, Flagged, Alike, SameGaps
<1> HIDE DEF e
<1>3. Top \in Objects /\ Flagged(e, Current(s0, Top)) /\ SameGaps(e, Current(s0, Top))
  BY <1>2, Different DEF f
<1>4. Good(SetFrame(s0, Top, e), rm) /\ Flags(SetFrame(s0, Top, e), s0)
  BY <1>2, <1>3, Flaggings
<1> QED BY <1>4 DEF e, f

(* The start of remove(): the property is dropped, and a transaction isolates the       *)
(* search for rules that reconstruct it.                                                *)
LEMMA KeepsStartRemove ==
  ASSUME \A w \in Instances : Strict(w), IInv,
         NEW what \in (SUBSET ({Top, Sub} \X (Leaves \ Mutable))) \ {{}}, StartRemove(what)
  PROVE  IInv'
<1> DEFINE own == ~InTransaction(s, Top)
           rm  == [by |-> IF own THEN "own" ELSE "nested", what |-> what]
<1>0. Top \in Objects /\ Sub \in Objects /\ Extra \in Objects /\ Top # Sub /\ Top # Extra /\ Sub # Extra /\ Leaves \subseteq Keys
  BY Different
<1>1. /\ removing = NotRemoving /\ Good(s, NotRemoving)
      /\ s.stack[Top] # <<>> => s.stack[Top][1].kind = "plain"
  BY IdleIs DEF StartRemove
<1>2. PICK x : what = {x}
  <2>1. IsFiniteSet({Top, Sub} \X (Leaves \ Mutable))
    <3>1. IsFiniteSet(Leaves \ Mutable)
      BY TransactionAssumption, FS_Subset
    <3>2. IsFiniteSet({Top, Sub})
      <4>1. IsFiniteSet({Top})
        BY FS_Singleton
      <4>2. {Top, Sub} = {Top} \cup {Sub}
        OBVIOUS
      <4> QED BY <4>1, <4>2, FS_AddElement
    <3> QED BY <3>1, <3>2, FS_Product
  <2>2. IsFiniteSet(what)
    BY <2>1, FS_Subset
  <2>3. ~(Cardinality(what) > 1)
    BY World DEF StartRemove
  <2>4. what # {}
    OBVIOUS
  <2> QED BY ONLY <2>2, <2>3, <2>4, OneElement
<1> DEFINE o  == x[1]
           k  == x[2]
           t1 == Reach(Opened(s, Top), o)
           t2 == Drop(t1, o, k)
           s2 == IF own THEN t2 ELSE Begin(t2, Top)
<1>3. o \in {Top, Sub} /\ k \in Leaves /\ x = <<o, k>>
  BY <1>2
<1>4. /\ InTree(o) /\ Has(s, o, k) /\ (own => FreeFor(Top)) /\ removing' = rm /\ instance' = instance
      /\ s' = SetFrame(s2, Top, [Current(s2, Top) EXCEPT !.temporary = TRUE])
  <2>1. DropsAll(Opened(s, Top), what) = t2
    BY <1>2, OneDropped
  <2>2. /\ InTree(o) /\ Has(s, o, k) /\ (own => FreeFor(Top)) /\ removing' = rm /\ instance' = instance
    BY <1>2 DEF StartRemove
  <2>3. s' = LET u == IF own THEN DropsAll(Opened(s, Top), what) ELSE Begin(DropsAll(Opened(s, Top), what), Top)
             IN  SetFrame(u, Top, [Current(u, Top) EXCEPT !.temporary = TRUE])
    BY DEF StartRemove, DropsAll
  <2> HIDE DEF t2
  <2> QED BY <2>1, <2>2, <2>3
<1>5. (o = Sub => Sub \in DOMAIN s.dict[Top]) /\ k \in DOMAIN s.dict[o]
  BY <1>0, <1>1, <1>3, <1>4, Found DEF InTree
<1>6. s.stack[Top] = <<>> => s.stack[Sub] = <<>>
  BY <1>0, <1>4, World DEF FreeFor, InTransaction
<1> HIDE DEF o, k, s2, t2, t1, rm
<1>7. /\ Good(t1, NotRemoving) /\ t1.dict = s.dict
      /\ Len(t1.stack[Top]) = 1 /\ t1.stack[Top][1].kind = "plain"
      /\ t1.stack[o] # <<>> /\ t1.stack[o][1].kind = "plain" /\ Len(t1.stack[o]) = 1
      /\ s.stack[Top] = <<>> => \A p \in {Top, Sub} : \A n \in DOMAIN t1.stack[p] : DOMAIN t1.stack[p][n].backup = {}
  BY <1>1, <1>3, <1>5, <1>6, Prepared DEF t1
<1>8. /\ Good(t2, NotRemoving) /\ Len(t2.stack[o]) = 1 /\ t2.stack[o] # <<>> /\ t2.stack[o][1].kind = "plain"
      /\ \A p \in Objects : p # o => t2.stack[p] = t1.stack[p]
      /\ \A j \in DOMAIN t2.stack[o][1].backup : t2.stack[o][1].backup[j][1] = k \/ j \in DOMAIN t1.stack[o][1].backup
  BY <1>3, <1>5, <1>7, Drops DEF t2
<1>9. Len(t2.stack[Top]) = 1 /\ t2.stack[Top][1].kind = "plain"
  BY <1>0, <1>3, <1>7, <1>8
<1>10. t2.stack[Top] \in Seq(Frames) /\ t2.stack[Sub] \in Seq(Frames)
  BY <1>0, <1>8, StateParts DEF Good
<1>11. DOMAIN t2.stack[Top] = {1} /\ t2.stack[Top] # <<>>
  BY <1>9, <1>10, OneLong
<1>12. CASE own
  <2>1. s2 = t2 /\ rm = [by |-> "own", what |-> {x}] /\ s.stack[Top] = <<>>
    BY <1>2, <1>12 DEF s2, rm, InTransaction
  <2>2. Good(s', NotRemoving) /\ Flags(s', t2)
    BY <1>4, <1>8, <1>11, <2>1, MakesTemporary
  <2>3. Shape(s'.stack[Top], rm)
    <3> DEFINE G == s'.stack[Top]
    <3>1. Len(G) = Len(t2.stack[Top]) /\ G[1].kind = t2.stack[Top][1].kind /\ G \in Seq(Frames)
      BY <1>0, <1>11, <2>2, StateParts DEF Flags, Flagged, Alike, Good
    <3>2. Len(G) = 1 /\ G[1].kind = "plain"
      BY <1>9, <3>1
    <3> HIDE DEF G
    <3>3. DOMAIN G = {1}
      BY <3>1, <3>2, OneLong
    <3>4. Shape(G, rm)
      BY <2>1, <3>2, <3>3 DEF Shape
    <3> QED BY <3>4 DEF G
  <2>4. Good(s', rm)
    BY <2>2, <2>3, GoodAlso
  <2>5. Owned(s', rm)
    <3> SUFFICES ASSUME NEW p \in {Top, Sub}, NEW n \in DOMAIN s'.stack[p], NEW i \in DOMAIN s'.stack[p][n].backup
                 PROVE  s'.stack[p][n].backup[i][1] \in Free(p, rm)
      BY DEF Owned
    <3>1. n \in DOMAIN t2.stack[p] /\ s'.stack[p][n].backup = t2.stack[p][n].backup
      <4>1. s'.stack[p] \in Seq(Frames) /\ t2.stack[p] \in Seq(Frames) /\ Len(s'.stack[p]) = Len(t2.stack[p])
        BY <1>0, <1>10, <2>2, StateParts DEF Good, Flags
      <4>2. DOMAIN s'.stack[p] = DOMAIN t2.stack[p]
        BY <4>1
      <4> QED BY <1>0, <2>2, <4>2 DEF Flags, Flagged, Alike
    <3>2. CASE p = o
      <4>1. DOMAIN t2.stack[o] = {1} /\ DOMAIN t1.stack[o] = {1}
        <5>1. t2.stack[o] \in Seq(Frames) /\ t1.stack[o] \in Seq(Frames)
          BY <1>0, <1>3, <1>7, <1>8, StateParts DEF Good
        <5> QED BY <1>7, <1>8, <5>1, OneLong
      <4>2. n = 1 /\ DOMAIN t1.stack[o][1].backup = {}
        BY <1>3, <1>7, <2>1, <3>1, <3>2, <4>1
      <4>3. t2.stack[o][1].backup[i][1] = k
        BY <1>8, <3>1, <3>2, <4>2
      <4>4. k \in Free(o, rm)
        BY <1>0, <1>3, <2>1 DEF Free
      <4> QED BY <3>1, <3>2, <4>2, <4>3, <4>4
    <3>3. CASE p # o
      <4>1. t2.stack[p] = t1.stack[p]
        BY <1>0, <1>8, <3>3
      <4>2. DOMAIN t1.stack[p][n].backup = {}
        BY <1>7, <2>1, <3>1, <4>1
      <4> QED BY <3>1, <4>1, <4>2
    <3> QED BY <3>2, <3>3
  <2> QED BY <1>4, <2>4, <2>5 DEF IInv
<1>13. CASE ~own
  <2> DEFINE e == NewFrame(t2, Top, "plain", FALSE)
  <2>1. s2 = Push(t2, Top, e) /\ rm.by = "nested" /\ rm # NotRemoving
    BY <1>13 DEF s2, rm, Begin, NotRemoving
  <2>2. /\ e \in Frames /\ e.kind = "plain" /\ e.subs = {} /\ e.outputs = {}
        /\ e.end = Len(t2.contents[Top]) /\ DOMAIN e.backup = {} /\ \A p \in Objects : e.temps.gap[p] = 0
    <3> DEFINE kind == "plain"
               dep == FALSE
    <3>1. kind \in {"plain", "init", "rule"} /\ dep \in BOOLEAN /\ kind # "init" /\ t2 \in States
      BY <1>8 DEF Good
    <3>2. e = NewFrame(t2, Top, kind, dep)
      OBVIOUS
    <3> HIDE DEF kind, dep, e
    <3>3. /\ e \in Frames /\ e.kind = kind /\ e.subs = {} /\ e.outputs = {}
          /\ e.end = Len(t2.contents[Top]) /\ DOMAIN e.backup = {} /\ \A p \in Objects : e.temps.gap[p] = 0
      BY ONLY <1>0, <3>1, <3>2, NewFrameIs
    <3> QED BY <3>3 DEF kind
  <2> HIDE DEF e
  <2>3. Shape(Append(t2.stack[Top], e), rm)
    <3> DEFINE F == t2.stack[Top]
               G == Append(F, e)
    <3>1. F \in Seq(Frames) /\ Len(F) = 1 /\ F[1].kind = "plain"
      BY <1>9, <1>10
    <3> HIDE DEF F
    <3>4. Len(G) = Len(F) + 1 /\ DOMAIN G = 1..(Len(F) + 1) /\ G[Len(F) + 1] = e /\ \A n \in 1..Len(F) : G[n] = F[n]
      <4>1. F \in Seq(Frames) /\ e \in Frames
        BY <2>2, <3>1
      <4> QED BY ONLY <4>1
    <3>2. Len(G) = 2 /\ DOMAIN G = {1, 2} /\ G[1] = F[1] /\ G[2] = e
      <4> HIDE DEF G
      <4> QED BY <3>1, <3>4
    <3> HIDE DEF G
    <3>5. Shape(G, rm)
      BY <2>1, <2>2, <3>1, <3>2 DEF Shape
    <3> QED BY <3>5 DEF G, F
  <2>4. \A p \in {Top, Sub} : Free(p, rm) = Free(p, NotRemoving)
    BY <2>1 DEF Free, NotRemoving
  <2>5. Good(s2, rm) /\ s2.stack[Top] # <<>>
    BY <1>8, <1>11, <2>1, <2>2, <2>3, <2>4, PushesInner
  <2>6. Good(s', rm)
    BY <1>4, <2>5, MakesTemporary
  <2>7. Owned(s', rm)
    BY <2>1 DEF Owned
  <2> QED BY <1>4, <2>6, <2>7 DEF IInv
<1> QED BY <1>12, <1>13

(* The transaction of a multiple subobject is given up, and its part in that of its     *)
(* parent.                                                                              *)
LEMMA Unties ==
  ASSUME NEW s0, Good(s0, NotRemoving), s0.stack[Top] # <<>>, s0.stack[Extra] # <<>>
  PROVE  LET s2 == RollbackSub(s0, Extra)
             s1 == SetFrame(s2, Top, [Current(s2, Top) EXCEPT !.subs = @ \ {Extra}])
         IN  /\ Good(s1, NotRemoving) /\ s1.dict[Top] = s0.dict[Top] /\ s1.parent = s0.parent
             /\ s1.stack[Top] # <<>> /\ Extra \notin s1.stack[Top][1].subs
             /\ s1.stack[Top][1].kind = s0.stack[Top][1].kind /\ s1.stack[Top][1].end = s0.stack[Top][1].end
<1> DEFINE rm == NotRemoving
           F  == s0.stack[Extra]
           g  == Current(s0, Extra)
           sp == Pop(s0, Extra)
           f  == s0.stack[Top][1]
           e  == [f EXCEPT !.subs = @ \ {Extra}]
           s2 == RollbackSub(s0, Extra)
           s1 == SetFrame(s2, Top, [Current(s2, Top) EXCEPT !.subs = @ \ {Extra}])
<1>0. Top \in Objects /\ Sub \in Objects /\ Extra \in Objects /\ Top # Sub /\ Top # Extra /\ Sub # Extra
  BY Different
<1>1. /\ s0 \in States /\ Part(s0, Top, rm) /\ Part(s0, Sub, rm) /\ Shape(s0.stack[Top], rm) /\ Ties(s0) /\ Outputs(s0)
      /\ Links(s0) /\ OwnGaps(s0)
  BY DEF Good, rm
<1>2. F \in Seq(Frames) /\ F # <<>> /\ s0.contents \in [Objects -> Contents] /\ s0.dict \in [Objects -> Dicts]
      /\ s0.stack[Top] \in Seq(Frames)
  BY <1>0, <1>1, StateParts
<1>3. g.end = 0
  <2> HIDE DEF F
  <2>1. Len(F) \in DOMAIN F /\ Last(F) = F[Len(F)]
    BY <1>2, Framed
  <2>2. \A n \in DOMAIN F : F[n].end = 0
    BY <1>1 DEF OwnGaps, F
  <2> QED BY <2>1, <2>2 DEF Current, F
<1>4. /\ Len(s0.stack[Top]) = 1 /\ DOMAIN s0.stack[Top] = {1} /\ f \in Frames /\ Current(s0, Top) = f
      /\ f.kind \in {"plain", "rule"}
  BY OneFrame
<1>5. /\ sp \in States /\ Same(sp, s0) /\ (\A p \in Objects : p # Extra => sp.stack[p] = s0.stack[p])
      /\ (\A n \in DOMAIN sp.stack[Extra] : n \in DOMAIN F /\ sp.stack[Extra][n] = F[n])
  <2> DEFINE G == sp.stack[Extra]
  <2>1. /\ sp \in States /\ Same(sp, s0) /\ (\A p \in Objects : p # Extra => sp.stack[p] = s0.stack[p])
        /\ DOMAIN G = 1..(Len(F) - 1) /\ (\A n \in DOMAIN G : G[n] = F[n])
    BY <1>0, <1>1, PopIs
  <2> HIDE DEF F, G, sp
  <2>2. DOMAIN F = 1..Len(F) /\ Len(F) \in Nat
    BY <1>2, Framed
  <2>3. \A n \in DOMAIN G : n \in DOMAIN F /\ G[n] = F[n]
    BY <2>1, <2>2
  <2> QED BY <2>1, <2>3 DEF G
<1>6. s2 = [sp EXCEPT !.contents[Extra] = <<>>, !.dict[Extra] = <<>>]
  <2>1. InTransaction(s0, Extra)
    BY DEF InTransaction
  <2> HIDE DEF sp, g
  <2> QED BY <1>3, <2>1 DEF RollbackSub, Restored, sp, g
<1> HIDE DEF sp, s2
<1>7. /\ s2 \in States /\ s2.stack = sp.stack /\ s2.parent = s0.parent /\ s2.cleanup = s0.cleanup
      /\ s2.contents = [s0.contents EXCEPT ![Extra] = <<>>] /\ s2.dict = [s0.dict EXCEPT ![Extra] = <<>>]
  <2>1. <<>> \in Contents
    BY DEF Contents
  <2>2. <<>> \in Dicts
    <3>1. <<>> \in [{} -> Nat]
      OBVIOUS
    <3> QED BY <3>1 DEF Dicts
  <2>3. sp.contents = s0.contents /\ sp.dict = s0.dict /\ sp.parent = s0.parent /\ sp.cleanup = s0.cleanup
    BY <1>5 DEF Same
  <2>4. s2 = [sp EXCEPT !.contents = [s0.contents EXCEPT ![Extra] = <<>>], !.dict = [s0.dict EXCEPT ![Extra] = <<>>]]
    BY <1>5, <1>6, <2>3 DEF States
  <2>5. [s0.contents EXCEPT ![Extra] = <<>>] \in [Objects -> Contents] /\ [s0.dict EXCEPT ![Extra] = <<>>] \in [Objects -> Dicts]
    BY <1>2, <2>1, <2>2
  <2> QED BY <1>5, <2>3, <2>4, <2>5 DEF States
<1>8. s2.stack[Top] = s0.stack[Top] /\ Current(s2, Top) = f
  BY <1>0, <1>4, <1>5, <1>7 DEF Current
<1>9. e \in Frames /\ Alike(e, f) /\ e.subs = f.subs \ {Extra} /\ e.temps = f.temps /\ e.outputs = f.outputs
      /\ e.dependent = f.dependent /\ e.kind = f.kind /\ e.end = f.end
  <2>1. f.subs \ {Extra} \in SUBSET {Sub, Extra}
    BY <1>4, Fields
  <2> QED BY <1>4, <2>1 DEF Frames, Alike
<1>10. s1 = SetFrame(s2, Top, e)
  BY <1>8
<1> HIDE DEF s1, e, g
<1>11. /\ s1 \in States /\ Same(s1, s2) /\ (\A p \in Objects : p # Top => s1.stack[p] = s2.stack[p])
       /\ Len(s1.stack[Top]) = Len(s2.stack[Top]) /\ s1.stack[Top] # <<>>
       /\ DOMAIN s1.stack[Top] = DOMAIN s2.stack[Top] /\ s1.stack[Top][Len(s2.stack[Top])] = e
  <2>1. s2.stack[Top] # <<>>
    BY <1>8
  <2> QED BY <1>0, <1>7, <1>9, <1>10, <2>1, SetFrameIs
<1>12. /\ DOMAIN s1.stack[Top] = {1} /\ s1.stack[Top][1] = e /\ Len(s1.stack[Top]) = Len(s0.stack[Top])
       /\ s1.stack[Sub] = s0.stack[Sub] /\ s1.stack[Extra] = sp.stack[Extra]
       /\ s1.contents[Top] = s0.contents[Top] /\ s1.dict[Top] = s0.dict[Top]
       /\ s1.contents[Sub] = s0.contents[Sub] /\ s1.dict[Sub] = s0.dict[Sub]
       /\ s1.contents[Extra] = <<>> /\ s1.dict[Extra] = <<>> /\ s1.parent = s0.parent /\ s1.cleanup = s0.cleanup
  BY <1>0, <1>2, <1>4, <1>5, <1>7, <1>8, <1>11 DEF Same
<1>13. Part(s1, Top, rm)
  <2>1. \A n \in DOMAIN s1.stack[Top] : /\ Alike(s1.stack[Top][n], s0.stack[Top][n])
                                        /\ s1.stack[Top][n].temps.gap[Top] = s0.stack[Top][n].temps.gap[Top]
    BY <1>9, <1>12 DEF f
  <2>2. Len(s1.stack[Top]) <= Len(s0.stack[Top])
    <3> DEFINE l == Len(s0.stack[Top])
    <3>1. l \in Nat
      BY <1>4
    <3> HIDE DEF l
    <3>2. l <= l
      BY <3>1
    <3> QED BY <1>12, <3>2 DEF l
  <2>3. s1.contents[Top] = s0.contents[Top] /\ s1.dict[Top] = s0.dict[Top] /\ s1.cleanup.gap[Top] = s0.cleanup.gap[Top]
    BY <1>12
  <2> QED BY ONLY <1>0, <1>1, <1>11, <2>1, <2>2, <2>3, PartAlike
<1>14. Part(s1, Sub, rm)
  BY <1>1, <1>12 DEF Part
<1>15. Shape(s1.stack[Top], rm)
  <2> DEFINE G == s1.stack[Top]
  <2>1. Len(G) = 1 /\ DOMAIN G = {1} /\ G[1].kind \in {"plain", "rule"}
    BY <1>4, <1>9, <1>12
  <2> HIDE DEF G
  <2>2. Shape(G, rm)
    BY <2>1, ShapeOne DEF rm
  <2> QED BY <2>2 DEF G
<1>16. Ties(s1)
  <2>1. Extra \notin e.subs /\ (Sub \in e.subs <=> Sub \in f.subs)
    BY <1>0, <1>9
  <2> QED BY <1>1, <1>9, <1>11, <1>12, <2>1 DEF Ties, f
<1>17. Outputs(s1)
  BY <1>1, <1>4, <1>9, <1>12 DEF Outputs, f
<1>18. Links(s1)
  <2>1. Whole(<<>>, <<>>)
    BY DEF Whole
  <2>2. \A n \in DOMAIN s1.stack[Top] : Sub \in DOMAIN s1.dict[Top] => s1.dict[Top][Sub] <= s1.stack[Top][n].end
    BY <1>1, <1>4, <1>9, <1>12 DEF Links, f
  <2>3. ASSUME NEW p \in {Top, Sub}, NEW n \in DOMAIN s1.stack[p], NEW j \in DOMAIN s1.stack[p][n].backup,
               j <= s1.stack[p][n].end
        PROVE  s1.stack[p][n].backup[j][1] \in Leaves
    <3>1. CASE p = Top
      BY <1>1, <1>4, <1>9, <1>12, <2>3, <3>1 DEF Links, Alike, f
    <3>2. CASE p = Sub
      BY <1>1, <1>12, <2>3, <3>2 DEF Links
    <3> QED BY <3>1, <3>2
  <2> QED BY <1>1, <1>12, <2>1, <2>2, <2>3 DEF Links
<1>19. OwnGaps(s1)
  <2>1. ASSUME NEW q \in Objects, NEW p \in {Top, Sub}, p # q, NEW n \in DOMAIN s1.stack[q]
        PROVE  s1.stack[q][n].temps.gap[p] = 0
    <3>1. CASE q = Top
      BY <1>0, <1>1, <1>4, <1>9, <1>12, <2>1, <3>1 DEF OwnGaps, f
    <3>2. CASE q = Sub
      BY <1>0, <1>1, <1>12, <2>1, <3>2 DEF OwnGaps
    <3>3. CASE q = Extra
      BY <1>0, <1>1, <1>5, <1>12, <2>1, <3>3 DEF OwnGaps, F
    <3> QED BY <3>1, <3>2, <3>3 DEF Objects
  <2>2. \A n \in DOMAIN s1.stack[Extra] : s1.stack[Extra][n].end = 0
    BY <1>1, <1>5, <1>12 DEF OwnGaps, F
  <2> QED BY <2>1, <2>2 DEF OwnGaps
<1>20. Good(s1, rm)
  BY <1>11, <1>13, <1>14, <1>15, <1>16, <1>17, <1>18, <1>19 DEF Good
<1>21. Extra \notin s1.stack[Top][1].subs /\ s1.stack[Top][1].kind = f.kind /\ s1.stack[Top][1].end = f.end
  BY <1>9, <1>12
<1> QED BY <1>11, <1>12, <1>20, <1>21 DEF s1, s2, rm, f

(* Without an instance in the tree, its parent is of no importance.                     *)
LEMMA Unlinked ==
  ASSUME NEW s0, NEW rm, Good(s0, rm), Extra \notin DOMAIN s0.dict[Top]
  PROVE  Good([s0 EXCEPT !.parent = @ \ {Extra}], rm)
<1> DEFINE s1 == [s0 EXCEPT !.parent = @ \ {Extra}]
<1>1. s0 \in States /\ s0.parent \in SUBSET Objects
  BY StateParts DEF Good
<1>2. /\ s1 \in States /\ s1.contents = s0.contents /\ s1.dict = s0.dict /\ s1.stack = s0.stack /\ s1.cleanup = s0.cleanup
      /\ s1.parent = s0.parent \ {Extra}
  BY <1>1 DEF States
<1> HIDE DEF s1
<1>3. Part(s1, Top, rm) /\ Part(s1, Sub, rm)
  BY <1>2 DEF Good, Part
<1>4. Shape(s1.stack[Top], rm) /\ Ties(s1) /\ Outputs(s1) /\ OwnGaps(s1)
  BY SMTT(30), <1>2 DEF Good, Ties, Outputs, OwnGaps
<1>5. Links(s1)
  BY <1>2, Different DEF Good, Links
<1>6. Good(s1, rm)
  BY <1>2, <1>3, <1>4, <1>5 DEF Good
<1> QED BY <1>6 DEF s1

(* A transaction in which the only instance is removed from the tree can be committed.  *)
LEMMA ClosesRemoval ==
  ASSUME NEW s0, Good(s0, NotRemoving), s0.stack[Top] = <<>>, s0.stack[Sub] = <<>>, Extra \in DOMAIN s0.dict[Top]
  PROVE  Closing([Drop(Begin(s0, Top), Top, Extra) EXCEPT !.parent = @ \ {Extra}])
<1> DEFINE s1 == Begin(s0, Top)
           s2 == Drop(s1, Top, Extra)
           s3 == [s2 EXCEPT !.parent = @ \ {Extra}]
<1>0. Top \in Objects /\ Sub \in Objects /\ Extra \in Objects /\ Top # Sub /\ Top # Extra /\ Sub # Extra
  BY Different
<1>1. /\ Good(s1, NotRemoving) /\ Same(s1, s0) /\ \A p \in Objects : p # Top => s1.stack[p] = s0.stack[p]
      /\ Len(s1.stack[Top]) = 1 /\ s1.stack[Top] # <<>> /\ s1.stack[Top][1].kind = "plain" /\ s1.stack[Top][1].subs = {}
  BY Begins
<1> HIDE DEF s1
<1>2. Extra \in DOMAIN s1.dict[Top]
  BY <1>1 DEF Same
<1>3. Dropped(s2, s1, Top, Extra)
  BY <1>1, <1>2, DropIs
<1> HIDE DEF s2
<1> DEFINE e == s2.stack[Top][1]
<1>4. /\ s2 \in States /\ Part(s2, Top, NotRemoving) /\ Part(s2, Sub, NotRemoving)
      /\ Len(s2.stack[Top]) = 1 /\ DOMAIN s2.stack[Top] = {1} /\ s2.stack[Top] # <<>>
      /\ e \in Frames /\ e.kind = "plain" /\ e.subs = {} /\ e.temps.gap[Sub] = s1.stack[Top][1].temps.gap[Sub]
      /\ DOMAIN s2.dict[Top] = DOMAIN s1.dict[Top] \ {Extra}
      /\ s2.contents[Sub] = s1.contents[Sub] /\ s2.dict[Sub] = s1.dict[Sub] /\ s2.stack[Sub] = s1.stack[Sub]
      /\ s2.contents[Extra] = s1.contents[Extra] /\ s2.dict[Extra] = s1.dict[Extra] /\ s2.stack[Extra] = s1.stack[Extra]
      /\ s2.parent = s1.parent
  BY <1>0, <1>1, <1>3 DEF Dropped
<1>5. s2.parent \in SUBSET Objects
  BY <1>4, StateParts
<1>6. /\ s3 \in States /\ s3.contents = s2.contents /\ s3.dict = s2.dict /\ s3.stack = s2.stack /\ s3.cleanup = s2.cleanup
      /\ s3.parent = s2.parent \ {Extra}
  BY <1>4, <1>5 DEF States
<1> HIDE DEF s3
<1>7. Calm(s1) /\ OwnGaps(s1)
  BY <1>1, GoodIsCalm DEF Good
<1>8. /\ Whole(s2.contents[Top], s2.dict[Top]) /\ Whole(s2.contents[Sub], s2.dict[Sub])
      /\ GapAt(s2.contents[Top], s2.cleanup.gap[Top]) /\ GapAt(s2.contents[Sub], s2.cleanup.gap[Sub])
  BY <1>4 DEF Part, Stacked
<1>9. Whole(s2.contents[Extra], s2.dict[Extra])
  BY <1>0, <1>4, <1>7 DEF Calm
<1>10. Calm(s3)
  <2>1. \A o \in Objects : Whole(s3.contents[o], s3.dict[o])
    BY <1>6, <1>8, <1>9 DEF Objects
  <2>2. Sub \in s3.parent /\ Extra \notin DOMAIN s3.dict[Top] /\ DOMAIN s3.dict[Sub] \subseteq Leaves
    BY <1>0, <1>4, <1>6, <1>7 DEF Calm
  <2>3. \A n \in DOMAIN s3.stack[Extra] :
       /\ s3.stack[Extra][n].end = 0
       /\ s3.stack[Extra][n].temps.gap[Top] = 0 /\ s3.stack[Extra][n].temps.gap[Sub] = 0
    BY SMTT(30), <1>4, <1>6, <1>7 DEF Calm
  <2>4. \A o \in {Top, Sub} : GapAt(s3.contents[o], s3.cleanup.gap[o])
    BY <1>6, <1>8
  <2> QED BY <1>6, <2>1, <2>2, <2>3, <2>4 DEF Calm
<1>11. Noted(s3, e)
  <2> DEFINE F == s2.stack[Top]
             H == GapsOf(F, Top)
  <2>1. H[1] = e.temps.gap[Top]
    BY <1>4 DEF GapsOf
  <2>2. FirstFits(s2.contents[Top], s2.dict[Top], F[1], s2.cleanup.gap[Top], H[1], Free(Top, NotRemoving))
    BY <1>4 DEF Part, Stacked
  <2>3. GapAt(s3.contents[Top], e.temps.gap[Top])
    BY <1>6, <2>1, <2>2 DEF FirstFits
  <2>4. 1 \in DOMAIN s1.stack[Top]
    <3>1. DOMAIN s1.stack[Top] = {1}
      BY <1>1, OneFrame
    <3> QED BY <3>1
  <2>5. e.temps.gap[Sub] = 0
    BY <1>0, <1>4, <1>7, <2>4 DEF OwnGaps
  <2>6. GapAt(s3.contents[Sub], e.temps.gap[Sub])
    BY <2>5 DEF GapAt
  <2> QED BY <1>4, <2>3, <2>6 DEF Noted
<1>12. s3.stack[Top][1] = e /\ Len(s3.stack[Top]) = 1 /\ s3.stack[Sub] = <<>>
  BY <1>0, <1>1, <1>4, <1>6
<1>13. Rewritten(s3.contents[Top], e)
  BY <1>4 DEF Rewritten
<1> HIDE DEF e
<1>14. Closing(s3)
  BY <1>4, <1>10, <1>11, <1>12, <1>13 DEF Closing
<1> QED BY <1>14 DEF s3, s2, s1

(* remove() of the instance of a multiple subobject.                                    *)
LEMMA KeepsRemoveExtra ==
  ASSUME \A w \in Instances : Strict(w), IInv, RemoveExtra
  PROVE  IInv'
<1> DEFINE open == InTransaction(s, Top)
           t1 == RollbackSub(s, Extra)
           t2 == SetFrame(t1, Top, [Current(t1, Top) EXCEPT !.subs = @ \ {Extra}])
           s1 == IF open /\ InTransaction(s, Extra) THEN t2 ELSE Opened(s, Top)
           s2 == Drop(s1, Top, Extra)
           s3 == [s2 EXCEPT !.parent = @ \ {Extra}]
<1>0. Top \in Objects /\ Sub \in Objects /\ Extra \in Objects /\ Top # Sub /\ Top # Extra /\ Sub # Extra
  BY Different
<1>1. /\ removing = NotRemoving /\ Good(s, NotRemoving)
      /\ s.stack[Top] # <<>> => s.stack[Top][1].kind = "plain" /\ Current(s, Top) = s.stack[Top][1]
  BY IdleIs DEF RemoveExtra
<1>2. Extra \in DOMAIN s.dict[Top]
  BY <1>0, <1>1, Found DEF RemoveExtra
<1>3. /\ open => ~(s.dict[Top][Extra] <= s.stack[Top][1].end)
      /\ ~open => s.stack[Top] = <<>> /\ s.stack[Sub] = <<>>
  BY <1>0, <1>1, World DEF RemoveExtra, FreeFor, InTransaction
<1>4. /\ removing' = removing /\ instance' = instance
      /\ s' = IF open THEN s3 ELSE Commit(s3, Top)
  BY <1>0 DEF RemoveExtra, Rollback
<1>5. CASE open
  <2>1. s.stack[Top] # <<>>
    BY <1>5 DEF InTransaction
  <2>2. /\ Good(s1, NotRemoving) /\ s1.dict[Top] = s.dict[Top] /\ s1.stack[Top] # <<>> /\ s1.stack[Top][1].kind = "plain"
        /\ Extra \notin s1.stack[Top][1].subs /\ s1.stack[Top][1].end = s.stack[Top][1].end
    <3>1. CASE s.stack[Extra] # <<>>
      <4>1. s1 = t2
        BY <1>5, <3>1 DEF InTransaction
      <4> HIDE DEF s1
      <4> QED BY <1>1, <2>1, <3>1, <4>1, Unties
    <3>2. CASE s.stack[Extra] = <<>>
      <4>1. s1 = s
        BY <1>5, <3>2 DEF InTransaction, Opened
      <4>2. Len(<<>>) # 1
        OBVIOUS
      <4>3. Extra \notin s.stack[Top][1].subs
        BY <1>1, <2>1, <3>2, <4>2 DEF Good, Ties
      <4> HIDE DEF s1
      <4> QED BY <1>1, <2>1, <4>1, <4>3
    <3> QED BY <3>1, <3>2
  <2> HIDE DEF s1
  <2>3. s1.dict[Top][Extra] > s1.stack[Top][1].end
    <3>1. s.dict[Top][Extra] \in Nat
      <4>1. s.dict[Top] \in Dicts
        BY <1>0, <1>1, StateParts DEF Good
      <4> QED BY <1>2, <4>1 DEF Dicts
    <3>2. s.stack[Top][1].end \in Nat
      <4>1. s.stack[Top][1] \in Frames
        BY <1>1, <2>1, OneFrame
      <4> QED BY <4>1 DEF Frames
    <3>3. s1.dict[Top] = s.dict[Top] /\ s1.stack[Top][1].end = s.stack[Top][1].end
      BY <2>2
    <3> DEFINE a == s.dict[Top][Extra]
               b == s.stack[Top][1].end
    <3>4. a \in Nat /\ b \in Nat /\ ~(a <= b)
      BY <1>3, <1>5, <3>1, <3>2
    <3> HIDE DEF a, b
    <3>5. a > b
      BY <3>4
    <3> QED BY <3>3, <3>5 DEF a, b
  <2>4. Good(s2, NotRemoving) /\ DOMAIN s2.dict[Top] = DOMAIN s1.dict[Top] \ {Extra}
    BY SMTT(30), <1>2, <2>2, <2>3, Drops
  <2> HIDE DEF s2
  <2>5. Good(s3, NotRemoving)
    BY <2>4, Unlinked
  <2>6. s' = s3
    BY <1>4, <1>5
  <2> QED BY <1>1, <1>4, <2>5, <2>6, Outside
<1>6. CASE ~open
  <2>1. s1 = Begin(s, Top)
    BY <1>6 DEF Opened
  <2>2. Closing(s3)
    BY <1>1, <1>2, <1>3, <1>6, <2>1, ClosesRemoval
  <2> HIDE DEF s3
  <2>3. Good(Commit(s3, Top), NotRemoving)
    BY <2>2, CommitsOuter
  <2> QED BY <1>1, <1>4, <1>6, <2>3, Outside
<1> QED BY <1>5, <1>6

-----------------------------------------------------------------------------
\* A new instance of the multiple subobject without contents, and with those given.
Fresh(s0) == [s0 EXCEPT !.contents[Extra] = <<>>, !.dict[Extra] = <<>>, !.stack[Extra] = <<>>, !.parent = @ \cup {Extra}]

Filled(s0, v) == [s0 EXCEPT !.contents[Extra] = [k \in 1..Len(v) |-> v[k]], !.dict[Extra] = Listed(v)]

(* A sequence of cells of different properties and the dictionary made for it agree.    *)
LEMMA ListedWhole ==
  ASSUME NEW v \in Seq(Cells), \A i, j \in DOMAIN v : v[i][1] = v[j][1] => i = j
  PROVE  Whole(v, Listed(v)) /\ DOMAIN Listed(v) = {v[i][1] : i \in DOMAIN v} /\ v \in Contents /\ Listed(v) \in Dicts
<1> DEFINE d == Listed(v)
<1>1. DOMAIN d = {v[i][1] : i \in DOMAIN v} /\ \A k \in DOMAIN d : d[k] = CHOOSE i \in DOMAIN v : v[i][1] = k
  BY DEF Listed
<1> HIDE DEF d
<1>2. \A k \in DOMAIN d : d[k] \in DOMAIN v /\ v[d[k]][1] = k
  BY <1>1
<1>3. DOMAIN v = 1..Len(v) /\ Len(v) \in Nat /\ \A i \in DOMAIN v : v[i] \in Cells
  OBVIOUS
<1>4. \A i \in DOMAIN v : v[i] # Gap /\ v[i][1] \in Keys
  BY <1>3, GapIsNoCell
<1>5. \A i \in DOMAIN v : v[i][1] \in DOMAIN d /\ d[v[i][1]] = i
  BY <1>1, <1>2
<1>6. Whole(v, d)
  BY <1>2, <1>4, <1>5 DEF Whole
<1>7. DOMAIN d \subseteq Keys
  BY <1>1, <1>4
<1>8. d \in [DOMAIN d -> Nat]
  <2>1. \A k \in DOMAIN d : d[k] \in Nat
    BY <1>2, <1>3
  <2>2. d = [k \in DOMAIN d |-> d[k]]
    BY DEF d, Listed
  <2> QED BY <2>1, <2>2
<1>9. d \in Dicts
  BY <1>7, <1>8 DEF Dicts
<1>10. v \in Contents
  <2>1. \A i \in DOMAIN v : v[i] \in Cells \cup {Gap}
    BY <1>3
  <2> QED BY <2>1 DEF Contents
<1> QED BY <1>1, <1>6, <1>9, <1>10 DEF d

(* A new instance stays outside until it is stored.                                     *)
LEMMA Freshens ==
  ASSUME NEW s0, NEW rm, Good(s0, rm), Extra \notin DOMAIN s0.dict[Top]
  PROVE  LET s1 == Fresh(s0)
         IN  /\ Good(s1, rm) /\ s1.contents[Top] = s0.contents[Top] /\ s1.dict[Top] = s0.dict[Top]
             /\ s1.stack[Top] = s0.stack[Top] /\ s1.stack[Sub] = s0.stack[Sub] /\ s1.stack[Extra] = <<>>
             /\ Extra \in s1.parent
<1> DEFINE s1 == Fresh(s0)
<1>0. Top \in Objects /\ Sub \in Objects /\ Extra \in Objects /\ Top # Sub /\ Top # Extra /\ Sub # Extra
  BY Different
<1>1. /\ s0 \in States /\ Part(s0, Top, rm) /\ Part(s0, Sub, rm) /\ Shape(s0.stack[Top], rm) /\ Ties(s0) /\ Outputs(s0)
      /\ Links(s0) /\ OwnGaps(s0)
  BY DEF Good
<1>2. /\ s0.contents \in [Objects -> Contents] /\ s0.dict \in [Objects -> Dicts] /\ s0.stack \in [Objects -> Seq(Frames)]
      /\ s0.parent \in SUBSET Objects
  BY <1>1, StateParts
<1>3. <<>> \in Contents /\ <<>> \in Dicts /\ <<>> \in Seq(Frames) /\ DOMAIN <<>> = {}
  <2>1. <<>> \in [{} -> Nat]
    OBVIOUS
  <2> QED BY <2>1 DEF Contents, Dicts
<1>4. /\ s1 \in States /\ s1.contents = [s0.contents EXCEPT ![Extra] = <<>>] /\ s1.dict = [s0.dict EXCEPT ![Extra] = <<>>]
      /\ s1.stack = [s0.stack EXCEPT ![Extra] = <<>>] /\ s1.parent = s0.parent \cup {Extra} /\ s1.cleanup = s0.cleanup
  <2> DEFINE c == [s0.contents EXCEPT ![Extra] = <<>>]
             d == [s0.dict EXCEPT ![Extra] = <<>>]
             F == [s0.stack EXCEPT ![Extra] = <<>>]
             p == s0.parent \cup {Extra}
  <2>1. s1 = [s0 EXCEPT !.contents = c, !.dict = d, !.stack = F, !.parent = p]
    BY <1>1 DEF Fresh, States
  <2>2. c \in [Objects -> Contents] /\ d \in [Objects -> Dicts] /\ F \in [Objects -> Seq(Frames)] /\ p \in SUBSET Objects
    BY <1>0, <1>2, <1>3
  <2> HIDE DEF c, d, F, p, s1
  <2>3. s1 \in States /\ s1.contents = c /\ s1.dict = d /\ s1.stack = F /\ s1.parent = p /\ s1.cleanup = s0.cleanup
    BY <1>1, <2>1, <2>2 DEF States
  <2> QED BY <2>3 DEF c, d, F, p
<1> HIDE DEF s1
<1>5. /\ s1.contents[Top] = s0.contents[Top] /\ s1.dict[Top] = s0.dict[Top] /\ s1.stack[Top] = s0.stack[Top]
      /\ s1.contents[Sub] = s0.contents[Sub] /\ s1.dict[Sub] = s0.dict[Sub] /\ s1.stack[Sub] = s0.stack[Sub]
      /\ s1.contents[Extra] = <<>> /\ s1.dict[Extra] = <<>> /\ s1.stack[Extra] = <<>> /\ Extra \in s1.parent
  BY <1>0, <1>2, <1>4
<1>6. Part(s1, Top, rm) /\ Part(s1, Sub, rm)
  BY <1>1, <1>4, <1>5 DEF Part
<1>7. Ties(s1)
  BY <1>1, <1>5 DEF Ties
<1>8. Outputs(s1)
  BY <1>1, <1>5 DEF Outputs
<1>9. Links(s1)
  <2>1. Whole(<<>>, <<>>)
    BY <1>3 DEF Whole
  <2> QED BY <1>0, <1>1, <1>4, <1>5, <2>1 DEF Links
<1>10. OwnGaps(s1)
  <2>1. ASSUME NEW q \in Objects, NEW p \in {Top, Sub}, p # q, NEW n \in DOMAIN s1.stack[q]
        PROVE  s1.stack[q][n].temps.gap[p] = 0
    <3>1. q # Extra
      BY <1>3, <1>5
    <3> QED BY <1>1, <1>2, <1>4, <2>1, <3>1 DEF OwnGaps
  <2> QED BY <1>3, <1>5, <2>1 DEF OwnGaps
<1>11. Good(s1, rm)
  BY <1>1, <1>4, <1>5, <1>6, <1>7, <1>8, <1>9, <1>10 DEF Good
<1> QED BY <1>5, <1>11 DEF s1

(* Its contents do not matter to anything else.                                         *)
LEMMA Fills ==
  ASSUME NEW s0, NEW rm, Good(s0, rm), NEW v \in Seq(Cells), \A i, j \in DOMAIN v : v[i][1] = v[j][1] => i = j
  PROVE  LET s1 == Filled(s0, v)
         IN  Good(s1, rm) /\ s1.stack = s0.stack
<1> DEFINE s1 == Filled(s0, v)
<1>0. Top \in Objects /\ Sub \in Objects /\ Extra \in Objects /\ Top # Sub /\ Top # Extra /\ Sub # Extra
  BY Different
<1>1. /\ s0 \in States /\ Part(s0, Top, rm) /\ Part(s0, Sub, rm) /\ Shape(s0.stack[Top], rm) /\ Ties(s0) /\ Outputs(s0)
      /\ Links(s0) /\ OwnGaps(s0)
  BY DEF Good
<1>2. s0.contents \in [Objects -> Contents] /\ s0.dict \in [Objects -> Dicts]
  BY <1>1, StateParts
<1>3. Whole(v, Listed(v)) /\ v \in Contents /\ Listed(v) \in Dicts
  BY ListedWhole
<1>4. /\ s1 \in States /\ s1.contents = [s0.contents EXCEPT ![Extra] = v] /\ s1.dict = [s0.dict EXCEPT ![Extra] = Listed(v)]
      /\ s1.stack = s0.stack /\ s1.parent = s0.parent /\ s1.cleanup = s0.cleanup
  <2> DEFINE c == [s0.contents EXCEPT ![Extra] = v]
             d == [s0.dict EXCEPT ![Extra] = Listed(v)]
  <2>1. [k \in 1..Len(v) |-> v[k]] = v
    OBVIOUS
  <2>2. s1 = [s0 EXCEPT !.contents = c, !.dict = d]
    BY <1>1, <2>1 DEF Filled, States
  <2>3. c \in [Objects -> Contents] /\ d \in [Objects -> Dicts]
    BY <1>0, <1>2, <1>3
  <2> HIDE DEF c, d, s1
  <2>4. s1 \in States /\ s1.contents = c /\ s1.dict = d /\ s1.stack = s0.stack /\ s1.parent = s0.parent /\ s1.cleanup = s0.cleanup
    BY <1>1, <2>2, <2>3 DEF States
  <2> QED BY <2>4 DEF c, d
<1> HIDE DEF s1
<1>5. /\ s1.contents[Top] = s0.contents[Top] /\ s1.dict[Top] = s0.dict[Top]
      /\ s1.contents[Sub] = s0.contents[Sub] /\ s1.dict[Sub] = s0.dict[Sub]
      /\ s1.contents[Extra] = v /\ s1.dict[Extra] = Listed(v)
  BY <1>0, <1>2, <1>4
<1>6. Part(s1, Top, rm) /\ Part(s1, Sub, rm)
  BY <1>1, <1>4, <1>5 DEF Part
<1>7. Ties(s1) /\ Outputs(s1) /\ OwnGaps(s1)
  BY SMTT(30), <1>1, <1>4, <1>5 DEF Ties, Outputs, OwnGaps
<1>8. Links(s1)
  BY <1>1, <1>3, <1>4, <1>5 DEF Links
<1>9. Good(s1, rm)
  BY <1>1, <1>4, <1>6, <1>7, <1>8 DEF Good
<1> QED BY <1>4, <1>9 DEF s1

(* The new instance takes part in the current transaction of its parent, with a         *)
(* transaction that starts with nothing.                                                *)
LEMMA DescendsNew ==
  ASSUME NEW s0, Good(s0, NotRemoving), s0.stack[Top] # <<>>, s0.stack[Top][1].kind = "plain",
         s0.stack[Extra] = <<>>, Extra \in DOMAIN s0.dict[Top], s0.dict[Top][Extra] > s0.stack[Top][1].end
  PROVE  LET s1 == Descend(s0, Extra, TRUE)
         IN  /\ Good(s1, NotRemoving) /\ s1.stack[Top] # <<>> /\ s1.stack[Top][1].kind = "plain"
<1> DEFINE s1 == Descend(s0, Extra, TRUE)
           f  == s0.stack[Top][1]
           e  == [f EXCEPT !.subs = @ \cup {Extra}]
           sm == SetFrame(s0, Top, e)
           n  == NewFrame(s0, Extra, "init", TRUE)
           rm == NotRemoving
<1>0. Top \in Objects /\ Sub \in Objects /\ Extra \in Objects /\ Top # Sub /\ Top # Extra /\ Sub # Extra
  BY Different
<1>1. /\ s0 \in States /\ Part(s0, Top, rm) /\ Part(s0, Sub, rm) /\ Shape(s0.stack[Top], rm) /\ Ties(s0) /\ Outputs(s0)
      /\ Links(s0) /\ OwnGaps(s0)
  BY DEF Good, rm
<1>2. /\ Len(s0.stack[Top]) = 1 /\ DOMAIN s0.stack[Top] = {1} /\ f \in Frames /\ Current(s0, Top) = f /\ f.kind = "plain"
  BY OneFrame
<1>3. f.subs \in SUBSET {Sub, Extra} /\ Extra \notin f.subs
  <2>1. Len(<<>>) # 1
    OBVIOUS
  <2> QED BY <1>1, <1>2, <2>1, Fields DEF Ties
<1>4. s1 = Push(sm, Extra, n)
  <2>1. ~InTransaction(s0, Extra)
    BY DEF InTransaction
  <2> HIDE DEF f
  <2> QED BY <1>2, <1>3, <2>1 DEF Descend
<1> HIDE DEF s1, f, e, sm, n, rm
<1>5. /\ e \in Frames /\ Alike(e, f) /\ e.subs = f.subs \cup {Extra} /\ e.outputs = f.outputs /\ e.temps = f.temps
      /\ e.kind = f.kind /\ e.end = f.end
  <2>1. f.subs \cup {Extra} \in SUBSET {Sub, Extra}
    BY <1>3
  <2> QED BY <1>2, <2>1 DEF e, Frames, Alike
<1>6. n \in Frames /\ n.kind = "init" /\ n.end = 0 /\ \A p \in Objects : n.temps.gap[p] = 0
  <2> DEFINE kind == "init"
             dep == TRUE
  <2>1. kind \in {"plain", "init", "rule"} /\ kind = "init" /\ dep \in BOOLEAN /\ n = NewFrame(s0, Extra, kind, dep)
    BY DEF n
  <2> HIDE DEF kind, dep
  <2>2. n \in Frames /\ n.kind = kind /\ n.end = 0 /\ \A p \in Objects : n.temps.gap[p] = 0
    BY ONLY <1>0, <1>1, <2>1, NewFrameIs
  <2> QED BY <2>2 DEF kind
<1>7. /\ sm \in States /\ Same(sm, s0) /\ (\A p \in Objects : p # Top => sm.stack[p] = s0.stack[p])
      /\ Len(sm.stack[Top]) = Len(s0.stack[Top]) /\ DOMAIN sm.stack[Top] = DOMAIN s0.stack[Top] /\ sm.stack[Top] # <<>>
      /\ sm.stack[Top][Len(s0.stack[Top])] = e
  BY <1>0, <1>1, <1>5, SetFrameIs DEF sm
<1>8. /\ s1 \in States /\ Same(s1, sm) /\ (\A p \in Objects : p # Extra => s1.stack[p] = sm.stack[p])
      /\ Len(s1.stack[Extra]) = Len(sm.stack[Extra]) + 1
      /\ DOMAIN s1.stack[Extra] = 1..(Len(sm.stack[Extra]) + 1) /\ s1.stack[Extra][Len(sm.stack[Extra]) + 1] = n
  BY <1>0, <1>4, <1>6, <1>7, PushIs
<1>9. sm.stack[Extra] = <<>> /\ Len(sm.stack[Extra]) = 0
  BY <1>0, <1>7
<1>10. /\ Len(s1.stack[Extra]) = 1 /\ DOMAIN s1.stack[Extra] = {1} /\ s1.stack[Extra][1] = n
       /\ Len(s1.stack[Top]) = 1 /\ DOMAIN s1.stack[Top] = {1} /\ s1.stack[Top][1] = e /\ s1.stack[Top] # <<>>
       /\ s1.stack[Sub] = s0.stack[Sub] /\ Same(s1, s0)
  <2>1. Len(s1.stack[Extra]) = 1 /\ DOMAIN s1.stack[Extra] = {1} /\ s1.stack[Extra][1] = n
    BY <1>8, <1>9
  <2> QED BY <1>0, <1>2, <1>7, <1>8, <2>1 DEF Same
<1>11. Part(s1, Top, rm)
  <2>1. DOMAIN s1.stack[Top] = DOMAIN s0.stack[Top] /\ Len(s1.stack[Top]) <= Len(s0.stack[Top])
    <3> DEFINE l1 == Len(s1.stack[Top])
               l0 == Len(s0.stack[Top])
    <3>1. l1 = 1 /\ l0 = 1
      BY <1>2, <1>10
    <3> HIDE DEF l1, l0
    <3>2. l1 <= l0
      BY <3>1
    <3> QED BY <1>2, <1>10, <3>2 DEF l1, l0
  <2>2. Alike(s1.stack[Top][1], s0.stack[Top][1]) /\ s1.stack[Top][1].temps.gap[Top] = s0.stack[Top][1].temps.gap[Top]
    BY <1>5, <1>10 DEF f
  <2>3. \A m \in DOMAIN s1.stack[Top] :
          /\ Alike(s1.stack[Top][m], s0.stack[Top][m])
          /\ s1.stack[Top][m].temps.gap[Top] = s0.stack[Top][m].temps.gap[Top]
    BY <1>10, <2>2
  <2>4. s1.contents[Top] = s0.contents[Top] /\ s1.dict[Top] = s0.dict[Top] /\ s1.cleanup.gap[Top] = s0.cleanup.gap[Top]
    BY <1>10 DEF Same
  <2>5. Part(s0, Top, rm) /\ s1 \in States /\ s0 \in States
    BY <1>1, <1>8
  <2>6. Len(s1.stack[Top]) <= Len(s0.stack[Top])
    BY <2>1
  <2> QED BY ONLY <1>0, <2>6, <2>3, <2>4, <2>5, PartAlike
<1>12. Part(s1, Sub, rm)
  BY <1>1, <1>10 DEF Part, Same
<1>13. Shape(s1.stack[Top], rm)
  <2> DEFINE G == s1.stack[Top]
  <2>1. Len(G) = 1 /\ DOMAIN G = {1} /\ G[1].kind \in {"plain", "rule"}
    BY <1>2, <1>5, <1>10
  <2> HIDE DEF G
  <2>2. Shape(G, rm)
    BY <2>1, ShapeOne DEF rm
  <2> QED BY <2>2 DEF G
<1>14. Ties(s1)
  <2>1. Sub \in e.subs <=> Sub \in f.subs
    BY <1>0, <1>5
  <2>2. s0.dict[Top][Extra] > e.end /\ s1.dict = s0.dict
    BY <1>5, <1>10 DEF f, Same
  <2>3. \A m \in DOMAIN s1.stack[Top] : ~(m > 1)
    BY <1>10
  <2>4. /\ Len(s0.stack[Sub]) <= 1
        /\ s0.stack[Sub] # <<>> => IF s0.stack[Sub][1].dependent THEN Sub \in f.subs /\ s0.stack[Sub][1].kind = f.kind
                                   ELSE FALSE
        /\ Sub \in f.subs => s0.stack[Sub] # <<>> /\ Sub \in DOMAIN s0.dict[Top]
    BY <1>1 DEF Ties, f
  <2> QED BY <1>2, <1>5, <1>6, <1>10, <2>1, <2>2, <2>3, <2>4 DEF Ties
<1>15. Outputs(s1)
  BY <1>1, <1>2, <1>5, <1>10 DEF Outputs, Same, f
<1>16. Links(s1)
  <2>1. \A m \in DOMAIN s1.stack[Top] : Sub \in DOMAIN s1.dict[Top] => s1.dict[Top][Sub] <= s1.stack[Top][m].end
    BY <1>1, <1>2, <1>5, <1>10 DEF Links, Same, f
  <2>2. \A m \in DOMAIN s1.stack[Top] : \A i \in DOMAIN s1.stack[Top][m].backup :
          i <= s1.stack[Top][m].end => s1.stack[Top][m].backup[i][1] \in Leaves
    BY <1>1, <1>2, <1>5, <1>10 DEF Links, Alike, f
  <2>3. \A m \in DOMAIN s1.stack[Sub] : \A i \in DOMAIN s1.stack[Sub][m].backup :
          i <= s1.stack[Sub][m].end => s1.stack[Sub][m].backup[i][1] \in Leaves
    BY <1>1, <1>10 DEF Links
  <2> QED BY <1>1, <1>10, <2>1, <2>2, <2>3 DEF Links, Same
<1>17. OwnGaps(s1)
  <2>1. ASSUME NEW q \in Objects, NEW p \in {Top, Sub}, p # q, NEW m \in DOMAIN s1.stack[q]
        PROVE  s1.stack[q][m].temps.gap[p] = 0
    <3>1. CASE q = Top
      BY <1>0, <1>1, <1>2, <1>5, <1>10, <2>1, <3>1 DEF OwnGaps, f
    <3>2. CASE q = Sub
      BY <1>0, <1>1, <1>10, <2>1, <3>2 DEF OwnGaps
    <3>3. CASE q = Extra
      BY <1>0, <1>6, <1>10, <2>1, <3>3
    <3> QED BY <3>1, <3>2, <3>3 DEF Objects
  <2>2. \A m \in DOMAIN s1.stack[Extra] : s1.stack[Extra][m].end = 0
    BY <1>6, <1>10
  <2> QED BY <2>1, <2>2 DEF OwnGaps
<1>18. Good(s1, rm)
  BY <1>8, <1>11, <1>12, <1>13, <1>14, <1>15, <1>16, <1>17 DEF Good
<1>19. s1.stack[Top][1].kind = "plain"
  BY <1>2, <1>5, <1>10
<1> QED BY <1>10, <1>18, <1>19 DEF s1, rm

(* Contents new instances are created with.                                             *)
LEMMA FillingIs ==
  ASSUME \A w \in Instances : Strict(w), IInv, NEW v \in Fillings
  PROVE  v \in Seq(Cells) /\ \A i, j \in DOMAIN v : v[i][1] = v[j][1] => i = j
<1>1. instance \in Instances /\ Strict(instance)
  BY DEF IInv
<1>2. v \in Seq(Leaves \X instance.values \X BOOLEAN) /\ \A i, j \in DOMAIN v : v[i][1] = v[j][1] => i = j
  BY <1>1 DEF Strict, Fillings
<1>3. Leaves \X instance.values \X BOOLEAN \subseteq Cells
  BY <1>1 DEF Cells, Keys, CellValues
<1>4. v \in Seq(Cells)
  <2>1. \A i \in 1..Len(v) : v[i] \in Cells
    BY <1>2, <1>3
  <2> QED BY <1>2, <2>1
<1> QED BY <1>2, <1>4

(* add() outside of remove() and rules                                                  *)
LEMMA AddsNew ==
  ASSUME NEW s0, Good(s0, NotRemoving), s0.stack[Top] # <<>>, s0.stack[Top][1].kind = "plain",
         Extra \notin DOMAIN s0.dict[Top], \A i \in DOMAIN s0.stack[Top][1].backup : s0.stack[Top][1].backup[i][1] # Extra,
         NEW v \in Seq(Cells), \A i, j \in DOMAIN v : v[i][1] = v[j][1] => i = j, NEW temp \in BOOLEAN
  PROVE  LET s1 == WithExtra(s0, v, temp, FALSE)
         IN  Good(s1, NotRemoving) /\ s1.stack[Top] # <<>> /\ s1.stack[Top][1].kind = "plain"
<1> DEFINE t1 == Fresh(s0)
           t2 == Store(t1, Top, Extra, Extra, temp)
           t3 == Descend(t2, Extra, TRUE)
           s1 == Filled(t3, v)
<1>0. Top \in Objects /\ Extra \in Objects /\ Top # Extra /\ Extra \in Keys
  BY Different
<1>1. WithExtra(s0, v, temp, FALSE) = s1
  BY DEF WithExtra, Fresh, Filled
<1>2. /\ Good(t1, NotRemoving) /\ t1.contents[Top] = s0.contents[Top] /\ t1.dict[Top] = s0.dict[Top]
      /\ t1.stack[Top] = s0.stack[Top] /\ t1.stack[Extra] = <<>> /\ Extra \in t1.parent
  BY Freshens
<1> HIDE DEF t1
<1>3. Extra \in CellValues /\ Storable(t1, NotRemoving, Top, Extra)
  BY <1>2 DEF CellValues, Storable
<1>4. /\ Good(t2, NotRemoving) /\ Flags(t2, t1) /\ Extra \in DOMAIN t2.dict[Top]
      /\ t2.dict[Top][Extra] = Len(t1.contents[Top]) + 1
  BY <1>0, <1>2, <1>3, Stores
<1> HIDE DEF t2
<1>5. /\ t2.stack[Top] # <<>> /\ t2.stack[Extra] = <<>> /\ t2.stack[Top][1].kind = "plain"
      /\ t2.stack[Top][1].end = t1.stack[Top][1].end
  <2>1. 1 \in DOMAIN t1.stack[Top]
    BY <1>2, OneFrame
  <2> QED BY <1>0, <1>2, <1>4, <2>1 DEF Flags, Flagged, Alike
<1>6. t2.dict[Top][Extra] > t2.stack[Top][1].end
  <2> DEFINE F == t1.stack[Top]
             H == GapsOf(F, Top)
             a == F[1].end
             b == Len(t1.contents[Top])
  <2>1. Part(t1, Top, NotRemoving) /\ F # <<>> /\ F[1] \in Frames /\ t1 \in States
    BY <1>2, OneFrame DEF Good
  <2>2. FirstFits(t1.contents[Top], t1.dict[Top], F[1], t1.cleanup.gap[Top], H[1], Free(Top, NotRemoving))
    BY <2>1 DEF Part, Stacked
  <2>3. a <= b
    BY <2>2 DEF FirstFits, Fits
  <2>4. a \in Nat /\ b \in Nat
    <3>1. a \in Nat
      BY <2>1, Fields
    <3>2. t1.contents[Top] \in Contents
      BY <1>0, <2>1, StateParts
    <3> QED BY <3>1, <3>2, Sequence
  <2> HIDE DEF a, b
  <2>5. b + 1 > a
    BY <2>3, <2>4
  <2> QED BY <1>4, <1>5, <2>5 DEF a, b
<1>7. Good(t3, NotRemoving) /\ t3.stack[Top] # <<>> /\ t3.stack[Top][1].kind = "plain"
  BY <1>4, <1>5, <1>6, DescendsNew
<1> HIDE DEF t3
<1>8. Good(s1, NotRemoving) /\ s1.stack = t3.stack
  BY <1>7, Fills
<1> HIDE DEF s1
<1> QED BY <1>1, <1>7, <1>8

(* add() of a new instance.                                                             *)
LEMMA KeepsAdd ==
  ASSUME \A w \in Instances : Strict(w), IInv, NEW filling \in Fillings, NEW temp \in BOOLEAN, NEW fails \in BOOLEAN,
         Add(filling, temp, fails)
  PROVE  IInv'
<1> DEFINE open == InTransaction(s, Top)
           s0 == Opened(s, Top)
           s1 == WithExtra(s0, filling, temp, FALSE)
<1>0. Top \in Objects /\ Sub \in Objects /\ Extra \in Objects /\ Top # Sub /\ Top # Extra /\ Sub # Extra
  BY Different
<1>1. /\ removing = NotRemoving /\ Good(s, NotRemoving)
      /\ s.stack[Top] # <<>> => s.stack[Top][1].kind = "plain"
  BY IdleIs DEF Add
<1>2. /\ ~Referenced(Extra) /\ (~open => s.stack[Top] = <<>> /\ s.stack[Sub] = <<>>)
      /\ removing' = removing /\ instance' = instance
      /\ s' \in IF fails THEN {Rollback(s1, Top)} ELSE IF open \/ filling = <<>> THEN {s1} ELSE Outcomes(s1)
  BY <1>0, World DEF Add, FreeFor, InTransaction
<1>3. /\ Good(s0, NotRemoving) /\ s0.stack[Top] # <<>> /\ s0.stack[Top][1].kind = "plain" /\ s0.dict = s.dict
      /\ \A i \in DOMAIN s0.stack[Top][1].backup : s0.stack[Top][1].backup[i][1] # Extra
  <2>1. CASE open
    <3>1. s0 = s /\ s.stack[Top] # <<>>
      BY <2>1 DEF Opened, InTransaction
    <3>2. 1 \in DOMAIN s.stack[Top]
      BY <1>1, <3>1, OneFrame
    <3>3. \A i \in DOMAIN s.stack[Top][1].backup : s.stack[Top][1].backup[i][1] # Extra
      BY <1>2, <3>2 DEF Referenced
    <3> HIDE DEF s0
    <3> QED BY <1>1, <3>1, <3>3
  <2>2. CASE ~open
    <3>1. s0 = Begin(s, Top)
      BY <2>2 DEF Opened
    <3> HIDE DEF s0
    <3>2. /\ Good(s0, NotRemoving) /\ Same(s0, s) /\ s0.stack[Top] # <<>> /\ s0.stack[Top][1].kind = "plain"
          /\ DOMAIN s0.stack[Top][1].backup = {}
      BY <1>1, <1>2, <2>2, <3>1, Begins
    <3> QED BY <3>2 DEF Same
  <2> QED BY <2>1, <2>2
<1> HIDE DEF s0
<1>4. Extra \notin DOMAIN s0.dict[Top]
  BY <1>0, <1>1, <1>2, <1>3, Found DEF Referenced
<1>5. filling \in Seq(Cells) /\ \A i, j \in DOMAIN filling : filling[i][1] = filling[j][1] => i = j
  BY FillingIs
<1>6. Good(s1, NotRemoving) /\ s1.stack[Top] # <<>> /\ s1.stack[Top][1].kind = "plain"
  BY <1>3, <1>4, <1>5, AddsNew
<1> HIDE DEF s1
<1>7. Good(Rollback(s1, Top), NotRemoving)
  <2>1. Len(s1.stack[Top]) = 1 /\ Away(s1, Top) /\ (s1.stack[Sub] # <<>> => Away(s1, Sub))
    BY <1>6, OneFrame, AwayUnlessRemoving
  <2> QED BY <1>6, <2>1, RollbackOuter
<1>8. \A t \in Outcomes(s1) : Good(t, NotRemoving)
  BY <1>6, World, OutcomesAre
<1>9. Good(s', NotRemoving)
  BY <1>2, <1>6, <1>7, <1>8
<1> QED BY <1>1, <1>2, <1>9, Outside

-----------------------------------------------------------------------------

(* No new backups, nothing new to own.                                                  *)
LEMMA OwnedKept ==
  ASSUME NEW s0, NEW s1, NEW rm, Owned(s0, rm), BackupsKept(s1, s0)
  PROVE  Owned(s1, rm)
BY DEF Owned, BackupsKept

(* add() in a rule.                                                                     *)
LEMMA KeepsRuleAdds ==
  ASSUME \A w \in Instances : Strict(w), IInv, NEW filling \in Fillings, RuleAdds(filling)
  PROVE  IInv'
<1> DEFINE rm == removing
           t1 == Fresh(s)
           t2 == Store(t1, Top, Extra, Extra, TRUE)
           s1 == Filled(t2, filling)
<1>0. Top \in Objects /\ Extra \in Objects /\ Top # Extra /\ Sub # Extra /\ Sub \in Objects /\ Extra \in Keys
  BY Different
<1>1. /\ s' = s1 /\ removing' = rm /\ instance' = instance /\ ~Referenced(Extra) /\ s.stack[Top] # <<>>
      /\ Good(s, rm) /\ Owned(s, rm) /\ instance \in Instances
  BY DEF RuleAdds, WithExtra, Fresh, Filled, IInv, RuleRunning, InTransaction
<1>2. Extra \notin DOMAIN s.dict[Top]
  BY <1>0, <1>1, Found DEF Referenced
<1>3. 1 \in DOMAIN s.stack[Top]
  <2>1. s.stack[Top] \in Seq(Frames)
    BY <1>0, <1>1, StateParts DEF Good
  <2> QED BY <1>1, <2>1, Framed
<1>4. \A i \in DOMAIN s.stack[Top][1].backup : s.stack[Top][1].backup[i][1] # Extra
  BY <1>1, <1>3 DEF Referenced
<1>5. filling \in Seq(Cells) /\ \A i, j \in DOMAIN filling : filling[i][1] = filling[j][1] => i = j
  BY FillingIs
<1> HIDE DEF rm
<1>6. /\ Good(t1, rm) /\ t1.contents[Top] = s.contents[Top] /\ t1.dict[Top] = s.dict[Top]
      /\ t1.stack[Top] = s.stack[Top] /\ t1.stack[Sub] = s.stack[Sub] /\ Extra \in t1.parent
  BY <1>1, <1>2, Freshens
<1> HIDE DEF t1
<1>7. Extra \in CellValues /\ Storable(t1, rm, Top, Extra)
  BY <1>4, <1>6 DEF CellValues, Storable
<1>8. Good(t2, rm) /\ Flags(t2, t1)
  BY <1>0, <1>1, <1>6, <1>7, Stores
<1> HIDE DEF t2
<1>9. Good(s1, rm) /\ s1.stack = t2.stack
  BY <1>5, <1>8, Fills
<1> HIDE DEF s1
<1>10. BackupsKept(t2, t1)
  BY <1>6, <1>8, FlagsKeepBackups DEF Good
<1>11. BackupsKept(s1, s)
  BY <1>6, <1>9, <1>10 DEF BackupsKept
<1>12. Owned(s1, rm)
  BY <1>1, <1>11, OwnedKept
<1> QED BY <1>1, <1>9, <1>12 DEF IInv

(* A rule assigns one of its outputs.                                                   *)
LEMMA KeepsRulePut ==
  ASSUME \A w \in Instances : Strict(w), IInv, NEW o \in {Top, Sub}, NEW k \in Declared[o], NEW v \in Values,
         NEW temp \in BOOLEAN, RulePut(o, k, v, temp)
  PROVE  IInv'
<1> DEFINE s1 == Store(s, o, k, v, temp)
<1>0. o \in Objects
  BY Different
<1>1. /\ s' = s1 /\ removing' = removing /\ instance' = instance /\ s.stack[o] # <<>>
      /\ Current(s, o).kind = "rule" /\ k \in Current(s, o).outputs
      /\ Good(s, removing) /\ Owned(s, removing) /\ instance \in Instances
  BY DEF RulePut, IInv, InTransaction
<1>2. k \in DOMAIN s.dict[o]
  <2> DEFINE F == s.stack[o]
  <2>1. F \in Seq(Frames) /\ F # <<>>
    BY <1>0, <1>1, StateParts DEF Good
  <2>2. Current(s, o) = F[Len(F)]
    BY DEF Current, Last
  <2> HIDE DEF F
  <2>3. Len(F) \in DOMAIN F
    BY <2>1, Framed
  <2> QED BY <1>1, <2>2, <2>3 DEF Good, Outputs, F
<1>3. k \in Keys /\ v \in CellValues /\ Storable(s, removing, o, k)
  BY <1>0, <1>2, World DEF Storable
<1>4. Good(s1, removing) /\ Flags(s1, s)
  BY <1>1, <1>3, Stores
<1> HIDE DEF s1
<1>5. BackupsKept(s1, s)
  BY <1>1, <1>4, FlagsKeepBackups DEF Good
<1>6. Owned(s1, removing)
  BY <1>1, <1>5, OwnedKept
<1> QED BY <1>1, <1>4, <1>6 DEF IInv

(* A rule runs as the innermost transaction of the top-level object.                    *)
LEMMA RuleIs ==
  ASSUME NEW s0, NEW rm, Good(s0, rm), s0.stack[Top] # <<>>, Current(s0, Top).kind = "rule"
  PROVE  \/ rm = NotRemoving /\ Len(s0.stack[Top]) = 1
         \/ rm # NotRemoving /\ Len(s0.stack[Top]) >= 2 /\ Shape(Pop(s0, Top).stack[Top], rm)
<1> DEFINE F == s0.stack[Top]
           G == Pop(s0, Top).stack[Top]
<1>1. s0 \in States /\ F \in Seq(Frames) /\ Shape(F, rm) /\ F # <<>> /\ Top \in Objects
  BY StateParts, Different DEF Good
<1>2. Len(G) = Len(F) - 1 /\ DOMAIN G = 1..(Len(F) - 1) /\ \A n \in DOMAIN G : G[n] = F[n]
  BY <1>1, PopIs
<1>3. Current(s0, Top) = F[Len(F)]
  BY DEF Current, Last
<1> HIDE DEF F, G
<1>4. Len(F) \in DOMAIN F /\ DOMAIN F = 1..Len(F) /\ Len(F) \in Nat /\ F[Len(F)].kind = "rule"
  BY <1>1, <1>3, Framed
<1>5. /\ \A n \in DOMAIN F : F[n].kind \in {"plain", "rule"}
      /\ \/ rm = NotRemoving /\ Len(F) <= 1
         \/ rm.by = "own" /\ (\E x : rm.what = {x}) /\ Len(F) \in 1..2 /\ \A n \in DOMAIN F : F[n].kind = "rule" <=> n = 2
         \/ rm.by = "nested" /\ Len(F) \in 2..3 /\ \A n \in DOMAIN F : F[n].kind = "rule" <=> n = 3
  BY <1>1 DEF Shape
<1>6. CASE rm = NotRemoving /\ Len(F) <= 1
  <2>1. Len(F) = 1
    BY <1>4, <1>6
  <2> QED BY <1>6, <2>1 DEF F
<1>7. CASE rm.by = "own" /\ (\E x : rm.what = {x}) /\ Len(F) \in 1..2 /\ \A n \in DOMAIN F : F[n].kind = "rule" <=> n = 2
  <2>1. Len(F) = 2 /\ rm # NotRemoving
    BY <1>4, <1>7 DEF NotRemoving
  <2>2. Len(G) = 1 /\ DOMAIN G = {1} /\ G[1] = F[1] /\ F[1].kind = "plain"
    BY <1>2, <1>4, <1>5, <1>7, <2>1
  <2>3. Shape(G, rm)
    BY <1>7, <2>2 DEF Shape
  <2>4. Len(F) >= 2
    BY <2>1
  <2> QED BY <2>1, <2>3, <2>4 DEF F, G
<1>8. CASE rm.by = "nested" /\ Len(F) \in 2..3 /\ \A n \in DOMAIN F : F[n].kind = "rule" <=> n = 3
  <2>1. Len(F) = 3 /\ rm # NotRemoving
    BY <1>4, <1>8 DEF NotRemoving
  <2>2. Len(G) = 2 /\ DOMAIN G = {1, 2} /\ G[1] = F[1] /\ G[2] = F[2] /\ F[1].kind = "plain" /\ F[2].kind = "plain"
    BY <1>2, <1>4, <1>5, <1>8, <2>1
  <2>3. Shape(G, rm)
    BY <1>8, <2>2 DEF Shape
  <2>4. Len(F) >= 2
    BY <2>1
  <2> QED BY <2>1, <2>3, <2>4 DEF F, G
<1> QED BY <1>5, <1>6, <1>7, <1>8

(* The end of a rule, as it succeeds ...                                                *)
LEMMA RuleCommits ==
  ASSUME NEW s0, NEW rm, Good(s0, rm), Owned(s0, rm), s0.stack[Top] # <<>>, Current(s0, Top).kind = "rule"
  PROVE  Good(Commit(s0, Top), rm) /\ Owned(Commit(s0, Top), rm)
<1>1. CASE rm = NotRemoving /\ Len(s0.stack[Top]) = 1
  <2>1. Good(Commit(s0, Top), rm)
    BY <1>1, CommitOuter
  <2> QED BY <1>1, <2>1 DEF Owned, NotRemoving
<1>2. CASE rm # NotRemoving /\ Len(s0.stack[Top]) >= 2 /\ Shape(Pop(s0, Top).stack[Top], rm)
  <2>1. Good(Commit(s0, Top), rm) /\ BackupsKept(Commit(s0, Top), s0)
    BY <1>2, CommitInner
  <2> QED BY <2>1, OwnedKept
<1> QED BY <1>1, <1>2, RuleIs

(* ... or fails.                                                                        *)
LEMMA RuleRollsBack ==
  ASSUME NEW s0, NEW rm, Good(s0, rm), Owned(s0, rm), s0.stack[Top] # <<>>, Current(s0, Top).kind = "rule"
  PROVE  Good(Rollback(s0, Top), rm) /\ Owned(Rollback(s0, Top), rm)
<1>1. CASE rm = NotRemoving /\ Len(s0.stack[Top]) = 1
  <2>1. Away(s0, Top) /\ (s0.stack[Sub] # <<>> => Away(s0, Sub))
    BY <1>1, AwayUnlessRemoving
  <2>2. Good(Rollback(s0, Top), rm)
    BY <1>1, <2>1, RollbackOuter
  <2> QED BY <1>1, <2>2 DEF Owned, NotRemoving
<1>2. CASE rm # NotRemoving /\ Len(s0.stack[Top]) >= 2 /\ Shape(Pop(s0, Top).stack[Top], rm)
  <2>1. Good(Rollback(s0, Top), rm) /\ BackupsKept(Rollback(s0, Top), s0)
    BY <1>2, RollbackInner
  <2> QED BY <2>1, OwnedKept
<1> QED BY <1>1, <1>2, RuleIs

(* A rule ends well: its outputs go to the enclosing transaction or stay for good.      *)
LEMMA KeepsCommitRule ==
  ASSUME IInv, CommitRule
  PROVE  IInv'
<1>1. /\ s' = Commit(s, Top) /\ removing' = removing /\ instance' = instance
      /\ s.stack[Top] # <<>> /\ Current(s, Top).kind = "rule"
      /\ Good(s, removing) /\ Owned(s, removing) /\ instance \in Instances
  BY DEF CommitRule, RuleRunning, InTransaction, IInv
<1>2. Good(Commit(s, Top), removing) /\ Owned(Commit(s, Top), removing)
  BY <1>1, RuleCommits
<1> QED BY <1>1, <1>2 DEF IInv

(* A rule fails, and what it has prepared is undone.                                    *)
LEMMA KeepsRuleFails ==
  ASSUME IInv, RuleFails
  PROVE  IInv'
<1>1. /\ s' = Rollback(s, Top) /\ removing' = removing /\ instance' = instance
      /\ s.stack[Top] # <<>> /\ Current(s, Top).kind = "rule"
      /\ Good(s, removing) /\ Owned(s, removing) /\ instance \in Instances
  BY DEF RuleFails, RuleRunning, InTransaction, IInv
<1>2. Good(Rollback(s, Top), removing) /\ Owned(Rollback(s, Top), removing)
  BY <1>1, RuleRollsBack
<1> QED BY <1>1, <1>2 DEF IInv

(* A rule is interrupted, and with it what asked for it.                                *)
LEMMA KeepsInterrupted ==
  ASSUME \A w \in Instances : Strict(w), IInv, Interrupted
  PROVE  IInv'
<1>1. /\ s' = Rollback(s, Top) /\ removing = NotRemoving /\ removing' = NotRemoving /\ instance' = instance
      /\ s.stack[Top] # <<>> /\ Current(s, Top).kind = "rule"
      /\ Good(s, removing) /\ Owned(s, removing)
  BY World DEF Interrupted, RuleRunning, InTransaction, IInv
<1>2. Good(Rollback(s, Top), NotRemoving)
  BY <1>1, RuleRollsBack
<1> QED BY <1>1, <1>2, Outside
-----------------------------------------------------------------------------
(* The outputs of a rule are noted in its transaction.                                  *)
LEMMA SetsOutputs ==
  ASSUME NEW s0, NEW rm, Good(s0, rm), NEW o \in {Top, Sub}, s0.stack[o] # <<>>, NEW f \in Frames,
         Kept(f, Current(s0, o)), SameGaps(f, Current(s0, o)), f.outputs \subseteq DOMAIN s0.dict[o]
  PROVE  LET s1 == SetFrame(s0, o, f)
         IN  /\ Good(s1, rm) /\ Same(s1, s0) /\ BackupsKept(s1, s0) /\ Current(s1, o) = f
             /\ \A p \in Objects : (s1.stack[p] = <<>> <=> s0.stack[p] = <<>>)
             /\ \A p \in Objects : p # o => s1.stack[p] = s0.stack[p]
             /\ Len(s1.stack[o]) = Len(s0.stack[o])
<1> DEFINE s1 == SetFrame(s0, o, f)
<1>0. o \in Objects /\ Top \in Objects /\ Sub \in Objects
  BY Different
<1>1. s0 \in States /\ Outputs(s0)
  BY DEF Good
<1>2. /\ s1 \in States /\ Same(s1, s0) /\ \A p \in Objects : p # o => s1.stack[p] = s0.stack[p]
      /\ Len(s1.stack[o]) = Len(s0.stack[o]) /\ s1.stack[o] # <<>> /\ DOMAIN s1.stack[o] = DOMAIN s0.stack[o]
      /\ s1.stack[o][Len(s0.stack[o])] = f /\ Current(s1, o) = f
      /\ \A n \in DOMAIN s0.stack[o] : n # Len(s0.stack[o]) => s1.stack[o][n] = s0.stack[o][n]
  BY <1>0, <1>1, SetFrameIs
<1> HIDE DEF s1
<1>3. Current(s0, o) = s0.stack[o][Len(s0.stack[o])]
  BY DEF Current, Last
<1>4. \A n \in DOMAIN s0.stack[o] : /\ Kept(s1.stack[o][n], s0.stack[o][n])
                                    /\ SameGaps(s1.stack[o][n], s0.stack[o][n])
  BY <1>2, <1>3 DEF Kept, Alike, SameGaps
<1>5. \A p \in Objects : /\ Len(s1.stack[p]) = Len(s0.stack[p]) /\ DOMAIN s1.stack[p] = DOMAIN s0.stack[p]
                         /\ \A n \in DOMAIN s0.stack[p] : /\ Kept(s1.stack[p][n], s0.stack[p][n])
                                                          /\ SameGaps(s1.stack[p][n], s0.stack[p][n])
  <2> SUFFICES ASSUME NEW p \in Objects
               PROVE  /\ Len(s1.stack[p]) = Len(s0.stack[p]) /\ DOMAIN s1.stack[p] = DOMAIN s0.stack[p]
                      /\ \A n \in DOMAIN s0.stack[p] : /\ Kept(s1.stack[p][n], s0.stack[p][n])
                                                       /\ SameGaps(s1.stack[p][n], s0.stack[p][n])
    OBVIOUS
  <2>1. CASE p = o
    BY <1>2, <1>4, <2>1
  <2>2. CASE p # o
    <3>1. s1.stack[p] = s0.stack[p]
      BY <1>2, <2>2
    <3>2. \A e : Kept(e, e) /\ SameGaps(e, e)
      BY DEF Kept, Alike, SameGaps
    <3> QED BY <3>1, <3>2
  <2> QED BY <2>1, <2>2
<1>6. Outputs(s1)
  <2> SUFFICES ASSUME NEW p \in {Top, Sub}, NEW n \in DOMAIN s1.stack[p], s1.stack[p][n].kind = "rule"
               PROVE  s1.stack[p][n].outputs \subseteq DOMAIN s1.dict[p]
    BY DEF Outputs
  <2>1. p \in Objects /\ n \in DOMAIN s0.stack[p] /\ s0.stack[p][n].kind = "rule" /\ s1.dict = s0.dict
    BY <1>0, <1>2, <1>5 DEF Kept, Alike, Same
  <2>2. CASE p = o /\ n = Len(s0.stack[o])
    BY <1>2, <2>1, <2>2
  <2>3. CASE ~(p = o /\ n = Len(s0.stack[o]))
    <3>1. s1.stack[p][n] = s0.stack[p][n]
      BY <1>2, <2>1, <2>3
    <3> QED BY <1>1, <2>1, <3>1 DEF Outputs
  <2> QED BY <2>2, <2>3
<1>7. Good(s1, rm)
  <2>1. s1.contents = s0.contents /\ s1.dict = s0.dict /\ s1.parent = s0.parent /\ s1.cleanup.gap = s0.cleanup.gap
    BY <1>2 DEF Same
  <2> QED BY <1>2, <1>5, <1>6, <2>1, Reworked
<1>8. BackupsKept(s1, s0)
  BY <1>0, <1>5 DEF BackupsKept, Kept, Alike
<1> QED BY <1>2, <1>7, <1>8 DEF s1

(* A cell is hidden in the transaction of a rule, which keeps it as a backup.           *)
Hidden(s0, o, k, cell) ==
  SetFrame([s0 EXCEPT !.contents[o][s0.dict[o][k]] = cell], o,
           [Current(s0, o) EXCEPT !.backup = With(@, s0.dict[o][k], Cell(s0, o, k))])

(* A placeholder in the place of a cell, whose backup the rule's transaction keeps.     *)
LEMMA Hides ==
  ASSUME NEW s0, Good(s0, NotRemoving), NEW o \in {Top, Sub}, s0.stack[o] # <<>>, s0.stack[o][1].kind = "rule",
         NEW k \in DOMAIN s0.dict[o], k \in Leaves, NEW cell \in Cells, cell[1] = k,
         NEW s1, s1 = Hidden(s0, o, k, cell)
  PROVE  /\ Good(s1, NotRemoving) /\ s1.dict = s0.dict /\ s1.stack[o] # <<>> /\ s1.stack[o][1].kind = "rule"
         /\ Current(s1, o).outputs = Current(s0, o).outputs
         /\ \A p \in Objects : p # o => s1.stack[p] = s0.stack[p]
<1> DEFINE c  == s0.contents[o]
           d  == s0.dict[o]
           i  == d[k]
           c1 == [c EXCEPT ![i] = cell]
           f  == s0.stack[o][1]
           e  == [f EXCEPT !.backup = With(@, i, c[i])]
           g  == s0.cleanup.gap[o]
           h  == f.temps.gap[o]
           rm == NotRemoving
           free == Free(o, rm)
           sm == [s0 EXCEPT !.contents[o][i] = cell]
<1>0. o \in Objects /\ Top \in Objects /\ Sub \in Objects /\ Extra \in Objects /\ Top # Sub /\ Top # Extra /\ Sub # Extra
  BY Different
<1>1. /\ s0 \in States /\ Part(s0, Top, rm) /\ Part(s0, Sub, rm) /\ Shape(s0.stack[Top], rm)
      /\ Ties(s0) /\ Outputs(s0) /\ Links(s0) /\ OwnGaps(s0)
  BY DEF Good
<1>2. /\ Len(s0.stack[o]) = 1 /\ DOMAIN s0.stack[o] = {1} /\ f \in Frames
      /\ s0.stack[o] = <<f>> /\ Current(s0, o) = f
  BY OneFrame
<1>3. /\ c \in Contents /\ d \in Dicts /\ g \in Nat /\ h \in Nat /\ Stacked(c, d, <<f>>, g, <<h>>, free)
  <2>1. c \in Contents /\ d \in Dicts /\ g \in Nat
    BY <1>0, <1>1, StateParts
  <2>2. h \in Nat
    BY <1>0, <1>2, Fields
  <2>3. GapsOf(<<f>>, o) = <<h>>
    <3> HIDE DEF f
    <3>1. <<f>> \in Seq(Frames) /\ Len(<<f>>) = 1 /\ <<f>>[1] = f
      BY <1>2
    <3> QED BY <1>0, <3>1, GapsTyped DEF h
  <2>4. Part(s0, o, rm)
    BY <1>1
  <2> QED BY <1>2, <2>1, <2>2, <2>3, <2>4 DEF Part
<1>4. i \in DOMAIN c /\ c[i] # Gap /\ c[i][1] = k /\ c[i] \in Cells /\ i \in Nat
  <2>1. i \in DOMAIN c /\ c[i] # Gap /\ c[i][1] = k
    BY <1>3 DEF Stacked, Whole
  <2> HIDE DEF c, d, i
  <2> QED BY <1>3, <2>1, Sequence
<1>5. s1 = SetFrame(sm, o, e)
  BY <1>2 DEF Hidden, Cell
<1>6. e \in Frames /\ e.kind = f.kind /\ e.end = f.end /\ e.backup = With(f.backup, i, c[i]) /\ e.temps = f.temps
      /\ e.subs = f.subs /\ e.dependent = f.dependent /\ e.outputs = f.outputs
  <2> HIDE DEF f, c, i
  <2>1. f.backup \in Backups
    BY <1>2, Fields
  <2> DEFINE b == With(f.backup, i, c[i])
  <2>2. b \in Backups
    BY <1>4, <2>1, Backup
  <2> HIDE DEF b
  <2>3. e = [f EXCEPT !.backup = b]
    BY DEF b
  <2> HIDE DEF e
  <2> QED BY <1>2, <2>2, <2>3 DEF Frames, b
<1>7. Stacked(c1, d, <<e>>, g, <<h>>, free)
  <2>1. f.kind = "rule" /\ k \in DOMAIN d
    OBVIOUS
  <2>2. e.kind = "rule" /\ e.end = f.end /\ e.backup = With(f.backup, d[k], c[d[k]])
    BY <1>6, <2>1
  <2>3. c1 = [c EXCEPT ![d[k]] = cell]
    OBVIOUS
  <2> HIDE DEF c, d, i, c1, f, e, g, h, free
  <2> QED BY ONLY <1>2, <1>3, <1>6, <2>1, <2>2, <2>3, StackedHide, cell \in Cells, cell[1] = k
<1>8. /\ Good(sm, rm) /\ SameStacks(sm, s0) /\ sm.dict = s0.dict
      /\ \A p \in Objects : p # o => sm.contents[p] = s0.contents[p]
  BY Overwrites
<1>9. sm.contents[o] = c1
  <2>1. sm = [s0 EXCEPT !.contents = [@ EXCEPT ![o] = c1]]
    BY <1>0, <1>1, StateParts
  <2> DEFINE C == c1
  <2>2. sm = [s0 EXCEPT !.contents = [@ EXCEPT ![o] = C]]
    BY <2>1
  <2> HIDE DEF C, sm
  <2>3. sm.contents = [s0.contents EXCEPT ![o] = C]
    BY <1>1, <2>2 DEF States
  <2> QED BY <1>0, <1>1, <2>3, StateParts DEF C
<1>10. sm \in States /\ sm.stack = s0.stack /\ sm.cleanup = s0.cleanup /\ sm.parent = s0.parent
  BY <1>8 DEF SameStacks, Good
<1> HIDE DEF sm, c, d, i, c1, f, e, g, h, free, rm
<1>11. /\ s1 \in States /\ Same(s1, sm) /\ \A p \in Objects : p # o => s1.stack[p] = s0.stack[p]
       /\ Len(s1.stack[o]) = 1 /\ s1.stack[o] # <<>> /\ DOMAIN s1.stack[o] = {1}
       /\ s1.stack[o][1] = e /\ Current(s1, o) = e
  <2>1. sm.stack[o] # <<>> /\ sm.stack = s0.stack /\ sm \in States /\ e \in Frames
    BY <1>6, <1>10
  <2>2. /\ s1 \in States /\ Same(s1, sm) /\ (\A p \in Objects : p # o => s1.stack[p] = sm.stack[p])
        /\ Len(s1.stack[o]) = Len(sm.stack[o]) /\ s1.stack[o] # <<>>
        /\ DOMAIN s1.stack[o] = DOMAIN sm.stack[o]
        /\ s1.stack[o][Len(sm.stack[o])] = e /\ Current(s1, o) = e
    BY ONLY <1>0, <1>5, <2>1, SetFrameIs
  <2>3. Len(sm.stack[o]) = 1 /\ DOMAIN sm.stack[o] = {1}
    BY <1>2, <2>1
  <2> QED BY <2>1, <2>2, <2>3
<1>12. /\ s1.contents[o] = c1 /\ s1.dict = s0.dict /\ s1.cleanup = s0.cleanup /\ s1.parent = s0.parent
       /\ \A p \in Objects : p # o => s1.contents[p] = s0.contents[p]
  BY <1>8, <1>9, <1>10, <1>11 DEF Same
<1>13. s1.stack[o] = <<e>>
  <2> DEFINE G == s1.stack[o]
  <2>1. G \in Seq(Frames) /\ Len(G) = 1 /\ G[1] = e
    BY <1>0, <1>11, StateParts
  <2> HIDE DEF G
  <2>2. G = <<G[1]>>
    BY <2>1, OneLong
  <2> QED BY <2>1, <2>2 DEF G
<1>14. Part(s1, o, rm)
  <2>1. GapsOf(<<e>>, o) = <<h>>
    <3>1. <<e>> \in Seq(Frames) /\ Len(<<e>>) = 1 /\ <<e>>[1] = e
      BY <1>6
    <3>2. GapsOf(<<e>>, o) = <<e.temps.gap[o]>>
      BY <1>0, <3>1, GapsTyped
    <3> QED BY <1>6, <3>2 DEF h
  <2> QED BY <1>7, <1>12, <1>13, <2>1 DEF Part, c, d, g, free
<1>15. \A p \in {Top, Sub} : p # o => Part(s1, p, rm)
  <2> SUFFICES ASSUME NEW p \in {Top, Sub}, p # o PROVE Part(s1, p, rm)
    OBVIOUS
  <2>1. Part(s0, p, rm) /\ p \in Objects
    BY <1>0, <1>1
  <2> QED BY <1>11, <1>12, <2>1 DEF Part
<1>16. /\ \A p \in Objects : DOMAIN s1.stack[p] = DOMAIN s0.stack[p] /\ Len(s1.stack[p]) = Len(s0.stack[p])
       /\ \A p \in Objects : s1.stack[p] = <<>> <=> s0.stack[p] = <<>>
       /\ \A p \in Objects : \A n \in DOMAIN s0.stack[p] :
            /\ s1.stack[p][n].kind = s0.stack[p][n].kind /\ s1.stack[p][n].end = s0.stack[p][n].end
            /\ s1.stack[p][n].subs = s0.stack[p][n].subs /\ s1.stack[p][n].dependent = s0.stack[p][n].dependent
            /\ s1.stack[p][n].outputs = s0.stack[p][n].outputs /\ s1.stack[p][n].temps = s0.stack[p][n].temps
  <2>1. \A n \in DOMAIN s0.stack[o] : n = 1 /\ s0.stack[o][n] = f
    BY <1>2 DEF f
  <2>2. \A n \in DOMAIN s0.stack[o] :
            /\ s1.stack[o][n].kind = s0.stack[o][n].kind /\ s1.stack[o][n].end = s0.stack[o][n].end
            /\ s1.stack[o][n].subs = s0.stack[o][n].subs /\ s1.stack[o][n].dependent = s0.stack[o][n].dependent
            /\ s1.stack[o][n].outputs = s0.stack[o][n].outputs /\ s1.stack[o][n].temps = s0.stack[o][n].temps
    BY <1>6, <1>11, <2>1
  <2>3. DOMAIN s1.stack[o] = DOMAIN s0.stack[o] /\ Len(s1.stack[o]) = Len(s0.stack[o])
        /\ (s1.stack[o] = <<>> <=> s0.stack[o] = <<>>)
    BY <1>2, <1>11
  <2> SUFFICES ASSUME NEW p \in Objects
        PROVE  /\ DOMAIN s1.stack[p] = DOMAIN s0.stack[p] /\ Len(s1.stack[p]) = Len(s0.stack[p])
               /\ (s1.stack[p] = <<>> <=> s0.stack[p] = <<>>)
               /\ \A n \in DOMAIN s0.stack[p] :
                    /\ s1.stack[p][n].kind = s0.stack[p][n].kind /\ s1.stack[p][n].end = s0.stack[p][n].end
                    /\ s1.stack[p][n].subs = s0.stack[p][n].subs /\ s1.stack[p][n].dependent = s0.stack[p][n].dependent
                    /\ s1.stack[p][n].outputs = s0.stack[p][n].outputs /\ s1.stack[p][n].temps = s0.stack[p][n].temps
    OBVIOUS
  <2>4. p # o => s1.stack[p] = s0.stack[p]
    BY <1>11
  <2> QED BY <2>2, <2>3, <2>4
<1>17. Shape(s1.stack[Top], rm)
  <2> DEFINE F == s0.stack[Top]
             G == s1.stack[Top]
  <2>1. DOMAIN G = DOMAIN F /\ Len(G) = Len(F) /\ \A n \in DOMAIN F : G[n].kind = F[n].kind
    BY <1>0, <1>16
  <2>2. Shape(F, rm)
    BY <1>1
  <2> HIDE DEF F, G
  <2>3. Shape(G, rm)
    BY <2>1, <2>2 DEF Shape
  <2> QED BY <2>3 DEF G
<1>18. Ties(s1)
  <2>1. \A p \in Objects : s0.stack[p] # <<>> => 1 \in DOMAIN s0.stack[p]
    <3> SUFFICES ASSUME NEW p \in Objects PROVE s0.stack[p] # <<>> => 1 \in DOMAIN s0.stack[p]
      OBVIOUS
    <3> DEFINE F == s0.stack[p]
    <3>1. F \in Seq(Frames)
      BY <1>1, StateParts
    <3> HIDE DEF F
    <3> QED BY <3>1, Framed DEF F
  <2>2. Len(s0.stack[Extra]) = 1 => s0.stack[Extra] # <<>>
    <3> DEFINE F == s0.stack[Extra]
    <3>1. F \in Seq(Frames)
      BY <1>0, <1>1, StateParts
    <3> HIDE DEF F
    <3>2. ASSUME Len(F) = 1 PROVE F # <<>>
      BY <3>1, <3>2, OneLong
    <3> QED BY <3>2 DEF F
  <2> QED BY SMTT(30), <1>0, <1>1, <1>12, <1>16, <2>1, <2>2 DEF Ties
<1>19. Outputs(s1)
  BY SMTT(30), <1>0, <1>1, <1>12, <1>16 DEF Outputs
<1>20. Links(s1)
  <2>1. Sub \in s1.parent /\ (Extra \in DOMAIN s1.dict[Top] => Extra \in s1.parent)
        /\ DOMAIN s1.dict[Sub] \subseteq Leaves /\ Whole(s1.contents[Extra], s1.dict[Extra])
    BY <1>0, <1>1, <1>12 DEF Links
  <2>2. \A n \in DOMAIN s1.stack[Top] : Sub \in DOMAIN s1.dict[Top] => s1.dict[Top][Sub] <= s1.stack[Top][n].end
    BY <1>0, <1>1, <1>12, <1>16 DEF Links
  <2>3. ASSUME NEW p \in {Top, Sub}, NEW n \in DOMAIN s1.stack[p], NEW j \in DOMAIN s1.stack[p][n].backup,
               j <= s1.stack[p][n].end
        PROVE  s1.stack[p][n].backup[j][1] \in Leaves
    <3>1. CASE p # o
      BY <1>0, <1>1, <1>11, <2>3, <3>1 DEF Links
    <3>2. CASE p = o
      <4>1. s1.stack[p][n] = e /\ j \in DOMAIN e.backup /\ j <= f.end
        BY <1>6, <1>11, <2>3, <3>2
      <4>2. e.backup[j] = IF j = i THEN c[i] ELSE f.backup[j]
        BY <1>6, <4>1 DEF With, Over
      <4>3. j # i => j \in DOMAIN f.backup
        BY <1>6, <4>1 DEF With, Over
      <4>4. j \in DOMAIN f.backup => f.backup[j][1] \in Leaves
        BY <1>1, <1>2, <4>1 DEF Links, f
      <4> QED BY <1>4, <4>1, <4>2, <4>3, <4>4
    <3> QED BY <3>1, <3>2
  <2> QED BY <2>1, <2>2, <2>3 DEF Links
<1>21. OwnGaps(s1)
  <2>1. ASSUME NEW q \in Objects, NEW p \in {Top, Sub}, p # q, NEW n \in DOMAIN s1.stack[q]
        PROVE  s1.stack[q][n].temps.gap[p] = 0
    BY <1>1, <1>16, <2>1 DEF OwnGaps
  <2>2. \A n \in DOMAIN s1.stack[Extra] : s1.stack[Extra][n].end = 0
    BY <1>0, <1>1, <1>16 DEF OwnGaps
  <2> QED BY <2>1, <2>2 DEF OwnGaps
<1>22. Good(s1, rm)
  BY <1>11, <1>14, <1>15, <1>17, <1>18, <1>19, <1>20, <1>21 DEF Good
<1>23. e.kind = "rule" /\ Current(s1, o).outputs = Current(s0, o).outputs
  BY <1>2, <1>6, <1>11 DEF f
<1> QED BY <1>11, <1>12, <1>22, <1>23 DEF rm

(* Replacing a frame twice.                                                             *)
LEMMA SetTwice ==
  ASSUME NEW s0 \in States, NEW o \in Objects, s0.stack[o] # <<>>, NEW e \in Frames, NEW f \in Frames
  PROVE  SetFrame(SetFrame(s0, o, e), o, f) = SetFrame(s0, o, f)
<1> DEFINE F == s0.stack[o]
           n == Len(F)
           G == [F EXCEPT ![n] = e]
           K == [F EXCEPT ![n] = f]
           X == [s0.stack EXCEPT ![o] = G]
           s1 == SetFrame(s0, o, e)
<1>1. F \in Seq(Frames) /\ F # <<>>
  BY StateParts
<1>2. s1 = [s0 EXCEPT !.stack = X]
  BY StateParts DEF SetFrame
<1>3. Len(G) = n /\ [G EXCEPT ![n] = f] = K
  <2> HIDE DEF F
  <2>1. Len(G) = n
    BY <1>1
  <2>2. /\ [G EXCEPT ![n] = f] = [i \in DOMAIN F |-> IF i = n THEN f ELSE F[i]]
        /\ K = [i \in DOMAIN F |-> IF i = n THEN f ELSE F[i]]
    BY Zenon
  <2> QED BY <2>1, <2>2
<1>4. s1.stack = X /\ X[o] = G /\ s1 = [s0 EXCEPT !.stack = X]
  <2> HIDE DEF s1, G
  <2> QED BY <1>2, StateParts DEF States
<1>5. SetFrame(s1, o, f) = [s1 EXCEPT !.stack = [X EXCEPT ![o] = K]]
  <2>1. SetFrame(s1, o, f) = [s1 EXCEPT !.stack[o][Len(s1.stack[o])] = f]
    BY DEF SetFrame
  <2>2. Len(s1.stack[o]) = n
    BY <1>3, <1>4
  <2> HIDE DEF n, G, K, F, s1, X
  <2>3. SetFrame(s1, o, f) = [s1 EXCEPT !.stack = [s1.stack EXCEPT ![o] = [s1.stack[o] EXCEPT ![n] = f]]]
    BY <2>1, <2>2
  <2>4. s1.stack[o] = G
    BY <1>4
  <2> QED BY <1>3, <1>4, <2>3, <2>4
<1>6. [X EXCEPT ![o] = K] = [s0.stack EXCEPT ![o] = K]
  <2> HIDE DEF G, K
  <2> QED BY StateParts
<1>7. SetFrame(s0, o, f) = [s0 EXCEPT !.stack = [s0.stack EXCEPT ![o] = K]]
  BY StateParts DEF SetFrame
<1> DEFINE Y == [s0.stack EXCEPT ![o] = K]
<1>8. SetFrame(s1, o, f) = [s1 EXCEPT !.stack = Y] /\ SetFrame(s0, o, f) = [s0 EXCEPT !.stack = Y]
  BY <1>5, <1>6, <1>7
<1> HIDE DEF X, Y, G, K, s1
<1>9. [s1 EXCEPT !.stack = Y] = [s0 EXCEPT !.stack = Y]
  BY <1>4 DEF States
<1> QED BY <1>8, <1>9 DEF s1

\* k is noted as an output of the current rule.
WithOutput(s0, o, k) == SetFrame(s0, o, [Current(s0, o) EXCEPT !.outputs = @ \cup {k}])

(* That is all it changes.                                                              *)
LEMMA NotesOutput ==
  ASSUME NEW s0, NEW rm, Good(s0, rm), NEW o \in {Top, Sub}, s0.stack[o] # <<>>, Current(s0, o).kind = "rule",
         NEW k \in DOMAIN s0.dict[o]
  PROVE  LET s1 == WithOutput(s0, o, k)
         IN  /\ Good(s1, rm) /\ Same(s1, s0) /\ BackupsKept(s1, s0) /\ Current(s1, o).kind = "rule"
             /\ \A p \in Objects : (s1.stack[p] = <<>> <=> s0.stack[p] = <<>>)
             /\ \A p \in Objects : p # o => s1.stack[p] = s0.stack[p]
<1> DEFINE F == s0.stack[o]
           f == Current(s0, o)
           e == [f EXCEPT !.outputs = @ \cup {k}]
<1>0. o \in Objects
  BY Different
<1>1. f \in Frames /\ f.outputs \subseteq DOMAIN s0.dict[o] /\ k \in Keys
  <2>1. F \in Seq(Frames) /\ F # <<>> /\ s0.dict[o] \in Dicts
    BY <1>0, StateParts DEF Good
  <2>2. f = Last(F) /\ f.kind = "rule"
    BY DEF Current
  <2> HIDE DEF F, f
  <2>3. Len(F) \in DOMAIN F /\ f = F[Len(F)] /\ f \in Frames
    BY <2>1, <2>2, Framed
  <2>4. f.outputs \subseteq DOMAIN s0.dict[o]
    BY <2>2, <2>3 DEF Good, Outputs, F
  <2> QED BY <2>1, <2>3, <2>4, Dictionary
<1>2. f.kind = "rule"
  OBVIOUS
<1> HIDE DEF f
<1>3. /\ e \in Frames /\ Kept(e, f) /\ SameGaps(e, f) /\ e.outputs \subseteq DOMAIN s0.dict[o] /\ e.kind = "rule"
  <2>1. f.outputs \cup {k} \in SUBSET Keys
    BY <1>1, Fields
  <2> QED BY <1>1, <1>2, <2>1 DEF Frames, Kept, Alike, SameGaps
<1> HIDE DEF e
<1>4. Kept(e, Current(s0, o)) /\ SameGaps(e, Current(s0, o))
  BY <1>3 DEF f
<1> DEFINE s1 == SetFrame(s0, o, e)
<1>5. /\ Good(s1, rm) /\ Same(s1, s0) /\ BackupsKept(s1, s0) /\ Current(s1, o) = e
      /\ \A p \in Objects : (s1.stack[p] = <<>> <=> s0.stack[p] = <<>>)
      /\ \A p \in Objects : p # o => s1.stack[p] = s0.stack[p]
  BY <1>3, <1>4, SetsOutputs
<1>6. s1 = WithOutput(s0, o, k)
  BY DEF WithOutput, e, f
<1> HIDE DEF s1
<1> QED BY <1>3, <1>5, <1>6

\* What an output holds until the rule assigns it.
Placeholder(k) == <<k, NoValue, FALSE>>

(* How an output is prepared.                                                           *)
LEMMA PrepareIs ==
  ASSUME NEW s0, NEW rm, NEW o \in {Top, Sub}, NEW k \in Leaves, NEW s1, s1 = Reach(s0, o), Good(s1, rm),
         s1.stack[o] # <<>>
  PROVE  /\ k \in DOMAIN s1.dict[o] =>
              PrepareOutput(s0, <<o, k>>) = WithOutput(Hidden(s1, o, k, Placeholder(k)), o, k)
         /\ k \notin DOMAIN s1.dict[o] =>
              PrepareOutput(s0, <<o, k>>) = WithOutput(Appended(s1, o, k, Placeholder(k)), o, k)
<1> DEFINE cell == Placeholder(k)
           f    == Current(s1, o)
<1>0. o \in Objects /\ k \in Keys
  BY Different
<1>1. s1 \in States /\ cell \in Cells /\ cell[1] = k /\ cell = <<k, NoValue, FALSE>>
  BY <1>0 DEF Good, Placeholder, Cells, CellValues
<1>2. f \in Frames
  <2> DEFINE F == s1.stack[o]
  <2>1. F \in Seq(Frames) /\ F # <<>>
    BY <1>0, <1>1, StateParts
  <2> HIDE DEF F
  <2>2. Last(F) \in Frames
    BY <2>1, Framed
  <2> QED BY <2>2 DEF Current, F
<1>3. ASSUME k \in DOMAIN s1.dict[o]
      PROVE  PrepareOutput(s0, <<o, k>>) = WithOutput(Hidden(s1, o, k, cell), o, k)
  <2> DEFINE i  == s1.dict[o][k]
             sm == [s1 EXCEPT !.contents[o][i] = cell]
             b  == With(f.backup, i, Cell(s1, o, k))
             e  == [f EXCEPT !.backup = b]
             q  == [f EXCEPT !.backup = b, !.outputs = @ \cup {k}]
  <2>1. PrepareOutput(s0, <<o, k>>) = SetFrame(sm, o, q)
    BY <1>1, <1>3 DEF PrepareOutput
  <2>2. Hidden(s1, o, k, cell) = SetFrame(sm, o, e)
    BY DEF Hidden
  <2>3. Good(sm, rm) /\ SameStacks(sm, s1)
    <3> HIDE DEF cell
    <3> QED BY <1>1, <1>3, Overwrites
  <2>4. b \in Backups
    <3>1. f.backup \in Backups
      BY <1>2, Fields
    <3>2. i \in Nat /\ Cell(s1, o, k) \in Cells
      <4>1. s1.contents[o] \in Contents /\ Whole(s1.contents[o], s1.dict[o])
        BY <1>0, <1>1, StateParts DEF Good, Part, Stacked
      <4>2. i \in DOMAIN s1.contents[o] /\ s1.contents[o][i] # Gap
        BY <1>3, <4>1 DEF Whole
      <4> HIDE DEF i
      <4>3. i \in Nat /\ s1.contents[o][i] \in Cells
        BY <4>1, <4>2, Sequence
      <4> QED BY <4>3 DEF Cell, i
    <3> QED BY <3>1, <3>2, Backup
  <2> HIDE DEF f, cell, sm, b, i
  <2>5. e \in Frames /\ q \in Frames /\ q = [e EXCEPT !.outputs = @ \cup {k}]
    <3>1. f.outputs \cup {k} \in SUBSET Keys
      BY <1>0, <1>2, Fields
    <3> QED BY <1>2, <2>4, <3>1 DEF Frames
  <2>6. sm.stack[o] # <<>> /\ sm \in States
    BY <2>3 DEF SameStacks, Good
  <2> HIDE DEF e, q
  <2>7. Current(SetFrame(sm, o, e), o) = e
    BY <1>0, <2>5, <2>6, SetFrameIs
  <2>8. SetFrame(SetFrame(sm, o, e), o, q) = SetFrame(sm, o, q)
    BY <1>0, <2>5, <2>6, SetTwice
  <2>9. WithOutput(Hidden(s1, o, k, cell), o, k) = SetFrame(SetFrame(sm, o, e), o, q)
    BY <2>2, <2>5, <2>7 DEF WithOutput
  <2> QED BY <2>1, <2>8, <2>9
<1>4. ASSUME k \notin DOMAIN s1.dict[o]
      PROVE  PrepareOutput(s0, <<o, k>>) = WithOutput(Appended(s1, o, k, cell), o, k)
  <2> DEFINE sm == Appended(s1, o, k, cell)
  <2>1. PrepareOutput(s0, <<o, k>>) = SetFrame(sm, o, [f EXCEPT !.outputs = @ \cup {k}])
    BY <1>1, <1>4 DEF PrepareOutput, Appended
  <2>2. sm.stack = s1.stack
    BY <1>1 DEF Appended, States
  <2>3. Current(sm, o) = f
    BY <2>2 DEF Current
  <2> HIDE DEF sm, f
  <2> QED BY <2>1, <2>3 DEF WithOutput, sm
<1> QED BY <1>3, <1>4

(* Preparing an output outside of remove() ...                                          *)
LEMMA PreparesOutside ==
  ASSUME NEW s0, Good(s0, NotRemoving), s0.stack[Top] # <<>>, s0.stack[Top][1].kind = "rule",
         NEW o \in {Top, Sub}, NEW k \in Leaves, o = Sub => Sub \in DOMAIN s0.dict[Top]
  PROVE  LET s1 == PrepareOutput(s0, <<o, k>>)
         IN  /\ Good(s1, NotRemoving) /\ s1.stack[Top] # <<>> /\ s1.stack[Top][1].kind = "rule"
             /\ DOMAIN s0.dict[Top] \subseteq DOMAIN s1.dict[Top]
<1> DEFINE cell == Placeholder(k)
           t    == Reach(s0, o)
           u    == IF k \in DOMAIN t.dict[o] THEN Hidden(t, o, k, cell) ELSE Appended(t, o, k, cell)
           s1   == PrepareOutput(s0, <<o, k>>)
<1>0. o \in Objects /\ k \in Keys /\ Top \in Objects /\ Sub \in Objects /\ Top # Sub
  BY Different
<1>1. cell \in Cells /\ cell[1] = k
  BY <1>0 DEF Placeholder, Cells, CellValues
<1>2. /\ Good(t, NotRemoving) /\ t.dict = s0.dict /\ t.stack[Top] # <<>> /\ t.stack[Top][1].kind = "rule"
      /\ t.stack[o] # <<>> /\ t.stack[o][1].kind = "rule"
  <2>1. CASE o = Top
    BY <2>1 DEF Reach
  <2>2. CASE o = Sub
    <3>1. t = Descend(s0, Sub, FALSE)
      BY <1>0, <2>2 DEF Reach
    <3> HIDE DEF t
    <3>2. /\ Good(t, NotRemoving) /\ Same(t, s0) /\ t.stack[Top] # <<>> /\ Alike(t.stack[Top][1], s0.stack[Top][1])
          /\ t.stack[Sub] # <<>> /\ t.stack[Sub][1].kind = s0.stack[Top][1].kind
      BY <2>2, <3>1, Descends
    <3> QED BY <2>2, <3>2 DEF Same, Alike
  <2> QED BY <2>1, <2>2
<1> HIDE DEF cell, t
<1>3. /\ Good(u, NotRemoving) /\ u.stack[o] # <<>> /\ u.stack[o][1].kind = "rule"
      /\ \A p \in Objects : p # o => u.stack[p] = t.stack[p]
      /\ DOMAIN t.dict[Top] \subseteq DOMAIN u.dict[Top] /\ k \in DOMAIN u.dict[o]
  <2>1. CASE k \in DOMAIN t.dict[o]
    <3>1. u = Hidden(t, o, k, cell)
      BY <2>1
    <3> HIDE DEF u
    <3>2. /\ Good(u, NotRemoving) /\ u.dict = t.dict /\ u.stack[o] # <<>> /\ u.stack[o][1].kind = "rule"
          /\ \A p \in Objects : p # o => u.stack[p] = t.stack[p]
      BY <1>1, <1>2, <2>1, <3>1, Hides
    <3> QED BY <2>1, <3>2
  <2>2. CASE k \notin DOMAIN t.dict[o]
    <3>1. u = Appended(t, o, k, cell)
      BY <2>2
    <3> HIDE DEF u
    <3> DEFINE rm == NotRemoving
    <3>2. t.stack[o] # <<>> => t.stack[o][1].kind = "rule" \/
           \A i \in DOMAIN t.stack[o][1].backup : t.stack[o][1].backup[i][1] = k => k \in Free(o, rm)
      BY <1>2
    <3>3. Good(t, rm) /\ k = cell[1] /\ (k \in Leaves \/ (o = Top /\ k = Extra /\ Extra \in t.parent))
      BY <1>1, <1>2
    <3> HIDE DEF rm
    <3>4. /\ Good(u, rm) /\ SameStacks(u, t)
          /\ \A p \in Objects : p # o => u.contents[p] = t.contents[p] /\ u.dict[p] = t.dict[p]
          /\ DOMAIN u.dict[o] = DOMAIN t.dict[o] \cup {k}
      BY ONLY <1>1, <2>2, <3>1, <3>2, <3>3, Appends, o \in {Top, Sub}
    <3>5. u.stack = t.stack
      BY <3>4 DEF SameStacks
    <3> QED BY <1>0, <1>2, <3>4, <3>5 DEF rm
  <2> QED BY <2>1, <2>2
<1>4. s1 = WithOutput(u, o, k)
  <2>1. t = Reach(s0, o)
    BY DEF t
  <2>2. /\ k \in DOMAIN t.dict[o] => s1 = WithOutput(Hidden(t, o, k, cell), o, k)
        /\ k \notin DOMAIN t.dict[o] => s1 = WithOutput(Appended(t, o, k, cell), o, k)
    <3> HIDE DEF s1
    <3> QED BY <1>2, <2>1, PrepareIs DEF cell, s1
  <2> HIDE DEF s1
  <2> QED BY <2>2
<1> HIDE DEF u, s1
<1>5. Current(u, o) = u.stack[o][1]
  BY <1>3, OneFrame
<1>6. /\ Good(s1, NotRemoving) /\ Same(s1, u) /\ Current(s1, o).kind = "rule"
      /\ \A p \in Objects : (s1.stack[p] = <<>> <=> u.stack[p] = <<>>)
      /\ \A p \in Objects : p # o => s1.stack[p] = u.stack[p]
  BY <1>3, <1>4, <1>5, NotesOutput
<1>7. s1.stack[o] # <<>> /\ s1.stack[o][1].kind = "rule"
  <2>1. s1.stack[o] # <<>>
    BY <1>0, <1>3, <1>6
  <2>2. Current(s1, o) = s1.stack[o][1]
    BY <1>6, <2>1, OneFrame
  <2> QED BY <1>6, <2>1, <2>2
<1>8. s1.stack[Top] # <<>> /\ s1.stack[Top][1].kind = "rule"
  BY <1>0, <1>2, <1>3, <1>6, <1>7
<1>9. DOMAIN s0.dict[Top] \subseteq DOMAIN s1.dict[Top]
  BY <1>2, <1>3, <1>6 DEF Same
<1> QED BY <1>6, <1>8, <1>9 DEF s1

(* ... and within.                                                                      *)
LEMMA PreparesWithin ==
  ASSUME NEW s0, NEW rm, Good(s0, rm), s0.stack[Top] # <<>>, Current(s0, Top).kind = "rule",
         NEW k \in Leaves, k \notin DOMAIN s0.dict[Top],
         \A i \in DOMAIN s0.stack[Top][1].backup : s0.stack[Top][1].backup[i][1] = k => k \in Free(Top, rm)
  PROVE  LET s1 == PrepareOutput(s0, <<Top, k>>)
         IN  /\ Good(s1, rm) /\ BackupsKept(s1, s0) /\ s1.stack[Top] # <<>> /\ Current(s1, Top).kind = "rule"
             /\ DOMAIN s1.dict[Top] = DOMAIN s0.dict[Top] \cup {k}
<1> DEFINE cell == Placeholder(k)
           u    == Appended(s0, Top, k, cell)
           s1   == PrepareOutput(s0, <<Top, k>>)
           o    == Top
<1>0. o \in Objects /\ k \in Keys /\ Top \in Objects /\ Sub \in Objects /\ Top # Sub /\ o \in {Top, Sub}
  BY Different
<1>1. cell \in Cells /\ cell[1] = k
  BY <1>0 DEF Placeholder, Cells, CellValues
<1> HIDE DEF cell
<1>2. /\ Good(u, rm) /\ SameStacks(u, s0) /\ DOMAIN u.dict[Top] = DOMAIN s0.dict[Top] \cup {k}
  <2>1. u = Appended(s0, o, k, cell)
    OBVIOUS
  <2>2. s0.stack[o] # <<>> => s0.stack[o][1].kind = "rule" \/
           \A i \in DOMAIN s0.stack[o][1].backup : s0.stack[o][1].backup[i][1] = k => k \in Free(o, rm)
    OBVIOUS
  <2>3. Good(s0, rm) /\ k = cell[1] /\ k \notin DOMAIN s0.dict[o] /\ (k \in Leaves \/ (o = Top /\ k = Extra /\ Extra \in s0.parent))
    BY <1>1
  <2>4. o = Top
    OBVIOUS
  <2> HIDE DEF u, o
  <2>5. /\ Good(u, rm) /\ SameStacks(u, s0)
        /\ DOMAIN u.dict[o] = DOMAIN s0.dict[o] \cup {k}
    BY ONLY <1>0, <1>1, <2>1, <2>2, <2>3, Appends
  <2> QED BY <2>4, <2>5
<1>3. s1 = WithOutput(u, Top, k)
  <2>1. s0 = Reach(s0, o)
    BY DEF Reach
  <2>2. s1 = WithOutput(Appended(s0, o, k, cell), o, k)
    <3>1. k \notin DOMAIN s0.dict[o] /\ s0.stack[o] # <<>> /\ s1 = PrepareOutput(s0, <<o, k>>)
      OBVIOUS
    <3> HIDE DEF s1, o
    <3> QED BY <1>0, <2>1, <3>1, PrepareIs DEF cell
  <2> QED BY <2>2
<1> HIDE DEF u, s1
<1>4. u.stack = s0.stack /\ Current(u, Top) = Current(s0, Top)
  BY <1>2 DEF SameStacks, Current
<1>5. /\ Good(s1, rm) /\ Same(s1, u) /\ BackupsKept(s1, u) /\ Current(s1, Top).kind = "rule"
      /\ \A p \in Objects : (s1.stack[p] = <<>> <=> u.stack[p] = <<>>)
  <2>1. u.stack[Top] # <<>> /\ Current(u, Top).kind = "rule" /\ k \in DOMAIN u.dict[Top]
    BY <1>2, <1>4
  <2> QED BY <1>2, <1>3, <2>1, NotesOutput
<1>6. BackupsKept(s1, s0)
  BY <1>4, <1>5 DEF BackupsKept
<1>7. DOMAIN s1.dict[Top] = DOMAIN s0.dict[Top] \cup {k} /\ s1.stack[Top] # <<>>
  BY <1>0, <1>2, <1>4, <1>5 DEF Same
<1> QED BY <1>5, <1>6, <1>7 DEF s1

(* What preparing its outputs one by one keeps true is true of a rule's transaction.    *)
LEMMA PreparesAll ==
  ASSUME NEW T, NEW r \in Seq(T), NEW base, NEW Q \in SUBSET ((SUBSET (DOMAIN r)) \X States), <<{}, base>> \in Q,
         \A S \in SUBSET (DOMAIN r) : \A i \in S : \A v \in States :
           <<S \ {i}, v>> \in Q => <<S, PrepareOutput(v, r[i])>> \in Q
  PROVE  <<DOMAIN r, FoldLeft(PrepareOutput, base, r)>> \in Q
<1> DEFINE P == DOMAIN r
           op(i, v) == PrepareOutput(v, r[i])
           next == [S \in SUBSET P |-> Max(S)]
           step == [p \in P \X States |-> op(p[1], p[2])]
           Eq(h) == h = [S \in SUBSET P |-> IF S = {} THEN base ELSE op(Max(S), h[S \ {Max(S)}])]
           f == CHOOSE h : Eq(h)
<1>0. P = 1..Len(r) /\ Len(r) \in Nat
  OBVIOUS
<1>1. IsFiniteSet(P) /\ \A S \in SUBSET P : S # {} => Max(S) \in S
  <2>1. IsFiniteSet(1..Len(r))
    BY <1>0, FS_Interval
  <2>2. \A S \in SUBSET (1..Len(r)) : S # {} => Max(S) \in S
    BY <1>0, GreatestIn DEF Max
  <2> QED BY <1>0, <2>1, <2>2
<1> HIDE DEF P
<1>2. \A S \in SUBSET P : S # {} => next[S] \in S /\ next[S] = Max(S)
  BY <1>1
<1>3. \A S \in SUBSET P : \A i \in S : \A v \in States : <<S \ {i}, v>> \in Q => <<S, op(i, v)>> \in Q
  BY DEF P
<1>4. Q \in SUBSET ((SUBSET P) \X States) /\ <<{}, base>> \in Q
  BY DEF P
<1>5. \A i \in P : \A v \in States : step[<<i, v>>] = op(i, v)
  <2> HIDE DEF op
  <2> QED OBVIOUS
<1>6. \A S \in SUBSET P : \A v : S # {} /\ <<S \ {next[S]}, v>> \in Q => <<S, step[<<next[S], v>>]>> \in Q
  <2> SUFFICES ASSUME NEW S \in SUBSET P, NEW v, S # {}, <<S \ {next[S]}, v>> \in Q
               PROVE  <<S, step[<<next[S], v>>]>> \in Q
    OBVIOUS
  <2>1. v \in States /\ next[S] \in S /\ next[S] \in P
    BY <1>2, <1>4
  <2> HIDE DEF op, next, step
  <2>2. <<S, op(next[S], v)>> \in Q
    BY <1>3, <2>1
  <2> QED BY <1>5, <2>1, <2>2
<1>7. Invariant(P, next, base, step, Q)
  <2> HIDE DEF next, step, op
  <2> QED BY <1>2, <1>4, <1>6 DEF Invariant
<1>8. PICK h : Folded(h, P, next, base, step) /\ \A S \in SUBSET P : <<S, h[S]>> \in Q
  <2> HIDE DEF next, step, op
  <2> QED BY ONLY <1>1, <1>7, FoldedGood
<1>9. \A S \in SUBSET P : h[S] \in States
  BY <1>4, <1>8
<1>10. Eq(h)
  <2>1. h = [S \in SUBSET P |-> IF S = {} THEN base ELSE step[<<next[S], h[S \ {next[S]}]>>]]
    <3> HIDE DEF next, step, op
    <3> QED BY <1>8 DEF Folded
  <2>2. \A S \in SUBSET P : S # {} => step[<<next[S], h[S \ {next[S]}]>>] = op(Max(S), h[S \ {Max(S)}])
    <3> SUFFICES ASSUME NEW S \in SUBSET P, S # {}
                 PROVE  step[<<next[S], h[S \ {next[S]}]>>] = op(Max(S), h[S \ {Max(S)}])
      OBVIOUS
    <3>1. next[S] = Max(S) /\ Max(S) \in P /\ S \ {Max(S)} \in SUBSET P
      BY <1>1, <1>2
    <3>2. h[S \ {Max(S)}] \in States
      BY <1>9, <3>1
    <3> HIDE DEF next, step, op
    <3> QED BY <1>5, <3>1, <3>2
  <2> HIDE DEF next, step, op
  <2> QED BY <2>1, <2>2
<1>11. Eq(f)
  <2> HIDE DEF Eq
  <2> QED BY <1>10
<1>12. FoldLeft(PrepareOutput, base, r) = f[P]
  BY DEF FoldLeft, MapThenFoldSet, P
<1> HIDE DEF f
<1>13. f[{}] = base /\ \A S \in SUBSET P : S # {} => f[S] = op(Max(S), f[S \ {Max(S)}])
  <2> HIDE DEF op
  <2> QED BY <1>11
<1> DEFINE R == {S \in SUBSET P : <<S, f[S]>> \in Q}
<1>14. {} \in R
  BY <1>4, <1>13
<1>15. \A S \in SUBSET P : S # {} /\ S \ {next[S]} \in R => S \in R
  <2> SUFFICES ASSUME NEW S \in SUBSET P, S # {}, <<S \ {next[S]}, f[S \ {next[S]}]>> \in Q
               PROVE  <<S, f[S]>> \in Q
    OBVIOUS
  <2>1. next[S] = Max(S) /\ Max(S) \in S
    BY <1>2
  <2> HIDE DEF next, op
  <2>2. f[S \ {Max(S)}] \in States
    BY <1>4, <2>1
  <2>3. <<S, op(Max(S), f[S \ {Max(S)}])>> \in Q
    BY <1>3, <2>1, <2>2
  <2> QED BY <1>13, <2>3
<1>16. \A S \in SUBSET P : S # {} => next[S] \in S
  BY <1>2
<1>17. \A S \in SUBSET P : S \in R
  <2> HIDE DEF R, next
  <2> QED BY ONLY SMTT(30), <1>1, <1>14, <1>15, <1>16, SubsetInduction
<1> QED BY <1>12, <1>17 DEF P

(* The outputs of rules in a proper world.                                              *)
LEMMA RuleFacts ==
  ASSUME \A w \in Instances : Strict(w), IInv, NEW r \in Rules
  PROVE  /\ r \in Seq({Top, Sub} \X Leaves) /\ \A i, j \in DOMAIN r : r[i] = r[j] => i = j
         /\ \A i \in DOMAIN r : r[i][1] \in {Top, Sub} /\ r[i][2] \in Leaves /\ r[i] = <<r[i][1], r[i][2]>>
<1>1. Strict(instance)
  BY DEF IInv
<1>2. r \in Seq({Top, Sub} \X Leaves) /\ \A i, j \in DOMAIN r : r[i] = r[j] => i = j
  BY <1>1 DEF Strict, Rules
<1>3. \A i \in DOMAIN r : r[i] \in {Top, Sub} \X Leaves
  BY <1>2
<1> QED BY <1>2, <1>3

(* A rule starts, outside of remove() ...                                               *)
LEMMA StartsOutside ==
  ASSUME \A w \in Instances : Strict(w), IInv, NEW r \in Rules, MayRun(r), removing = NotRemoving
  PROVE  LET s1 == RuleTransaction(s, r)
         IN  Good(s1, removing) /\ Owned(s1, removing) /\ s1.stack[Top] # <<>> /\ Current(s1, Top).kind = "rule"
<1> DEFINE base == Push(s, Top, NewFrame(s, Top, "rule", FALSE))
           P == DOMAIN r
           Q == {p \in (SUBSET P) \X States :
                   /\ Good(p[2], NotRemoving) /\ p[2].stack[Top] # <<>> /\ p[2].stack[Top][1].kind = "rule"
                   /\ DOMAIN s.dict[Top] \subseteq DOMAIN p[2].dict[Top]}
           s1 == RuleTransaction(s, r)
<1>0. Top \in Objects /\ Sub \in Objects /\ Top # Sub
  BY Different
<1>1. Good(s, NotRemoving) /\ s.stack[Top] = <<>> /\ s.stack[Sub] = <<>>
  BY World DEF IInv, MayRun, FreeFor, InTransaction
<1>2. /\ Good(base, NotRemoving) /\ base.stack[Top] # <<>> /\ base.stack[Top][1].kind = "rule"
      /\ base.dict = s.dict
  <2> DEFINE kind == "rule"
  <2>1. kind \in {"plain", "rule"} /\ Top \in {Top, Sub} /\ (Top = Sub => kind = "plain")
        /\ base = Push(s, Top, NewFrame(s, Top, kind, FALSE))
    BY <1>0
  <2> HIDE DEF kind, base
  <2>2. Good(base, NotRemoving) /\ Same(base, s) /\ base.stack[Top] # <<>> /\ base.stack[Top][1].kind = kind
    BY ONLY <1>1, <2>1, Opens
  <2> QED BY <2>2 DEF Same, kind
<1>3. <<{}, base>> \in Q
  BY <1>2 DEF Good
<1>4. \A S \in SUBSET P : \A i \in S : \A v \in States : <<S \ {i}, v>> \in Q => <<S, PrepareOutput(v, r[i])>> \in Q
  <2> SUFFICES ASSUME NEW S \in SUBSET P, NEW i \in S, NEW v \in States, <<S \ {i}, v>> \in Q
               PROVE  <<S, PrepareOutput(v, r[i])>> \in Q
    OBVIOUS
  <2> DEFINE o == r[i][1]
             k == r[i][2]
             w == PrepareOutput(v, <<o, k>>)
  <2>1. Good(v, NotRemoving) /\ v.stack[Top] # <<>> /\ v.stack[Top][1].kind = "rule" /\ DOMAIN s.dict[Top] \subseteq DOMAIN v.dict[Top]
    OBVIOUS
  <2>2. o \in {Top, Sub} /\ k \in Leaves /\ r[i] = <<o, k>>
    BY RuleFacts
  <2>3. o = Sub => Sub \in DOMAIN v.dict[Top]
    <3>1. o \in Linked(s)
      BY DEF MayRun, InTree
    <3> QED BY <1>0, <1>1, <2>1, <3>1, Found
  <2> HIDE DEF o, k, w
  <2>4. Good(w, NotRemoving) /\ w.stack[Top] # <<>> /\ w.stack[Top][1].kind = "rule" /\ DOMAIN v.dict[Top] \subseteq DOMAIN w.dict[Top]
    BY <2>1, <2>2, <2>3, PreparesOutside DEF w
  <2>5. <<S, w>> \in Q
    BY <2>1, <2>4 DEF Good
  <2> QED BY <2>2, <2>5 DEF w
<1>5. s1 = FoldLeft(PrepareOutput, base, r)
  BY DEF RuleTransaction
<1>6. <<P, s1>> \in Q
  <2>1. Q \in SUBSET ((SUBSET P) \X States) /\ r \in Seq({Top, Sub} \X Leaves)
    BY RuleFacts
  <2> HIDE DEF Q, s1, base
  <2>2. <<P, FoldLeft(PrepareOutput, base, r)>> \in Q
    BY ONLY <1>3, <1>4, <2>1, PreparesAll
  <2> QED BY <1>5, <2>2
<1> HIDE DEF s1
<1>7. Good(s1, NotRemoving) /\ s1.stack[Top] # <<>> /\ s1.stack[Top][1].kind = "rule"
  BY <1>6
<1>8. Current(s1, Top) = s1.stack[Top][1]
  BY <1>0, <1>7, OneFrame
<1>9. Owned(s1, removing)
  BY DEF Owned, NotRemoving
<1> QED BY <1>7, <1>8, <1>9 DEF s1

(* ... and within.                                                                      *)
LEMMA StartsWithin ==
  ASSUME \A w \in Instances : Strict(w), IInv, NEW r \in Rules, MayRun(r), removing # NotRemoving
  PROVE  LET s1 == RuleTransaction(s, r)
         IN  Good(s1, removing) /\ Owned(s1, removing) /\ s1.stack[Top] # <<>> /\ Current(s1, Top).kind = "rule"
<1> DEFINE e  == NewFrame(s, Top, "rule", FALSE)
           base == Push(s, Top, e)
           F  == s.stack[Top]
           rm == removing
           P == DOMAIN r
           Q == {p \in (SUBSET P) \X States :
                   /\ Good(p[2], rm) /\ p[2].stack[Top] # <<>> /\ Current(p[2], Top).kind = "rule"
                   /\ BackupsKept(p[2], base)
                   /\ DOMAIN p[2].dict[Top] = DOMAIN s.dict[Top] \cup {r[i][2] : i \in p[1]}}
           s1 == RuleTransaction(s, r)
<1>0. Top \in Objects /\ Sub \in Objects /\ Top # Sub
  BY Different
<1>1. Good(s, rm) /\ Owned(s, rm) /\ rm # NotRemoving
  BY DEF IInv
<1>2. /\ (rm.by = "own" /\ Len(F) = 1 /\ \E x : rm.what = {x}) \/ (rm.by = "nested" /\ Len(F) = 2)
      /\ F \in Seq(Frames) /\ F # <<>> /\ \A n \in DOMAIN F : F[n].kind = "plain"
  <2>1. s.stack[Top] = <<>> \/ Current(s, Top).kind # "rule"
    BY DEF MayRun, RuleRunning, InTransaction
  <2> QED BY <1>1, <2>1, SearchIs
<1>3. /\ e \in Frames /\ e.kind = "rule" /\ e.subs = {} /\ e.outputs = {}
      /\ e.end = Len(s.contents[Top]) /\ DOMAIN e.backup = {} /\ \A p \in Objects : e.temps.gap[p] = 0
  <2> DEFINE kind == "rule"
             dep == FALSE
  <2>1. kind \in {"plain", "init", "rule"} /\ dep \in BOOLEAN /\ kind # "init" /\ s \in States
    BY <1>1 DEF Good
  <2>2. e = NewFrame(s, Top, kind, dep)
    OBVIOUS
  <2> HIDE DEF kind, dep, e
  <2>3. /\ e \in Frames /\ e.kind = kind /\ e.subs = {} /\ e.outputs = {}
        /\ e.end = Len(s.contents[Top]) /\ DOMAIN e.backup = {} /\ \A p \in Objects : e.temps.gap[p] = 0
    BY ONLY <1>0, <2>1, <2>2, NewFrameIs
  <2> QED BY <2>3 DEF kind
<1> HIDE DEF e, F, rm
<1>4. Shape(Append(F, e), rm)
  <2> DEFINE G == Append(F, e)
  <2>1. Len(G) = Len(F) + 1 /\ DOMAIN G = 1..(Len(F) + 1) /\ G[Len(F) + 1] = e /\ (\A n \in 1..Len(F) : G[n] = F[n])
        /\ DOMAIN F = 1..Len(F)
    <3>1. F \in Seq(Frames) /\ e \in Frames
      BY <1>2, <1>3
    <3> QED BY ONLY <3>1
  <2> HIDE DEF G
  <2>2. CASE rm.by = "own" /\ Len(F) = 1 /\ \E x : rm.what = {x}
    <3>1. Len(G) = 2 /\ DOMAIN G = 1..2 /\ G[2] = e /\ G[1] = F[1] /\ 1 \in DOMAIN F
      BY <2>1, <2>2
    <3>2. G[1].kind = "plain" /\ G[2].kind = "rule"
      BY <1>2, <1>3, <3>1
    <3>3. Shape(G, rm)
      BY <2>2, <3>1, <3>2 DEF Shape
    <3> QED BY <3>3 DEF G
  <2>3. CASE rm.by = "nested" /\ Len(F) = 2
    <3>1. Len(G) = 3 /\ DOMAIN G = 1..3 /\ G[3] = e /\ G[1] = F[1] /\ G[2] = F[2] /\ 1 \in DOMAIN F /\ 2 \in DOMAIN F
      BY <2>1, <2>3
    <3>2. G[1].kind = "plain" /\ G[2].kind = "plain" /\ G[3].kind = "rule"
      BY <1>2, <1>3, <3>1
    <3>3. Shape(G, rm)
      BY <2>3, <3>1, <3>2 DEF Shape
    <3> QED BY <3>3 DEF G
  <2> QED BY <1>2, <2>2, <2>3
<1>5. /\ Good(base, rm) /\ Same(base, s) /\ (\A p \in Objects : p # Top => base.stack[p] = s.stack[p])
      /\ base.stack[Top] # <<>> /\ Current(base, Top) = e
      /\ \A n \in DOMAIN base.stack[Top] :
           (n \in DOMAIN s.stack[Top] /\ base.stack[Top][n] = s.stack[Top][n]) \/ base.stack[Top][n] = e
  <2>1. s.stack[Top] # <<>> /\ \A o \in {Top, Sub} : Free(o, rm) = Free(o, rm)
    BY <1>2 DEF F
  <2>2. Shape(Append(s.stack[Top], e), rm) /\ base = Push(s, Top, e)
    BY <1>4 DEF F
  <2> HIDE DEF base
  <2> QED BY ONLY <1>1, <1>3, <2>1, <2>2, PushesInner
<1> HIDE DEF base
<1>6. Owned(base, rm)
  <2> SUFFICES ASSUME rm.by = "own", NEW o \in {Top, Sub}, NEW n \in DOMAIN base.stack[o],
                      NEW i \in DOMAIN base.stack[o][n].backup
               PROVE  base.stack[o][n].backup[i][1] \in Free(o, rm)
    BY DEF Owned
  <2>1. n \in DOMAIN s.stack[o] /\ base.stack[o][n] = s.stack[o][n]
    BY <1>0, <1>3, <1>5
  <2> QED BY <1>1, <2>1 DEF Owned
<1>7. <<{}, base>> \in Q
  <2>1. BackupsKept(base, base)
    BY DEF BackupsKept
  <2>2. base.dict = s.dict /\ base \in States
    BY <1>5 DEF Same, Good
  <2>3. {r[i][2] : i \in {}} = {}
    OBVIOUS
  <2> QED BY <1>3, <1>5, <2>1, <2>2, <2>3
<1>8. \A i \in DOMAIN r : /\ r[i][1] = Top /\ r[i][2] \in Leaves /\ r[i] = <<Top, r[i][2]>>
                          /\ r[i][2] \notin DOMAIN s.dict[Top]
                          /\ \A j \in DOMAIN r : r[j][2] = r[i][2] => j = i
                          /\ rm.by = "nested" => ~RemovedInTransaction(r[i])
  <2>1. \A i \in DOMAIN r : r[i][1] = Top /\ ~Has(s, r[i][1], r[i][2]) /\ (rm.by = "nested" => ~RemovedInTransaction(r[i]))
    BY World DEF MayRun, rm
  <2>2. \A i \in DOMAIN r : r[i][2] \notin DOMAIN s.dict[Top]
    BY <1>0, <1>1, <2>1, Found
  <2> QED BY <2>1, <2>2, RuleFacts
<1>9. \A S \in SUBSET P : \A i \in S : \A v \in States : <<S \ {i}, v>> \in Q => <<S, PrepareOutput(v, r[i])>> \in Q
  <2> SUFFICES ASSUME NEW S \in SUBSET P, NEW i \in S, NEW v \in States, <<S \ {i}, v>> \in Q
               PROVE  <<S, PrepareOutput(v, r[i])>> \in Q
    OBVIOUS
  <2> DEFINE k == r[i][2]
             w == PrepareOutput(v, <<Top, k>>)
  <2>1. /\ Good(v, rm) /\ v.stack[Top] # <<>> /\ Current(v, Top).kind = "rule" /\ BackupsKept(v, base)
        /\ DOMAIN v.dict[Top] = DOMAIN s.dict[Top] \cup {r[j][2] : j \in S \ {i}}
    OBVIOUS
  <2>2. k \in Leaves /\ r[i] = <<Top, k>> /\ k \notin DOMAIN v.dict[Top]
    BY <1>8, <2>1
  <2>3. \A j \in DOMAIN v.stack[Top][1].backup : v.stack[Top][1].backup[j][1] = k => k \in Free(Top, rm)
    <3> SUFFICES ASSUME NEW j \in DOMAIN v.stack[Top][1].backup, v.stack[Top][1].backup[j][1] = k
                 PROVE  k \in Free(Top, rm)
      OBVIOUS
    <3>1. 1 \in DOMAIN v.stack[Top]
      <4>1. v.stack[Top] \in Seq(Frames)
        BY <1>0, StateParts
      <4> QED BY <2>1, <4>1, Framed
    <3>2. 1 \in DOMAIN base.stack[Top] /\ base.stack[Top][1].backup = v.stack[Top][1].backup
      BY <2>1, <3>1 DEF BackupsKept
    <3>3. 1 \in DOMAIN s.stack[Top] /\ base.stack[Top][1] = s.stack[Top][1]
      BY <1>3, <1>5, <3>2
    <3>4. CASE rm.by = "own"
      BY <1>1, <3>2, <3>3, <3>4 DEF Owned
    <3>5. CASE rm.by = "nested"
      <4>1. ~Has(s, Top, k)
        BY <1>0, <1>1, <1>8, Found
      <4>2. RemovedInTransaction(r[i])
        BY SMTT(30), <1>8, <3>2, <3>3, <4>1 DEF RemovedInTransaction
      <4> QED BY <1>8, <3>5, <4>2
    <3> QED BY <1>2, <3>4, <3>5
  <2> HIDE DEF k, w
  <2>4. /\ Good(w, rm) /\ BackupsKept(w, v) /\ w.stack[Top] # <<>> /\ Current(w, Top).kind = "rule"
        /\ DOMAIN w.dict[Top] = DOMAIN v.dict[Top] \cup {k}
    BY <2>1, <2>2, <2>3, PreparesWithin DEF w
  <2>5. BackupsKept(w, base)
    BY <2>1, <2>4 DEF BackupsKept
  <2>6. DOMAIN w.dict[Top] = DOMAIN s.dict[Top] \cup {r[j][2] : j \in S}
    BY <2>1, <2>4 DEF k
  <2>7. w \in States
    BY <2>4 DEF Good
  <2>8. <<S, w>> \in Q
    BY <2>4, <2>5, <2>6, <2>7
  <2> QED BY <2>2, <2>8 DEF w
<1>10. s1 = FoldLeft(PrepareOutput, base, r)
  BY DEF RuleTransaction, base, e
<1>11. <<P, s1>> \in Q
  <2>1. Q \in SUBSET ((SUBSET P) \X States) /\ r \in Seq({Top, Sub} \X Leaves)
    BY RuleFacts
  <2> HIDE DEF Q, s1
  <2>2. <<P, FoldLeft(PrepareOutput, base, r)>> \in Q
    BY ONLY <1>7, <1>9, <2>1, PreparesAll
  <2> QED BY <1>10, <2>2
<1> HIDE DEF s1
<1>12. Good(s1, rm) /\ s1.stack[Top] # <<>> /\ Current(s1, Top).kind = "rule" /\ BackupsKept(s1, base)
  BY <1>11
<1>13. Owned(s1, rm)
  BY <1>6, <1>12, OwnedKept
<1> QED BY <1>12, <1>13 DEF s1, rm

(* A rule starts: placeholders for its outputs, backups of those that exist.            *)
LEMMA KeepsStartRule ==
  ASSUME \A w \in Instances : Strict(w), IInv, NEW r \in Rules, StartRule(r)
  PROVE  IInv'
<1>1. MayRun(r) /\ s' = RuleTransaction(s, r) /\ removing' = removing /\ instance' = instance /\ instance \in Instances
  BY DEF StartRule, IInv
<1>2. Good(RuleTransaction(s, r), removing) /\ Owned(RuleTransaction(s, r), removing)
  BY <1>1, StartsOutside, StartsWithin
<1> QED BY <1>1, <1>2 DEF IInv

(* A rule all of whose outputs exist is rolled back at once.                            *)
LEMMA KeepsSkipRule ==
  ASSUME \A w \in Instances : Strict(w), IInv, NEW r \in Rules, SkipRule(r)
  PROVE  IInv'
<1> DEFINE s1 == RuleTransaction(s, r)
<1>1. MayRun(r) /\ s' = Rollback(s1, Top) /\ removing' = removing /\ instance' = instance /\ instance \in Instances
  BY DEF SkipRule, IInv
<1>2. Good(s1, removing) /\ Owned(s1, removing) /\ s1.stack[Top] # <<>> /\ Current(s1, Top).kind = "rule"
  BY <1>1, StartsOutside, StartsWithin
<1> HIDE DEF s1
<1>3. Good(Rollback(s1, Top), removing) /\ Owned(Rollback(s1, Top), removing)
  BY <1>2, RuleRollsBack
<1> QED BY <1>1, <1>3 DEF IInv

-----------------------------------------------------------------------------
(* The rank of an index among those that stay.                                          *)
LEMMA Ranks ==
  ASSUME NEW n \in Nat, NEW T \in SUBSET (1..n)
  PROVE  /\ Cardinality(T) \in Nat
         /\ \A i \in T : UpTo(T, i) \in 1..Cardinality(T)
         /\ \A i, j \in T : UpTo(T, i) = UpTo(T, j) => i = j
         /\ \A m \in 1..Cardinality(T) : \E i \in T : UpTo(T, i) = m
         /\ \A g \in Nat : (\A i \in 1..n : i < g => i \in T) =>
              \A i \in T : (i < g => UpTo(T, i) = i) /\ (i >= g => UpTo(T, i) >= g)
<1> DEFINE B(i) == {j \in T : j <= i}
           N == Cardinality(T)
           R == [i \in T |-> UpTo(T, i)]
<1>0. IsFiniteSet(T) /\ N \in Nat /\ \A i \in T : i \in Nat /\ i >= 1 /\ i <= n
  <2>1. IsFiniteSet(1..n)
    BY FS_Interval
  <2>2. IsFiniteSet(T)
    BY <2>1, FS_Subset
  <2> QED BY <2>2, FS_CardinalityType
<1>1. ASSUME NEW i \in T
      PROVE  IsFiniteSet(B(i)) /\ UpTo(T, i) = Cardinality(B(i)) /\ UpTo(T, i) \in 1..N
  <2>1. B(i) \in SUBSET T /\ i \in B(i)
    BY <1>0
  <2> DEFINE b == B(i)
  <2>2. UpTo(T, i) = Cardinality(b)
    BY DEF UpTo
  <2>2a. b \in SUBSET T /\ i \in b
    BY <2>1
  <2> HIDE DEF b, N
  <2>3. IsFiniteSet(b) /\ Cardinality(b) <= N
    BY <1>0, <2>2a, FS_Subset DEF N
  <2>4. Cardinality(b) \in Nat \ {0}
    BY <2>2a, <2>3, OneLess
  <2> QED BY <1>0, <2>2, <2>3, <2>4 DEF b
<1>1a. \A i \in T : UpTo(T, i) \in Nat
  <2>1. \A i \in T : UpTo(T, i) \in 1..N
    BY <1>1
  <2> HIDE DEF N
  <2> QED BY <1>0, <2>1
<1>2. ASSUME NEW i \in T, NEW j \in T, i < j
      PROVE  UpTo(T, i) < UpTo(T, j)
  <2> DEFINE a == B(i)
             b == B(j)
  <2>1. a \in SUBSET b /\ a # b
    <3>1. j \in b /\ j \notin a
      BY <1>0, <1>2
    <3>2. \A x \in a : x \in b
      BY <1>0, <1>2
    <3> HIDE DEF a, b
    <3> QED BY <3>1, <3>2
  <2>2. IsFiniteSet(b) /\ UpTo(T, i) = Cardinality(a) /\ UpTo(T, j) = Cardinality(b)
        /\ Cardinality(a) \in Nat /\ Cardinality(b) \in Nat
    <3>1. UpTo(T, i) \in Nat /\ UpTo(T, j) \in Nat
      BY <1>1a
    <3> QED BY <1>1, <3>1
  <2> HIDE DEF a, b
  <2>3. Cardinality(a) <= Cardinality(b) /\ Cardinality(a) # Cardinality(b)
    BY <2>1, <2>2, FS_Subset
  <2> QED BY <2>2, <2>3
<1>3. \A i, j \in T : UpTo(T, i) = UpTo(T, j) => i = j
  <2> SUFFICES ASSUME NEW i \in T, NEW j \in T, UpTo(T, i) = UpTo(T, j), i # j PROVE FALSE
    OBVIOUS
  <2>1. i < j \/ j < i
    BY <1>0
  <2>2. UpTo(T, i) \in Nat
    BY <1>1a
  <2> QED BY <1>2, <2>1, <2>2
<1>4. \A m \in 1..N : \E i \in T : UpTo(T, i) = m
  <2> HIDE DEF N
  <2>1. R \in [T -> 1..N] /\ \A i \in T : R[i] = UpTo(T, i)
    BY <1>1
  <2> HIDE DEF R
  <2>2. R \in Injection(T, 1..N)
    BY <1>3, <2>1 DEF Injection, IsInjective
  <2>3. IsFiniteSet(1..N) /\ Cardinality(1..N) = Cardinality(T)
    <3>1. IsFiniteSet(1..N) /\ Cardinality(1..N) = IF 1 > N THEN 0 ELSE N - 1 + 1
      BY <1>0, FS_Interval
    <3> QED BY <1>0, <3>1 DEF N
  <2>4. R \in Surjection(T, 1..N)
    BY <2>2, <2>3, FS_Injection
  <2> QED BY <2>1, <2>4 DEF Surjection
<1>5. ASSUME NEW g \in Nat, \A i \in 1..n : i < g => i \in T, NEW i \in T
      PROVE  (i < g => UpTo(T, i) = i) /\ (i >= g => UpTo(T, i) >= g)
  <2>1. ASSUME i < g PROVE UpTo(T, i) = i
    <3>1. B(i) = 1..i
      <4>1. \A j \in 1..i : j \in T /\ j <= i
        BY <1>0, <1>5, <2>1
      <4>2. \A j \in B(i) : j \in 1..i
        BY <1>0
      <4>3. B(i) \subseteq T
        OBVIOUS
      <4> QED BY <4>1, <4>2
    <3>2. Cardinality(1..i) = i
      BY <1>0, FS_Interval
    <3> QED BY <1>1, <3>1, <3>2
  <2>2. ASSUME i >= g PROVE UpTo(T, i) >= g
    <3> DEFINE b == B(i)
               a == 1..g
    <3>1. CASE g = 0
      BY <1>1a, <3>1
    <3>2. CASE g # 0
      <4> DEFINE c == 1..(g - 1)
      <4>1. c \cup {i} \in SUBSET b
        <5>1. \A j \in c : j \in T /\ j <= i
          BY <1>0, <1>5, <2>2
        <5> QED BY <1>0, <5>1
      <4>2. IsFiniteSet(c) /\ Cardinality(c) = g - 1 /\ i \notin c
        <5>1. 1 \in Int /\ g - 1 \in Int /\ ~(1 > g - 1 /\ g > 1) /\ g \in Nat /\ g # 0
          BY <3>2
        <5>2. IsFiniteSet(c) /\ Cardinality(c) = IF 1 > g - 1 THEN 0 ELSE g - 1 - 1 + 1
          BY <5>1, FS_Interval
        <5>3. Cardinality(c) = g - 1
          BY <5>1, <5>2
        <5>4. i \notin c
          BY <1>0, <2>2
        <5> QED BY <5>2, <5>3, <5>4
      <4>3. IsFiniteSet(b) /\ UpTo(T, i) = Cardinality(b) /\ UpTo(T, i) \in Nat
        BY <1>1, <1>1a
      <4> HIDE DEF b, c
      <4>4. Cardinality(c \cup {i}) = g - 1 + 1
        BY <4>2, FS_AddElement
      <4>5. Cardinality(c \cup {i}) <= Cardinality(b)
        BY <4>1, <4>3, FS_Subset
      <4> QED BY <4>3, <4>4, <4>5
    <3> QED BY <3>1, <3>2
  <2> QED BY <2>1, <2>2
<1> QED BY <1>0, <1>1, <1>3, <1>4, <1>5

\* The dictionary once the cells from index g on have moved to c.
MovedIn(c, g) == {i \in DOMAIN c : g # 0 /\ i >= g}

Resettled(c, g, d) == Over([k \in {c[i][1] : i \in MovedIn(c, g)} |-> CHOOSE i \in MovedIn(c, g) : c[i][1] = k], d)

(* What Compacted makes of contents with a gap at g that are not cut off.               *)
LEMMA CompactedCells ==
  ASSUME NEW c \in Contents, NEW g \in Nat, g # 0, g < Len(c), c[g] = Gap
  PROVE  \E N \in Nat : \E P \in [1..N -> 1..Len(c)] :
           /\ Compacted(c, g) = [n \in 1..N |-> c[P[n]]]
           /\ \A n \in 1..N : P[n] # g /\ (n < g => P[n] = n) /\ (n >= g => P[n] > g /\ c[P[n]] # Gap)
           /\ \A n, m \in 1..N : P[n] = P[m] => n = m
           /\ \A i \in 1..Len(c) : i < g => i <= N
           /\ \A i \in 1..Len(c) : i > g /\ c[i] # Gap => \E n \in 1..N : n >= g /\ P[n] = i
<1> DEFINE L == Len(c)
           T == Staying(c, g)
           N == Cardinality(T)
           P == [m \in 1..N |-> CHOOSE i \in T : UpTo(T, i) = m]
<1>0. L \in Nat /\ DOMAIN c = 1..L
  BY Sequence
<1>1. /\ T \in SUBSET (1..L) /\ \A i \in 1..L : i < g => i \in T
      /\ \A i \in T : i # g /\ (i > g => c[i] # Gap) /\ i \in Nat
      /\ \A i \in 1..L : i > g /\ c[i] # Gap => i \in T
  BY <1>0 DEF Staying
<1>2. Compacted(c, g) = [n \in 1..N |-> c[P[n]]]
  <2>1. ~(g >= Len(c))
    BY <1>0
  <2>2. Compacted(c, g) = [n \in 1..N |-> c[CHOOSE i \in T : UpTo(T, i) = n]]
    BY <2>1 DEF Compacted
  <2> HIDE DEF N, T
  <2> QED BY <2>2
<1> HIDE DEF L, T
<1>3. /\ N \in Nat /\ \A i \in T : UpTo(T, i) \in 1..N
      /\ \A i, j \in T : UpTo(T, i) = UpTo(T, j) => i = j
      /\ \A m \in 1..N : \E i \in T : UpTo(T, i) = m
      /\ \A i \in T : (i < g => UpTo(T, i) = i) /\ (i >= g => UpTo(T, i) >= g)
  BY <1>0, <1>1, Ranks
<1> HIDE DEF N
<1>4. \A m \in 1..N : P[m] \in T /\ UpTo(T, P[m]) = m
  BY <1>3
<1>5. P \in [1..N -> 1..L]
  BY <1>1, <1>4
<1> HIDE DEF P
<1>6. \A n \in 1..N : P[n] # g /\ (n < g => P[n] = n) /\ (n >= g => P[n] > g /\ c[P[n]] # Gap)
  <2> SUFFICES ASSUME NEW n \in 1..N
               PROVE  P[n] # g /\ (n < g => P[n] = n) /\ (n >= g => P[n] > g /\ c[P[n]] # Gap)
    OBVIOUS
  <2>1a. P[n] \in T /\ UpTo(T, P[n]) = n
    BY <1>4
  <2>1b. n \in Nat
    BY <1>3
  <2>1. P[n] \in T /\ P[n] \in Nat /\ P[n] # g /\ n \in Nat /\ UpTo(T, P[n]) = n
    BY <1>1, <2>1a, <2>1b
  <2>2. (P[n] < g => n = P[n]) /\ (P[n] >= g => n >= g)
    BY <1>3, <2>1
  <2>3. (n < g => P[n] = n) /\ (n >= g => P[n] > g)
    BY <2>1, <2>2
  <2> QED BY <1>1, <2>1, <2>3
<1>7. \A n, m \in 1..N : P[n] = P[m] => n = m
  BY <1>4
<1>8. \A i \in 1..L : i < g => i <= N
  <2> SUFFICES ASSUME NEW i \in 1..L, i < g PROVE i <= N
    OBVIOUS
  <2>1. i \in T /\ UpTo(T, i) = i /\ UpTo(T, i) \in 1..N
    BY <1>1, <1>3
  <2> QED BY <1>3, <2>1
<1>9. \A i \in 1..L : i > g /\ c[i] # Gap => \E n \in 1..N : n >= g /\ P[n] = i
  <2> SUFFICES ASSUME NEW i \in 1..L, i > g, c[i] # Gap PROVE \E n \in 1..N : n >= g /\ P[n] = i
    OBVIOUS
  <2> DEFINE n == UpTo(T, i)
  <2>1. i \in T /\ i >= g
    BY <1>0, <1>1
  <2>2. n \in 1..N /\ n >= g
    BY <1>3, <2>1
  <2>3. P[n] \in T /\ UpTo(T, P[n]) = n
    BY <1>4, <2>2
  <2>4. P[n] = i
    BY <1>3, <2>1, <2>3
  <2> HIDE DEF n
  <2> QED BY <2>2, <2>4
<1> QED BY <1>2, <1>3, <1>5, <1>6, <1>7, <1>8, <1>9 DEF L

(* Compacting keeps contents and dictionary together.                                   *)
LEMMA CompactedWhole ==
  ASSUME NEW c \in Contents, NEW d \in Dicts, NEW g \in Nat, Whole(c, d), GapAt(c, g)
  PROVE  /\ Compacted(c, g) \in Contents /\ Resettled(Compacted(c, g), g, d) \in Dicts
         /\ Whole(Compacted(c, g), Resettled(Compacted(c, g), g, d))
         /\ DOMAIN Resettled(Compacted(c, g), g, d) \subseteq DOMAIN d
<1> DEFINE L  == Len(c)
           c1 == Compacted(c, g)
           M  == MovedIn(c1, g)
           K  == {c1[i][1] : i \in M}
           d1 == Resettled(c1, g, d)
<1>0. /\ L \in Nat /\ DOMAIN c = 1..L /\ \A i \in DOMAIN c : i \in Nat /\ c[i] \in Cells \cup {Gap}
      /\ d = [k \in DOMAIN d |-> d[k]] /\ DOMAIN d \subseteq Keys /\ \A k \in DOMAIN d : d[k] \in Nat
  BY Sequence, Dictionary
<1>1. /\ \A k \in DOMAIN d : d[k] \in DOMAIN c /\ c[d[k]] # Gap /\ c[d[k]][1] = k
      /\ \A i \in DOMAIN c : c[i] # Gap => c[i][1] \in DOMAIN d /\ d[c[i][1]] = i
  BY DEF Whole
<1>2. /\ d1 = [k \in K \cup DOMAIN d |-> IF k \in K THEN CHOOSE i \in M : c1[i][1] = k ELSE d[k]]
      /\ M = {i \in DOMAIN c1 : g # 0 /\ i >= g}
  <2> DEFINE e == [k \in K |-> CHOOSE i \in M : c1[i][1] = k]
  <2>1. d1 = Over(e, d)
    BY DEF Resettled
  <2>2. Over(e, d) = [k \in K \cup DOMAIN d |-> IF k \in K THEN e[k] ELSE d[k]]
    <3>1. DOMAIN e = K
      OBVIOUS
    <3> HIDE DEF e, K
    <3> QED BY <3>1 DEF Over
  <2>3. \A k \in K : e[k] = CHOOSE i \in M : c1[i][1] = k
    OBVIOUS
  <2>4. M = {i \in DOMAIN c1 : g # 0 /\ i >= g}
    BY DEF MovedIn
  <2> HIDE DEF e, K, M, c1, d1
  <2> QED BY <2>1, <2>2, <2>3, <2>4
<1>3. CASE M = {} /\ c1 \in Contents /\ (\A i \in DOMAIN c1 : i \in DOMAIN c /\ c1[i] = c[i])
           /\ \A i \in DOMAIN c : c[i] # Gap => i \in DOMAIN c1
  <2>1. K = {}
    BY <1>3
  <2> HIDE DEF M, K, c1, d1
  <2>2. d1 = [k \in DOMAIN d |-> d[k]]
    BY <1>2, <2>1
  <2>3. d1 = d
    BY <1>0, <2>2
  <2>4. Whole(c1, d)
    BY <1>1, <1>3 DEF Whole
  <2> QED BY <1>3, <2>3, <2>4 DEF c1, d1
<1>4. CASE g = 0
  <2>1. c1 = c
    BY <1>4 DEF Compacted
  <2>2. M = {}
    BY <1>4 DEF MovedIn
  <2> HIDE DEF c1, M, d1
  <2> QED BY <1>3, <2>1, <2>2
<1>5. CASE g # 0 /\ g >= L
  <2>1. g = L /\ c[g] = Gap
    BY <1>0, <1>5 DEF GapAt
  <2>2. c1 = Front(c)
    BY <1>5 DEF Compacted
  <2>3. c1 = [i \in 1..(L - 1) |-> c[i]]
    BY <2>2 DEF Front
  <2> HIDE DEF c1
  <2>4. DOMAIN c1 = 1..(L - 1) /\ \A i \in DOMAIN c1 : i \in DOMAIN c /\ c1[i] = c[i]
    BY <1>0, <2>3
  <2>5. c1 \in Contents
    <3>1. L - 1 \in Nat
      BY <1>0, <1>5, <2>1
    <3>2. \A i \in 1..(L - 1) : c1[i] \in Cells \cup {Gap}
      BY <1>0, <2>4
    <3> QED BY <2>3, <3>1, <3>2 DEF Contents
  <2>6. \A i \in DOMAIN c1 : ~(i >= g)
    BY <1>0, <2>1, <2>4
  <2>7. M = {}
    BY <2>6 DEF MovedIn
  <2>8. \A i \in DOMAIN c : c[i] # Gap => i \in DOMAIN c1
    BY <1>0, <2>1, <2>4
  <2> HIDE DEF M, d1
  <2> QED BY <1>3, <2>4, <2>5, <2>7, <2>8
<1>6. CASE g # 0 /\ g < L
  <2>1. c[g] = Gap
    BY <1>6 DEF GapAt
  <2>2a. PICK N \in Nat : \E P \in [1..N -> 1..L] :
           /\ c1 = [n \in 1..N |-> c[P[n]]]
           /\ \A n \in 1..N : P[n] # g /\ (n < g => P[n] = n) /\ (n >= g => P[n] > g /\ c[P[n]] # Gap)
           /\ \A n, m \in 1..N : P[n] = P[m] => n = m
           /\ \A i \in 1..L : i < g => i <= N
           /\ \A i \in 1..L : i > g /\ c[i] # Gap => \E n \in 1..N : n >= g /\ P[n] = i
    BY <1>6, <2>1, CompactedCells
  <2>2. PICK P \in [1..N -> 1..L] :
           /\ c1 = [n \in 1..N |-> c[P[n]]]
           /\ \A n \in 1..N : P[n] # g /\ (n < g => P[n] = n) /\ (n >= g => P[n] > g /\ c[P[n]] # Gap)
           /\ \A n, m \in 1..N : P[n] = P[m] => n = m
           /\ \A i \in 1..L : i < g => i <= N
           /\ \A i \in 1..L : i > g /\ c[i] # Gap => \E n \in 1..N : n >= g /\ P[n] = i
    BY <2>2a
  <2> HIDE DEF c1, d1
  <2>3. /\ DOMAIN c1 = 1..N /\ \A n \in 1..N : n \in Nat /\ P[n] \in DOMAIN c /\ P[n] \in Nat /\ c1[n] = c[P[n]]
        /\ \A n \in 1..N : n \in M <=> n >= g
        /\ M \subseteq 1..N
    BY <1>0, <1>2, <1>6, <2>2
  <2>4. c1 \in Contents
    <3>1. \A n \in 1..N : c1[n] \in Cells \cup {Gap}
      BY <1>0, <2>3
    <3> QED BY <2>2, <3>1 DEF Contents
  <2> HIDE DEF M
  <2>5. \A i \in M : c1[i] # Gap /\ c1[i][1] \in DOMAIN d /\ d[c1[i][1]] = P[i] /\ P[i] > g
    <3> SUFFICES ASSUME NEW i \in M
                 PROVE  c1[i] # Gap /\ c1[i][1] \in DOMAIN d /\ d[c1[i][1]] = P[i] /\ P[i] > g
      OBVIOUS
    <3>1. i \in 1..N /\ i >= g /\ P[i] > g /\ c[P[i]] # Gap /\ P[i] \in DOMAIN c /\ c1[i] = c[P[i]]
      BY <2>2, <2>3
    <3> QED BY <1>1, <3>1
  <2>6. K \subseteq DOMAIN d
    BY <2>5
  <2>7. DOMAIN d1 = DOMAIN d /\ \A k \in DOMAIN d : d1[k] = IF k \in K THEN CHOOSE i \in M : c1[i][1] = k ELSE d[k]
    <3> HIDE DEF K
    <3> QED BY <1>2, <2>6
  <2>8. \A k \in K : d1[k] \in M /\ c1[d1[k]][1] = k
    <3> SUFFICES ASSUME NEW k \in K PROVE d1[k] \in M /\ c1[d1[k]][1] = k
      OBVIOUS
    <3>1. d1[k] = CHOOSE i \in M : c1[i][1] = k
      BY <2>6, <2>7
    <3>2. \E i \in M : c1[i][1] = k
      OBVIOUS
    <3> QED BY <3>1, <3>2
  <2>9. ASSUME NEW k \in DOMAIN d, k \notin K
        PROVE  d1[k] = d[k] /\ d[k] < g /\ d[k] \in 1..N /\ P[d[k]] = d[k]
    <3> DEFINE j == d[k]
    <3>1. j \in DOMAIN c /\ j \in 1..L /\ j \in Nat /\ c[j] # Gap /\ c[j][1] = k
      BY <1>0, <1>1
    <3>2. j # g
      BY <2>1, <3>1
    <3>3. ~(j > g)
      <4> SUFFICES ASSUME j > g PROVE FALSE
        OBVIOUS
      <4> HIDE DEF j
      <4>1. PICK n \in 1..N : n >= g /\ P[n] = j
        BY <2>2, <3>1
      <4>2. n \in M /\ c1[n][1] = k
        BY <2>3, <3>1, <4>1
      <4> QED BY <2>9, <4>2
    <3>4. j < g
      BY <3>1, <3>2, <3>3
    <3> HIDE DEF j
    <3>5. j \in 1..N
      BY <2>2, <3>1, <3>4
    <3>6. P[j] = j
      BY <2>2, <3>4, <3>5
    <3> QED BY <2>7, <2>9, <3>4, <3>5, <3>6 DEF j
  <2>10. \A k \in DOMAIN d1 : d1[k] \in DOMAIN c1 /\ c1[d1[k]] # Gap /\ c1[d1[k]][1] = k /\ d1[k] \in Nat
    <3> SUFFICES ASSUME NEW k \in DOMAIN d1
                 PROVE  d1[k] \in DOMAIN c1 /\ c1[d1[k]] # Gap /\ c1[d1[k]][1] = k /\ d1[k] \in Nat
      OBVIOUS
    <3>1. CASE k \in K
      BY <2>3, <2>5, <2>8, <3>1
    <3>2. CASE k \notin K
      <4>1. k \in DOMAIN d /\ d1[k] = d[k] /\ d[k] \in 1..N /\ P[d[k]] = d[k] /\ c[d[k]] # Gap /\ c[d[k]][1] = k
        BY <1>1, <2>7, <2>9, <3>2
      <4>2. c1[d1[k]] = c[d[k]] /\ d1[k] \in DOMAIN c1 /\ d1[k] \in Nat
        BY <2>3, <4>1
      <4> QED BY <4>1, <4>2
    <3> QED BY <3>1, <3>2
  <2>11. \A i \in DOMAIN c1 : c1[i] # Gap => c1[i][1] \in DOMAIN d1 /\ d1[c1[i][1]] = i
    <3> SUFFICES ASSUME NEW i \in DOMAIN c1, c1[i] # Gap
                 PROVE  c1[i][1] \in DOMAIN d1 /\ d1[c1[i][1]] = i
      OBVIOUS
    <3> DEFINE k == c1[i][1]
    <3>1. i \in 1..N /\ c1[i] = c[P[i]] /\ P[i] \in DOMAIN c /\ k \in DOMAIN d /\ d[k] = P[i]
      BY <1>1, <2>3
    <3>2. CASE i >= g
      <4>1. k \in K /\ i \in M
        BY <2>3, <3>1, <3>2
      <4>2. d1[k] \in M /\ c1[d1[k]][1] = k
        BY <2>8, <4>1
      <4>3. d[k] = P[d1[k]] /\ d1[k] \in 1..N
        BY <2>3, <2>5, <4>2
      <4>3a. P[i] = P[d1[k]] /\ d1[k] \in 1..N /\ i \in 1..N
        BY <3>1, <4>3
      <4>3b. \A n, m \in 1..N : P[n] = P[m] => n = m
        BY <2>2
      <4>4. d1[k] = i
        <5> HIDE DEF k
        <5> QED BY ONLY <4>3a, <4>3b
      <4> QED BY <2>7, <3>1, <4>4
    <3>3. CASE ~(i >= g)
      <4>1. i < g /\ P[i] = i
        BY <2>2, <2>3, <3>1, <3>3
      <4>2. k \notin K
        <5> SUFFICES ASSUME k \in K PROVE FALSE
          OBVIOUS
        <5>1. d1[k] \in M /\ c1[d1[k]][1] = k
          BY <2>8
        <5>2. d[k] = P[d1[k]] /\ P[d1[k]] > g
          BY <2>5, <5>1
        <5>3. i > g /\ i \in Nat
          BY <2>3, <3>1, <4>1, <5>2
        <5> QED BY <4>1, <5>3
      <4>3. d1[k] = d[k]
        BY <2>9, <3>1, <4>2
      <4> QED BY <2>7, <3>1, <4>1, <4>3
    <3> QED BY <3>2, <3>3
  <2>12. Whole(c1, d1)
    BY <2>10, <2>11 DEF Whole
  <2>13. d1 \in Dicts
    <3>1. d1 = [k \in DOMAIN d1 |-> d1[k]]
      BY <1>2
    <3>2. d1 \in [DOMAIN d1 -> Nat]
      BY <2>10, <3>1
    <3> QED BY <1>0, <2>7, <3>2 DEF Dicts
  <2> QED BY <2>4, <2>7, <2>12, <2>13 DEF c1, d1
<1>7. g = 0 \/ (g # 0 /\ g >= L) \/ (g # 0 /\ g < L)
  BY <1>0
<1> QED BY <1>4, <1>5, <1>6, <1>7

\* Contents with their dictionary, and a gap in them.
Accounts == [contents : Contents, dict : Dicts, gap : Nat]

Tidy(acc) == acc \in Accounts /\ Whole(acc.contents, acc.dict) /\ GapAt(acc.contents, acc.gap)

(* Taking one property out.                                                             *)
LEMMA CleansOne ==
  ASSUME NEW acc, Tidy(acc), NEW k \in DOMAIN acc.dict
  PROVE  Tidy(Cleaned(acc, k)) /\ DOMAIN Cleaned(acc, k).dict = DOMAIN acc.dict \ {k}
<1> DEFINE c == acc.contents
           d == acc.dict
           g == acc.gap
           i == d[k]
           L == Len(c)
           e == [j \in DOMAIN d \ {k} |-> d[j]]
           r == Cleaned(acc, k)
<1>0. acc \in Accounts /\ c \in Contents /\ d \in Dicts /\ g \in Nat /\ Whole(c, d) /\ GapAt(c, g)
  BY DEF Tidy, Accounts
<1>1. k \in DOMAIN d
  OBVIOUS
<1>2. r = IF i = L THEN [acc EXCEPT !.contents = Front(@), !.dict = e]
          ELSE [contents |-> [c EXCEPT ![i] = Gap], dict |-> e, gap |-> AssignMin(g, i)]
  BY DEF Cleaned
<1> HIDE DEF c, d, g, r
<1>3. /\ L \in Nat /\ DOMAIN c = 1..L /\ \A j \in DOMAIN c : j \in Nat /\ c[j] \in Cells \cup {Gap} /\ [c EXCEPT ![j] = Gap] \in Contents
      /\ e \in Dicts /\ DOMAIN e = DOMAIN d \ {k}
  <2>1. \A j \in DOMAIN c : [c EXCEPT ![j] = Gap] \in Contents
    BY <1>0, Sequence
  <2>2. /\ L \in Nat /\ DOMAIN c = 1..L /\ \A j \in DOMAIN c : j \in Nat /\ c[j] \in Cells \cup {Gap}
    BY <1>0, Sequence
  <2>3. e \in Dicts
    BY <1>0, Dictionary
  <2> QED BY <2>1, <2>2, <2>3
<1>4. /\ \A j \in DOMAIN d : d[j] \in DOMAIN c /\ c[d[j]] # Gap /\ c[d[j]][1] = j
      /\ \A j \in DOMAIN c : c[j] # Gap => c[j][1] \in DOMAIN d /\ d[c[j][1]] = j
  BY <1>0 DEF Whole
<1>5. i \in DOMAIN c /\ c[i] # Gap /\ c[i][1] = k /\ i \in Nat /\ i \in 1..L /\ i # g
  <2>1. i \in DOMAIN c /\ c[i] # Gap /\ c[i][1] = k
    BY <1>1, <1>4
  <2>2. i \in Nat /\ i \in 1..L
    BY <1>3, <2>1
  <2>3. i # g
    <3>1. g = 0 \/ c[g] = Gap
      BY <1>0 DEF GapAt
    <3> QED BY <2>1, <2>2, <3>1
  <2> QED BY <2>1, <2>2, <2>3
<1>6. \A j \in DOMAIN e : e[j] = d[j] /\ j \in DOMAIN d /\ d[j] # i
  BY <1>3, <1>4, <1>5
<1> HIDE DEF i, e, L
<1>7. CASE i = L
  <2> DEFINE c1 == Front(c)
  <2>1. r = [acc EXCEPT !.contents = c1, !.dict = e]
    BY <1>2, <1>7 DEF c
  <2>2. c1 = [j \in 1..(L - 1) |-> c[j]]
    BY DEF Front, L
  <2> HIDE DEF c1
  <2>3. DOMAIN c1 = 1..(L - 1) /\ \A j \in DOMAIN c1 : j \in DOMAIN c /\ c1[j] = c[j] /\ j # i
    BY <1>3, <1>5, <1>7, <2>2
  <2>4. \A j \in DOMAIN c : j # i => j \in DOMAIN c1
    BY <1>3, <1>7, <2>3
  <2>5. c1 \in Contents
    <3>1. L - 1 \in Nat
      BY <1>3, <1>5, <1>7
    <3>2. \A j \in 1..(L - 1) : c1[j] \in Cells \cup {Gap}
      BY <1>3, <2>3
    <3> QED BY <2>2, <3>1, <3>2 DEF Contents
  <2>6. Whole(c1, e)
    <3>1. \A j \in DOMAIN e : e[j] \in DOMAIN c1 /\ c1[e[j]] # Gap /\ c1[e[j]][1] = j
      BY <1>4, <1>6, <2>3, <2>4
    <3>2. \A j \in DOMAIN c1 : c1[j] # Gap => c1[j][1] \in DOMAIN e /\ e[c1[j][1]] = j
      <4> SUFFICES ASSUME NEW j \in DOMAIN c1, c1[j] # Gap PROVE c1[j][1] \in DOMAIN e /\ e[c1[j][1]] = j
        OBVIOUS
      <4>1. c1[j] = c[j] /\ j # i /\ c[j][1] \in DOMAIN d /\ d[c[j][1]] = j
        BY <1>4, <2>3
      <4>2. c[j][1] # k
        BY <4>1 DEF i
      <4> QED BY <1>3, <1>6, <4>1, <4>2
    <3> QED BY <3>1, <3>2 DEF Whole
  <2>7. GapAt(c1, g)
    <3>1. g = 0 \/ (g \in DOMAIN c /\ c[g] = Gap)
      BY <1>0 DEF GapAt
    <3> QED BY <1>5, <2>3, <2>4, <3>1 DEF GapAt
  <2>8. r \in Accounts /\ r.contents = c1 /\ r.dict = e /\ r.gap = g
    BY <1>0, <1>3, <2>1, <2>5 DEF Accounts, g
  <2>9. Tidy(r)
    BY <2>6, <2>7, <2>8 DEF Tidy
  <2> QED BY <1>3, <2>8, <2>9 DEF r, d
<1>8. CASE i # L
  <2> DEFINE c1 == [c EXCEPT ![i] = Gap]
             h  == AssignMin(g, i)
  <2>1. r = [contents |-> c1, dict |-> e, gap |-> h]
    BY <1>2, <1>8
  <2>2. DOMAIN c1 = DOMAIN c /\ c1[i] = Gap /\ \A j \in DOMAIN c : j # i => c1[j] = c[j]
    BY <1>5
  <2>3. c1 \in Contents
    BY <1>3, <1>5
  <2>4. h \in Nat /\ (h = g \/ h = i)
    BY <1>0, <1>5 DEF AssignMin
  <2> HIDE DEF c1, h
  <2>5. Whole(c1, e)
    <3>1. \A j \in DOMAIN e : e[j] \in DOMAIN c1 /\ c1[e[j]] # Gap /\ c1[e[j]][1] = j
      BY <1>4, <1>6, <2>2
    <3>2. \A j \in DOMAIN c1 : c1[j] # Gap => c1[j][1] \in DOMAIN e /\ e[c1[j][1]] = j
      <4> SUFFICES ASSUME NEW j \in DOMAIN c1, c1[j] # Gap PROVE c1[j][1] \in DOMAIN e /\ e[c1[j][1]] = j
        OBVIOUS
      <4>1. c1[j] = c[j] /\ j # i /\ c[j][1] \in DOMAIN d /\ d[c[j][1]] = j
        BY <1>4, <2>2
      <4>2. c[j][1] # k
        BY <4>1 DEF i
      <4> QED BY <1>3, <1>6, <4>1, <4>2
    <3> QED BY <3>1, <3>2 DEF Whole
  <2>6. GapAt(c1, h)
    <3>1. g = 0 \/ (g \in DOMAIN c /\ c[g] = Gap)
      BY <1>0 DEF GapAt
    <3> QED BY <1>5, <2>2, <2>4, <3>1 DEF GapAt
  <2>7. r \in Accounts /\ r.contents = c1 /\ r.dict = e /\ r.gap = h
    BY <1>3, <2>1, <2>3, <2>4 DEF Accounts
  <2>8. Tidy(r)
    BY <2>5, <2>6, <2>7 DEF Tidy
  <2> QED BY <1>3, <2>7, <2>8 DEF r, d
<1> QED BY <1>7, <1>8

\* All properties that are to go.
CleanedAll(base, K) == FoldSet(LAMBDA k, a : Cleaned(a, k), base, K)

(* Taking them out.                                                                     *)
LEMMA CleansAll ==
  ASSUME NEW base, Tidy(base), NEW K \in SUBSET (DOMAIN base.dict), IsFiniteSet(K)
  PROVE  Tidy(CleanedAll(base, K)) /\ DOMAIN CleanedAll(base, K).dict = DOMAIN base.dict \ K
<1> DEFINE op(k, a) == Cleaned(a, k)
           D == DOMAIN base.dict
           Some(S) == CHOOSE x \in S : TRUE
           next == [S \in SUBSET K |-> Some(S)]
           step == [p \in K \X Accounts |-> op(p[1], p[2])]
           Q == {p \in (SUBSET K) \X Accounts : Tidy(p[2]) /\ DOMAIN p[2].dict = D \ p[1]}
           Eq(h) == h = [S \in SUBSET K |-> IF S = {} THEN base ELSE op(Some(S), h[S \ {Some(S)}])]
           f == CHOOSE h : Eq(h)
<1>1. \A S \in SUBSET K : S # {} => next[S] \in S /\ next[S] = Some(S)
  OBVIOUS
<1>2. <<{}, base>> \in Q
  BY DEF Tidy
<1>3. \A S \in SUBSET K : \A k \in S : \A a \in Accounts : <<S \ {k}, a>> \in Q => <<S, op(k, a)>> \in Q
  <2> SUFFICES ASSUME NEW S \in SUBSET K, NEW k \in S, NEW a \in Accounts, <<S \ {k}, a>> \in Q
               PROVE  <<S, op(k, a)>> \in Q
    OBVIOUS
  <2>1. Tidy(a) /\ DOMAIN a.dict = D \ (S \ {k}) /\ k \in D
    OBVIOUS
  <2>2. k \in DOMAIN a.dict
    BY <2>1
  <2>3. Tidy(op(k, a)) /\ DOMAIN op(k, a).dict = DOMAIN a.dict \ {k}
    BY <2>1, <2>2, CleansOne
  <2>4. op(k, a) \in Accounts
    BY <2>3 DEF Tidy
  <2> HIDE DEF op
  <2>5. DOMAIN op(k, a).dict = D \ S
    BY <2>1, <2>3
  <2> QED BY <2>3, <2>4, <2>5
<1>4. Q \in SUBSET ((SUBSET K) \X Accounts)
  OBVIOUS
<1>5. \A k \in K : \A a \in Accounts : step[<<k, a>>] = op(k, a)
  <2> HIDE DEF op
  <2> QED OBVIOUS
<1>6. \A S \in SUBSET K : \A v : S # {} /\ <<S \ {next[S]}, v>> \in Q => <<S, step[<<next[S], v>>]>> \in Q
  <2> SUFFICES ASSUME NEW S \in SUBSET K, NEW v, S # {}, <<S \ {next[S]}, v>> \in Q
               PROVE  <<S, step[<<next[S], v>>]>> \in Q
    OBVIOUS
  <2> HIDE DEF op, next, step, Q
  <2>1. v \in Accounts /\ next[S] \in S /\ next[S] \in K
    BY <1>1, <1>4
  <2>2. <<S, op(next[S], v)>> \in Q
    BY <1>3, <2>1
  <2> QED BY <1>5, <2>1, <2>2
<1>7. Invariant(K, next, base, step, Q)
  <2> HIDE DEF next, step, op, Q
  <2> QED BY <1>1, <1>2, <1>6 DEF Invariant
<1>8. PICK h : Folded(h, K, next, base, step) /\ \A S \in SUBSET K : <<S, h[S]>> \in Q
  <2> HIDE DEF next, step, op, Q
  <2> QED BY ONLY IsFiniteSet(K), <1>7, FoldedGood
<1>9. \A S \in SUBSET K : h[S] \in Accounts
  <2> HIDE DEF Q
  <2> QED BY <1>4, <1>8
<1>10. Eq(h)
  <2>1. h = [S \in SUBSET K |-> IF S = {} THEN base ELSE step[<<next[S], h[S \ {next[S]}]>>]]
    <3> HIDE DEF next, step, op
    <3> QED BY <1>8 DEF Folded
  <2>2. \A S \in SUBSET K : S # {} => step[<<next[S], h[S \ {next[S]}]>>] = op(Some(S), h[S \ {Some(S)}])
    <3> SUFFICES ASSUME NEW S \in SUBSET K, S # {}
                 PROVE  step[<<next[S], h[S \ {next[S]}]>>] = op(Some(S), h[S \ {Some(S)}])
      OBVIOUS
    <3> HIDE DEF next, step, op, Some
    <3>1. next[S] = Some(S) /\ Some(S) \in K /\ S \ {Some(S)} \in SUBSET K
      BY <1>1
    <3>2. h[S \ {Some(S)}] \in Accounts
      BY <1>9, <3>1
    <3> QED BY <1>5, <3>1, <3>2
  <2> HIDE DEF next, step, op, Some
  <2> QED BY <2>1, <2>2
<1>11. Eq(f)
  <2> HIDE DEF Eq
  <2> QED BY <1>10
<1>12. CleanedAll(base, K) = f[K]
  BY DEF CleanedAll, FoldSet, MapThenFoldSet
<1> HIDE DEF f
<1>13. f[{}] = base /\ \A S \in SUBSET K : S # {} => f[S] = op(Some(S), f[S \ {Some(S)}])
  <2> HIDE DEF op, Some
  <2> QED BY <1>11
<1> DEFINE R == {S \in SUBSET K : <<S, f[S]>> \in Q}
<1>14. {} \in R
  <2> HIDE DEF Q
  <2> QED BY <1>2, <1>13
<1>15. \A S \in SUBSET K : S # {} /\ S \ {next[S]} \in R => S \in R
  <2> SUFFICES ASSUME NEW S \in SUBSET K, S # {}, <<S \ {next[S]}, f[S \ {next[S]}]>> \in Q
               PROVE  <<S, f[S]>> \in Q
    OBVIOUS
  <2> HIDE DEF next, op, Q, Some
  <2>1. next[S] = Some(S) /\ Some(S) \in S
    BY <1>1
  <2>2. f[S \ {Some(S)}] \in Accounts
    BY <1>4, <2>1
  <2>3. <<S, op(Some(S), f[S \ {Some(S)}])>> \in Q
    BY <1>3, <2>1, <2>2
  <2> QED BY <1>13, <2>3
<1>16. \A S \in SUBSET K : S # {} => next[S] \in S
  BY <1>1
<1>17. K \in R
  <2> HIDE DEF R, next, Q, Eq, op, step
  <2>1. IsFiniteSet(K)
    OBVIOUS
  <2>2. Inductive(K, next, R)
    BY <1>14, <1>15, <1>16 DEF Inductive
  <2> QED BY ONLY <2>1, <2>2, SubsetInductive
<1>18. <<K, f[K]>> \in Q
  BY <1>17
<1> QED BY <1>12, <1>18

\* What cleaning an object up leaves as it is.
CleanedUp(s1, s0, o) ==
  /\ s1 \in States /\ s1.stack = s0.stack /\ s1.parent = s0.parent /\ s1.cleanup = s0.cleanup
  /\ Whole(s1.contents[o], s1.dict[o]) /\ DOMAIN s1.dict[o] \subseteq DOMAIN s0.dict[o]
  /\ \A p \in Objects \ {o} : s1.contents[p] = s0.contents[p] /\ s1.dict[p] = s0.dict[p]

(* Cleaning up one object.                                                              *)
LEMMA CleansObject ==
  ASSUME NEW s0 \in States, NEW o \in {Top, Sub}, NEW keys,
         Whole(s0.contents[o], s0.dict[o]), GapAt(s0.contents[o], s0.cleanup.gap[o])
  PROVE  CleanedUp(CleanObject(s0, o, keys), s0, o)
<1> DEFINE s1   == CleanObject(s0, o, keys)
           base == [contents |-> s0.contents[o], dict |-> s0.dict[o], gap |-> s0.cleanup.gap[o]]
           K    == keys \cap DOMAIN s0.dict[o]
           acc  == CleanedAll(base, K)
           c    == Compacted(acc.contents, acc.gap)
           d    == Resettled(c, acc.gap, acc.dict)
<1>0. /\ o \in Objects /\ s0.contents \in [Objects -> Contents] /\ s0.dict \in [Objects -> Dicts]
      /\ s0.contents[o] \in Contents /\ s0.dict[o] \in Dicts /\ s0.cleanup.gap[o] \in Nat
  <2>1. o \in Objects
    BY Different
  <2>2. s0.contents \in [Objects -> Contents] /\ s0.dict \in [Objects -> Dicts] /\ s0.cleanup.gap[o] \in Nat
    BY <2>1 DEF States, Temps
  <2> QED BY <2>1, <2>2
<1>1. Tidy(base) /\ DOMAIN base.dict = DOMAIN s0.dict[o]
  BY <1>0 DEF Tidy, Accounts
<1>2. IsFiniteSet(K)
  <2>1. DOMAIN s0.dict[o] \subseteq Keys
    BY <1>0, Dictionary
  <2>2. IsFiniteSet(Leaves \cup {Sub}) /\ IsFiniteSet((Leaves \cup {Sub}) \cup {Extra})
    BY TransactionAssumption, FS_AddElement
  <2>3. Keys = (Leaves \cup {Sub}) \cup {Extra}
    BY DEF Keys
  <2>4. K \in SUBSET Keys
    BY <2>1
  <2> HIDE DEF K
  <2> QED BY <2>2, <2>3, <2>4, FS_Subset
<1>3. K \in SUBSET (DOMAIN base.dict)
  BY <1>1
<1>4. s1 = [s0 EXCEPT !.contents[o] = c, !.dict[o] = d]
  BY Zenon DEF CleanObject, CleanedAll, Resettled, MovedIn
<1> HIDE DEF base, K, s1
<1>5. Tidy(acc) /\ DOMAIN acc.dict = DOMAIN base.dict \ K
  BY <1>1, <1>2, <1>3, CleansAll
<1> HIDE DEF acc
<1>6. acc.contents \in Contents /\ acc.dict \in Dicts /\ acc.gap \in Nat /\ Whole(acc.contents, acc.dict) /\ GapAt(acc.contents, acc.gap)
  BY <1>5 DEF Tidy, Accounts
<1>7. c \in Contents /\ d \in Dicts /\ Whole(c, d) /\ DOMAIN d \subseteq DOMAIN acc.dict
  BY <1>6, CompactedWhole
<1> HIDE DEF c, d
<1>8. /\ s1 \in States /\ s1.contents = [s0.contents EXCEPT ![o] = c] /\ s1.dict = [s0.dict EXCEPT ![o] = d]
      /\ s1.stack = s0.stack /\ s1.parent = s0.parent /\ s1.cleanup = s0.cleanup
  <2> DEFINE C == [s0.contents EXCEPT ![o] = c]
             D == [s0.dict EXCEPT ![o] = d]
  <2>1. s1 = [s0 EXCEPT !.contents = C, !.dict = D]
    BY <1>4 DEF States
  <2>2. C \in [Objects -> Contents] /\ D \in [Objects -> Dicts]
    BY <1>0, <1>7
  <2> HIDE DEF C, D
  <2>3. s1 \in States /\ s1.contents = C /\ s1.dict = D /\ s1.stack = s0.stack /\ s1.parent = s0.parent /\ s1.cleanup = s0.cleanup
    BY <2>1, <2>2 DEF States
  <2> QED BY <2>3 DEF C, D
<1>9. s1.contents[o] = c /\ s1.dict[o] = d /\ \A p \in Objects \ {o} : s1.contents[p] = s0.contents[p] /\ s1.dict[p] = s0.dict[p]
  BY <1>0, <1>8
<1>10. CleanedUp(s1, s0, o)
  BY <1>1, <1>5, <1>7, <1>8, <1>9 DEF CleanedUp
<1> QED BY <1>10 DEF s1

(* Cleaning up outside of all transactions.                                             *)
LEMMA CleansUp ==
  ASSUME NEW s0, Calm(s0)
  PROVE  Calm(Cleanup(s0)) /\ Cleanup(s0).stack = s0.stack
<1> DEFINE s1 == IF CleanupKeys(s0, Sub) = {} /\ s0.cleanup.gap[Sub] = 0 THEN s0
                 ELSE CleanObject(s0, Sub, CleanupKeys(s0, Sub))
           emptied == IF s1 # s0 /\ s1.contents[Sub] = <<>> THEN {Sub} ELSE {}
           K  == CleanupKeys(s0, Top) \cup emptied
           s2 == CleanObject(s1, Top, K)
           s3 == [s2 EXCEPT !.cleanup = NoTemps]
<1>0. Top \in Objects /\ Sub \in Objects /\ Extra \in Objects /\ Top # Sub /\ Top # Extra /\ Sub # Extra
  BY Different
<1>1. Cleanup(s0) = s3
  BY DEF Cleanup
<1>2. /\ s0 \in States /\ \A o \in Objects : Whole(s0.contents[o], s0.dict[o])
      /\ \A o \in {Top, Sub} : GapAt(s0.contents[o], s0.cleanup.gap[o])
      /\ Sub \in s0.parent /\ (Extra \in DOMAIN s0.dict[Top] => Extra \in s0.parent)
      /\ DOMAIN s0.dict[Sub] \subseteq Leaves
  BY DEF Calm
<1>3. CleanedUp(s1, s0, Sub)
  <2>1. CASE s1 = s0
    BY <1>0, <1>2, <2>1 DEF CleanedUp
  <2>2. CASE s1 = CleanObject(s0, Sub, CleanupKeys(s0, Sub))
    <3>1. CleanedUp(CleanObject(s0, Sub, CleanupKeys(s0, Sub)), s0, Sub)
      BY <1>0, <1>2, CleansObject
    <3> QED BY <2>2, <3>1
  <2> QED BY <2>1, <2>2
<1> HIDE DEF s1
<1>4. s1 \in States /\ s1.contents[Top] = s0.contents[Top] /\ s1.dict[Top] = s0.dict[Top] /\ s1.cleanup = s0.cleanup
  BY <1>0, <1>3 DEF CleanedUp
<1>5. Whole(s1.contents[Top], s1.dict[Top]) /\ GapAt(s1.contents[Top], s1.cleanup.gap[Top])
  BY <1>0, <1>2, <1>4
<1> HIDE DEF K
<1>6. CleanedUp(s2, s1, Top)
  BY <1>4, <1>5, CleansObject
<1> HIDE DEF s2
<1>7. NoTemps \in Temps /\ NoTemps.gap[Top] = 0 /\ NoTemps.gap[Sub] = 0
  <2>1. NoTemps.gap \in [Objects -> Nat]
    BY DEF NoTemps
  <2> QED BY <1>0, <2>1 DEF NoTemps, Temps
<1>8. /\ s3 \in States /\ s3.contents = s2.contents /\ s3.dict = s2.dict /\ s3.stack = s2.stack /\ s3.parent = s2.parent
      /\ s3.cleanup = NoTemps
  BY <1>6, <1>7 DEF CleanedUp, States
<1> HIDE DEF s3
<1>9. /\ s3.stack = s0.stack /\ s3.parent = s0.parent
      /\ \A o \in Objects : Whole(s3.contents[o], s3.dict[o]) /\ DOMAIN s3.dict[o] \subseteq DOMAIN s0.dict[o]
  <2>1. s3.stack = s0.stack /\ s3.parent = s0.parent
    BY <1>3, <1>6, <1>8 DEF CleanedUp
  <2>2. Whole(s3.contents[Top], s3.dict[Top]) /\ DOMAIN s3.dict[Top] \subseteq DOMAIN s0.dict[Top]
    BY <1>4, <1>6, <1>8 DEF CleanedUp
  <2>3. Whole(s3.contents[Sub], s3.dict[Sub]) /\ DOMAIN s3.dict[Sub] \subseteq DOMAIN s0.dict[Sub]
    BY <1>0, <1>3, <1>6, <1>8 DEF CleanedUp
  <2>4. Whole(s3.contents[Extra], s3.dict[Extra]) /\ DOMAIN s3.dict[Extra] \subseteq DOMAIN s0.dict[Extra]
    BY <1>0, <1>2, <1>3, <1>6, <1>8 DEF CleanedUp
  <2> QED BY <2>1, <2>2, <2>3, <2>4 DEF Objects
<1>10. \A o \in {Top, Sub} : GapAt(s3.contents[o], s3.cleanup.gap[o])
  BY <1>7, <1>8 DEF GapAt
<1>11. Sub \in s3.parent /\ (Extra \in DOMAIN s3.dict[Top] => Extra \in s3.parent) /\ DOMAIN s3.dict[Sub] \subseteq Leaves
  BY <1>0, <1>2, <1>9
<1>12. \A n \in DOMAIN s3.stack[Extra] :
       /\ s3.stack[Extra][n].end = 0
       /\ s3.stack[Extra][n].temps.gap[Top] = 0 /\ s3.stack[Extra][n].temps.gap[Sub] = 0
  BY <1>9 DEF Calm
<1>13. Calm(s3)
  BY <1>8, <1>9, <1>10, <1>11, <1>12 DEF Calm
<1> QED BY <1>1, <1>9, <1>13

(* No transaction of the subobject without one of the object, but by clients who take   *)
(* that liberty.                                                                        *)
LEMMA KeepsEndScope ==
  ASSUME \A w \in Instances : Strict(w), IInv, EndScope
  PROVE  IInv'
<1>1. removing = NotRemoving /\ Good(s, NotRemoving)
  BY IdleIs DEF EndScope
<1>2. s.stack[Top] = <<>> /\ s.stack[Sub] = <<>>
  BY World DEF EndScope, InTransaction
<1>3. s' = Cleanup(s) /\ removing' = removing /\ instance' = instance
  BY DEF EndScope
<1>4. Calm(s') /\ s'.stack = s.stack
  <2>1. Calm(Cleanup(s)) /\ Cleanup(s).stack = s.stack
    BY <1>1, GoodIsCalm, CleansUp
  <2> QED BY <1>3, <2>1
<1>5. Good(s', NotRemoving)
  BY <1>2, <1>4, CalmIsGood
<1> QED BY <1>1, <1>3, <1>5, Outside

(* prepare_for_save: pending changes are committed, what is temporary is removed.       *)
LEMMA KeepsSave ==
  ASSUME \A w \in Instances : Strict(w), IInv, Save
  PROVE  IInv'
<1> DEFINE s1 == IF InTransaction(s, Top) THEN Commit(s, Top) ELSE s
           s2 == Cleanup(s1)
           s3 == [s2 EXCEPT !.changed = FALSE]
<1>1. removing = NotRemoving /\ Good(s, NotRemoving) /\ (s.stack[Top] # <<>> => Len(s.stack[Top]) = 1)
  BY IdleIs DEF Save
<1>2. s' = s3 /\ removing' = removing /\ instance' = instance
  BY DEF Save
<1>3. Good(s1, NotRemoving) /\ s1.stack[Top] = <<>> /\ s1.stack[Sub] = <<>>
  <2>1. CASE s.stack[Top] # <<>>
    <3>1. s1 = Commit(s, Top)
      BY <2>1 DEF InTransaction
    <3> HIDE DEF s1
    <3> QED BY <1>1, <2>1, <3>1, CommitOuter
  <2>2. CASE s.stack[Top] = <<>>
    <3>1. s1 = s
      BY <2>2 DEF InTransaction
    <3>2. s.stack[Sub] # <<>> => "scope" \in Liberties \/ Current(s, Sub).dependent
      BY DEF Save, InTransaction
    <3>3. s.stack[Sub] # <<>> => Current(s, Sub) = s.stack[Sub][1]
      BY IdleIs DEF Save
    <3>4. s.stack[Sub] # <<>> => ~s.stack[Sub][1].dependent
      <4>1. Ties(s)
        BY <1>1 DEF Good
      <4> QED BY <2>2, <4>1 DEF Ties
    <3>5. s.stack[Sub] = <<>>
      BY <3>2, <3>3, <3>4, World
    <3> QED BY <1>1, <2>2, <3>1, <3>5
  <2> QED BY <2>1, <2>2
<1> HIDE DEF s1
<1>4. Calm(s2) /\ s2.stack = s1.stack
  BY <1>3, GoodIsCalm, CleansUp
<1> HIDE DEF s2
<1>5. /\ s3 \in States /\ s3.contents = s2.contents /\ s3.dict = s2.dict /\ s3.stack = s2.stack /\ s3.parent = s2.parent
      /\ s3.cleanup = s2.cleanup
  <2>1. s2 \in States
    BY <1>4 DEF Calm
  <2> QED BY <2>1 DEF States
<1> HIDE DEF s3
<1>6. Calm(s3)
  <2>1. \A o \in {Top, Sub} : GapAt(s2.contents[o], s3.cleanup.gap[o])
    BY <1>4, <1>5 DEF Calm
  <2> QED BY <1>4, <1>5, <2>1, CalmKept
<1>7. Good(s3, NotRemoving)
  BY <1>3, <1>4, <1>5, <1>6, CalmIsGood
<1> QED BY <1>1, <1>2, <1>7, Outside

-----------------------------------------------------------------------------
(* An object as it is loaded.                                                           *)
LEMMA Starts ==
  ASSUME \A w \in Instances : Strict(w), Init
  PROVE  IInv
<1> DEFINE C == FirstContents
           D == [o \in Objects |-> Listed(C[o])]
           F == [o \in Objects |-> <<>>]
<1>0. Top \in Objects /\ Sub \in Objects /\ Extra \in Objects /\ Top # Sub /\ Top # Extra /\ Sub # Extra
      /\ Sub \in Keys /\ Leaves \subseteq Keys /\ Extra \notin Leaves
  BY Different
<1>1. /\ instance \in Instances /\ removing = NotRemoving
      /\ s = [contents |-> C, dict |-> D, stack |-> F, cleanup |-> NoTemps, changed |-> FALSE, parent |-> {Sub}]
  BY DEF Init
<1> DEFINE V == (Leaves \cup {Sub}) \X (instance.values \cup {Sub}) \X {FALSE}
<1>2. /\ C \in [Objects -> Seq(V)]
      /\ \A o \in Objects : \A i, j \in DOMAIN C[o] : C[o][i][1] = C[o][j][1] => i = j
      /\ \A i \in DOMAIN C[Sub] : C[Sub][i][1] \in Leaves
  BY <1>1 DEF Strict, FirstContents
<1> HIDE DEF C
<1>3. V \subseteq Cells /\ \A x \in V : x[1] \in Leaves \cup {Sub}
  <2>1. instance.values \cup {Sub} \subseteq CellValues
    BY <1>1 DEF CellValues
  <2> QED BY <1>0, <2>1 DEF Cells
<1> HIDE DEF V
<1>4. \A o \in Objects : C[o] \in Seq(V) /\ C[o] \in Seq(Cells)
  <2> SUFFICES ASSUME NEW o \in Objects PROVE C[o] \in Seq(V) /\ C[o] \in Seq(Cells)
    OBVIOUS
  <2>1. C[o] \in Seq(V)
    BY <1>2
  <2> QED BY <1>3, <2>1
<1>5. ASSUME NEW o \in Objects
      PROVE  /\ Whole(C[o], Listed(C[o])) /\ DOMAIN Listed(C[o]) = {C[o][i][1] : i \in DOMAIN C[o]}
             /\ C[o] \in Contents /\ Listed(C[o]) \in Dicts
             /\ \A i \in DOMAIN C[o] : C[o][i][1] \in Leaves \cup {Sub}
  <2> DEFINE v == C[o]
  <2>1. v \in Seq(Cells) /\ v \in Seq(V) /\ \A i, j \in DOMAIN v : v[i][1] = v[j][1] => i = j
    BY <1>2, <1>4
  <2> HIDE DEF v
  <2>2. Whole(v, Listed(v)) /\ DOMAIN Listed(v) = {v[i][1] : i \in DOMAIN v} /\ v \in Contents /\ Listed(v) \in Dicts
    BY <2>1, ListedWhole
  <2>3. \A i \in DOMAIN v : v[i] \in V
    BY <2>1
  <2> QED BY <1>3, <2>2, <2>3 DEF v
<1>6. /\ C \in [Objects -> Contents] /\ D \in [Objects -> Dicts] /\ F \in [Objects -> Seq(Frames)]
      /\ \A o \in Objects : D[o] = Listed(C[o]) /\ F[o] = <<>>
  <2>1. C = [o \in Objects |-> C[o]]
    BY <1>2
  <2>2. \A o \in Objects : C[o] \in Contents /\ Listed(C[o]) \in Dicts
    BY <1>5
  <2>3. C \in [Objects -> Contents]
    BY <2>1, <2>2
  <2>4. D \in [Objects -> Dicts] /\ \A o \in Objects : D[o] = Listed(C[o])
    BY <2>2
  <2>5. F \in [Objects -> Seq(Frames)] /\ \A o \in Objects : F[o] = <<>>
    OBVIOUS
  <2> QED BY <2>3, <2>4, <2>5
<1> HIDE DEF D, F
<1>6a. /\ \A o \in Objects : Whole(C[o], D[o]) /\ DOMAIN D[o] = {C[o][i][1] : i \in DOMAIN C[o]}
       /\ \A o \in Objects : \A i \in DOMAIN C[o] : C[o][i][1] \in Leaves \cup {Sub}
  <2> SUFFICES ASSUME NEW o \in Objects
               PROVE  /\ Whole(C[o], D[o]) /\ DOMAIN D[o] = {C[o][i][1] : i \in DOMAIN C[o]}
                      /\ \A i \in DOMAIN C[o] : C[o][i][1] \in Leaves \cup {Sub}
    OBVIOUS
  <2>1. D[o] = Listed(C[o])
    BY <1>6
  <2>2. Whole(C[o], Listed(C[o])) /\ DOMAIN Listed(C[o]) = {C[o][i][1] : i \in DOMAIN C[o]}
    BY <1>5
  <2>3. \A i \in DOMAIN C[o] : C[o][i][1] \in Leaves \cup {Sub}
    BY <1>5
  <2> QED BY <2>1, <2>2, <2>3
<1>7. NoTemps \in Temps /\ NoTemps.gap[Top] = 0 /\ NoTemps.gap[Sub] = 0
  <2>1. NoTemps.gap \in [Objects -> Nat]
    BY DEF NoTemps
  <2> QED BY <1>0, <2>1 DEF NoTemps, Temps
<1>8. s \in States /\ s.contents = C /\ s.dict = D /\ s.stack = F /\ s.cleanup = NoTemps /\ s.parent = {Sub}
  BY <1>0, <1>1, <1>6, <1>7 DEF States
<1>9. \A o \in Objects : Whole(s.contents[o], s.dict[o])
  BY <1>6a, <1>8
<1>10. \A o \in {Top, Sub} : GapAt(s.contents[o], s.cleanup.gap[o])
  BY <1>7, <1>8 DEF GapAt
<1>11. Sub \in s.parent /\ Extra \notin DOMAIN s.dict[Top]
  <2>1. \A k \in DOMAIN D[Top] : k \in Leaves \cup {Sub}
    BY <1>0, <1>6a
  <2> QED BY <1>0, <1>8, <2>1
<1>12. DOMAIN s.dict[Sub] \subseteq Leaves
  BY <1>0, <1>2, <1>6a, <1>8
<1>13. s.stack[Top] = <<>> /\ s.stack[Sub] = <<>> /\ DOMAIN s.stack[Extra] = {}
  BY <1>0, <1>6, <1>8
<1>14. Calm(s)
  BY <1>8, <1>9, <1>10, <1>11, <1>12, <1>13 DEF Calm
<1>15. Good(s, NotRemoving)
  BY <1>13, <1>14, CalmIsGood
<1>16. Owned(s, NotRemoving)
  BY DEF Owned, NotRemoving
<1> QED BY <1>1, <1>15, <1>16 DEF IInv

(* Every action keeps the invariant.                                                    *)
LEMMA Keeps ==
  ASSUME \A w \in Instances : Strict(w), IInv, [Next]_vars
  PROVE  IInv'
<1>0. IInv /\ \A w \in Instances : Strict(w)
  OBVIOUS
<1>1. CASE Next
  <2>1. CASE \E o \in {Top, Sub} : BeginTransaction(o) \/ CommitTransaction(o) \/ RollbackTransaction(o)
    BY <1>0, <2>1, KeepsBegin, KeepsCommit, KeepsRollback
  <2>2. CASE \E o \in {Top, Sub} : \E k \in Declared[o], v \in Values, temp \in BOOLEAN :
               Take(o, k, v, temp) \/ RulePut(o, k, v, temp)
    BY <1>0, <2>2, KeepsTake, KeepsRulePut
  <2>3. CASE \E k \in Declared[Sub], v \in Values, temp \in BOOLEAN : TakeDirect(k, v, temp)
    BY <1>0, <2>3, KeepsTakeDirect
  <2>4. CASE \E o \in {Top, Sub} : \E k \in Declared[o] : RemoveMutable(o, k)
    BY <1>0, <2>4, KeepsRemoveMutable
  <2>5. CASE \E what \in (SUBSET ({Top, Sub} \X (Leaves \ Mutable))) \ {{}} : StartRemove(what)
    BY <1>0, <2>5, KeepsStartRemove
  <2>6. CASE \E allow \in BOOLEAN : EndRemove(allow)
    BY <1>0, <2>6, KeepsEndRemove
  <2>7. CASE \E filling \in Fillings, temp, fails \in BOOLEAN : Add(filling, temp, fails)
    BY <1>0, <2>7, KeepsAdd
  <2>8. CASE RemoveExtra
    BY <1>0, <2>8, KeepsRemoveExtra
  <2>9. CASE \E r \in Rules : StartRule(r) \/ SkipRule(r)
    BY <1>0, <2>9, KeepsStartRule, KeepsSkipRule
  <2>10. CASE \E filling \in Fillings : RuleAdds(filling)
    BY <1>0, <2>10, KeepsRuleAdds
  <2>11. CASE CommitRule \/ RuleFails \/ Interrupted
    BY <1>0, <2>11, KeepsCommitRule, KeepsRuleFails, KeepsInterrupted
  <2>12. CASE EndScope \/ Save
    BY <1>0, <2>12, KeepsEndScope, KeepsSave
  <2> QED BY <1>1, <2>1, <2>2, <2>3, <2>4, <2>5, <2>6, <2>7, <2>8, <2>9, <2>10, <2>11, <2>12 DEF Next
<1>2. CASE UNCHANGED vars
  <2>1. s' = s /\ removing' = removing /\ instance' = instance
    BY <1>2 DEF vars
  <2> QED BY <1>0, <2>1 DEF IInv
<1> QED BY <1>1, <1>2

(* In good states, dictionaries and contents agree.                                     *)
LEMMA GoodAgrees ==
  ASSUME IInv
  PROVE  DictionaryAgrees
<1>1. Good(s, removing) /\ Calm(s)
  BY GoodIsCalm DEF IInv
<1>2. \A o \in Objects : Whole(s.contents[o], s.dict[o])
  BY <1>1 DEF Calm
<1>3. \A o \in Linked(s) : o \in Objects
  BY DEF Linked
<1>4. \A o \in Objects : \A k : Has(s, o, k) <=> k \in DOMAIN s.dict[o]
  BY <1>1, Found
<1>5. ASSUME NEW o \in Linked(s)
      PROVE  /\ \A k \in DOMAIN s.dict[o] : Has(s, o, k) /\ Cell(s, o, k)[1] = k
             /\ \A i \in DOMAIN s.contents[o] : s.contents[o][i] # Gap => s.contents[o][i][1] \in DOMAIN s.dict[o]
  <2>1. Whole(s.contents[o], s.dict[o]) /\ o \in Objects
    BY <1>2, <1>3
  <2> QED BY <1>4, <2>1 DEF Whole, Cell
<1> QED BY <1>5 DEF DictionaryAgrees

(* In good states, subobjects are tied to their parent.                                 *)
LEMMA GoodTies ==
  ASSUME IInv
  PROVE  SubobjectsTied
<1>0. Top \in Objects /\ Sub \in Objects /\ Extra \in Objects /\ Top # Sub /\ Top # Extra /\ Sub # Extra
  BY Different
<1>1. Good(s, removing) /\ Links(s) /\ Ties(s)
  BY DEF IInv, Good
<1>2. ParentsKnown
  <2>1. \A o \in Linked(s) : o \in Objects /\ (o = Top \/ o \in DOMAIN s.dict[Top])
    BY <1>1, Found DEF Linked
  <2>2. \A o \in Linked(s) : o \in {Top} \cup s.parent
    BY <1>1, <2>1 DEF Links, Objects
  <2> QED BY <2>2 DEF ParentsKnown
<1>3. SubtransactionsNest
  <2> DEFINE F == s.stack[Top]
             G == s.stack[Sub]
             A == {i \in DOMAIN F : Sub \in F[i].subs}
             B == {i \in DOMAIN G : G[i].dependent}
  <2>1. F \in Seq(Frames) /\ G \in Seq(Frames)
    BY <1>0, <1>1, StateParts DEF Good
  <2>2. /\ \A n \in DOMAIN F : n > 1 => F[n].subs = {}
        /\ Len(G) <= 1
        /\ G # <<>> /\ G[1].dependent => F # <<>> /\ Sub \in F[1].subs
        /\ G # <<>> /\ ~G[1].dependent => F = <<>>
        /\ F # <<>> /\ Sub \in F[1].subs => G # <<>>
    BY <1>1 DEF Ties
  <2> HIDE DEF F, G
  <2>3. DOMAIN F = 1..Len(F) /\ DOMAIN G = 1..Len(G) /\ Len(F) \in Nat /\ Len(G) \in Nat
        /\ (F = <<>> <=> Len(F) = 0) /\ (G = <<>> <=> Len(G) = 0)
    BY <2>1, Framed
  <2>4. A = IF F # <<>> /\ Sub \in F[1].subs THEN {1} ELSE {}
    <3>1. \A n \in DOMAIN F : n # 1 => Sub \notin F[n].subs
      BY <2>2, <2>3
    <3>2. 1 \in DOMAIN F <=> F # <<>>
      BY <2>3
    <3> QED BY <3>1, <3>2
  <2>5. B = IF G # <<>> /\ G[1].dependent THEN {1} ELSE {}
    <3>1. \A n \in DOMAIN G : n = 1
      BY <2>2, <2>3
    <3>2. 1 \in DOMAIN G <=> G # <<>>
      BY <2>3
    <3> QED BY <3>1, <3>2
  <2>6. A = B
    BY <2>2, <2>4, <2>5
  <2>7. Cardinality(A) = Cardinality(B)
    BY <2>6
  <2> QED BY <2>7 DEF SubtransactionsNest, F, G
<1> QED BY <1>2, <1>3 DEF SubobjectsTied

(* However transactions are nested, committed, rolled back and cleaned up after, the    *)
(* invariant holds, provided that clients and rules take no liberties.                  *)
THEOREM AlwaysGood ==
  ASSUME \A w \in Instances : Strict(w)
  PROVE  Spec => []IInv
<1>1. Init => IInv
  BY Starts
<1>2. IInv /\ [Next]_vars => IInv'
  BY Keeps
<1> QED BY <1>1, <1>2, PTL DEF Spec

(* The dictionary and the contents of every object in the tree agree in all worlds of   *)
(* proper objects and rules (BigObject.pm:30).                                          *)
THEOREM AlwaysAgrees ==
  ASSUME \A w \in Instances : Strict(w)
  PROVE  Spec => []DictionaryAgrees
<1>1. IInv => DictionaryAgrees
  BY GoodAgrees
<1> QED BY <1>1, AlwaysGood, PTL

(* A subobject in the tree knows its parent, and takes part in a transaction of it      *)
(* exactly as long as it has one of its own for it (BigObject.pm:37, 57).               *)
THEOREM AlwaysTied ==
  ASSUME \A w \in Instances : Strict(w)
  PROVE  Spec => []SubobjectsTied
<1>1. IInv => SubobjectsTied
  BY GoodTies
<1> QED BY <1>1, AlwaysGood, PTL
=============================================================================
