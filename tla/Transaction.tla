--------------------------- MODULE Transaction ---------------------------
(* Transactions on a big object (Core/BigObject.pm).  A top-level object has leaf       *)
(* properties, a singular subobject Sub, and at most one instance Extra of a multiple   *)
(* subobject property.  Client code, production rules and the end of the current scope  *)
(* change them.  Two decisions make transactions delicate: contents are addressed by    *)
(* their indices, in the dictionary, in backups and in the lists of temporaries, while  *)
(* they are cut off and compacted; and every subobject has a stack of its own.          *)
EXTENDS Naturals, Sequences, FiniteSets, SequencesExt

CONSTANTS
  Top, Sub, Extra,   \* the objects; Sub and Extra are also the properties they are stored as
  Leaves,            \* leaf properties
  Mutable,           \* those of them that may be changed at any time
  NoValue,           \* the value of a rule's output not assigned yet
  Instances          \* small worlds: an object, what clients may store in it, the rules

VARIABLES
  s,          \* the objects with their transactions
  removing,   \* a remove() in progress: in whose transaction, and which properties
  disk,       \* the permanent contents at the last load or save
  instance    \* the world, which never changes

vars == <<s, removing, disk, instance>>

(* The object as it is loaded: a sequence of cells for each of its parts                *)
FirstContents == instance.contents
(* The leaf properties each part may have, and their values                             *)
Declared == instance.declared
Values == instance.values
(* Production rules: sequences of outputs, pairs of an object and a leaf                *)
Rules == instance.rules
(* Contents a new multiple subobject is created with                                    *)
Fillings == instance.fillings
(* What clients and rules do that transactions do not cope with                         *)
Liberties == instance.liberties
(* Bound on the length of contents                                                      *)
MaxContents == instance.max

Objects == {Top, Sub, Extra}
Keys    == Leaves \cup {Sub, Extra}

ASSUME TransactionAssumption ==
  /\ Cardinality(Objects) = 3 /\ Objects \cap Leaves = {}
  /\ Mutable \subseteq Leaves /\ IsFiniteSet(Leaves)
  /\ \A w \in Instances :
       /\ w.declared \in [Objects -> SUBSET Leaves] /\ NoValue \notin w.values
       /\ w.liberties \subseteq {"overwrite", "again", "mixed", "direct", "scope", "partial",
                                 "retemp", "interrupt", "unlink", "feats"}

(* The worlds transactions are made for: of proper objects and rules, in which nobody   *)
(* takes a liberty.                                                                     *)
Strict(w) ==
  /\ w.liberties = {}
  /\ w.contents \in [Objects -> Seq((Leaves \cup {Sub}) \X (w.values \cup {Sub}) \X {FALSE})]
  /\ \A o \in Objects : \A i, j \in DOMAIN w.contents[o] : w.contents[o][i][1] = w.contents[o][j][1] => i = j
  /\ \A i \in DOMAIN w.contents[Sub] : w.contents[Sub][i][1] \in Leaves
  /\ w.fillings \subseteq Seq(Leaves \X w.values \X BOOLEAN)
  /\ \A v \in w.fillings : \A i, j \in DOMAIN v : v[i][1] = v[j][1] => i = j
  /\ w.rules \subseteq Seq({Top, Sub} \X Leaves)
  /\ \A r \in w.rules : \A i, j \in DOMAIN r : r[i] = r[j] => i = j

-----------------------------------------------------------------------------
(* A cell of contents is empty or holds a property, its value, and whether it was       *)
(* stored as a temporary one, which is history: the code knows it from lists only.      *)
Gap == <<>>

(* Where two functions meet, the first one counts.                                      *)
Over(f, g) == [x \in DOMAIN f \cup DOMAIN g |-> IF x \in DOMAIN f THEN f[x] ELSE g[x]]

With(f, x, y) == Over([z \in {x} |-> y], f)

(* Where each property is found in c.                                                   *)
Listed(c) == [k \in {c[i][1] : i \in DOMAIN c} |-> CHOOSE i \in DOMAIN c : c[i][1] = k]

Cell(s0, o, k) == s0.contents[o][s0.dict[o][k]]

Has(s0, o, k) == k \in DOMAIN s0.dict[o] /\ s0.dict[o][k] \in DOMAIN s0.contents[o]
                 /\ Cell(s0, o, k) # Gap

Linked(s0) == {o \in Objects : o = Top \/ Has(s0, Top, o)}

(* What a reader finds: the values of all properties of the objects in the tree.        *)
View(s0) == [o \in Linked(s0) |-> [k \in {j \in Keys : Has(s0, o, j)} |-> Cell(s0, o, k)[2]]]

Permanent(s0) ==
  LET Stays(o, k) == Has(s0, o, k) /\ ~Cell(s0, o, k)[3] /\ Cell(s0, o, k)[2] # NoValue
  IN  [o \in {p \in Linked(s0) : p = Top \/ Stays(Top, p)} |->
         [k \in {j \in Keys : Stays(o, j)} |-> Cell(s0, o, k)[2]]]

-----------------------------------------------------------------------------
(* Lists of temporaries: properties to be removed, and per object the least index of a  *)
(* gap (0: none).  A subobject as a whole dominates its properties.                     *)
NoTemps == [items |-> {}, gap |-> [o \in Objects |-> 0]]

AssignMin(i, j) == IF i = 0 \/ j = 0 THEN i + j ELSE IF i < j THEN i ELSE j

\* Mutant of MergeTemporaries: the second list replaces the first.
MergeTemporaries_Replaces(t1, t2) == t2

MergeTemporaries(t1, t2) ==
  LET all == t1.items \cup t2.items
  IN  [items |-> {i \in all : <<Top, i[1]>> \notin all},
       gap   |-> [o \in Objects |-> AssignMin(t1.gap[o], t2.gap[o])]]

-----------------------------------------------------------------------------
InTransaction(s0, o) == s0.stack[o] # <<>>

Current(s0, o) == Last(s0.stack[o])

NewFrame(s0, o, kind, dependent) ==
  [kind |-> kind, end |-> IF kind = "init" THEN 0 ELSE Len(s0.contents[o]),
   backup |-> <<>>, temps |-> NoTemps, changed |-> FALSE, subs |-> {}, outputs |-> {},
   temporary |-> InTransaction(s0, o) /\ Current(s0, o).temporary,
   dependent |-> dependent, view |-> View(s0)]

Push(s0, o, f) == [s0 EXCEPT !.stack[o] = Append(@, f)]
Pop(s0, o) == [s0 EXCEPT !.stack[o] = Front(@)]
SetFrame(s0, o, f) == [s0 EXCEPT !.stack[o][Len(s0.stack[o])] = f]

Begin(s0, o) == Push(s0, o, NewFrame(s0, o, "plain", FALSE))

Opened(s0, o) == IF InTransaction(s0, o) THEN s0 ELSE Begin(s0, o)

(* The subobject p takes part in the current transaction of the top-level object.       *)
Descend(s0, p, isNew) ==
  LET f    == Current(s0, Top)
      kind == IF f.kind # "plain" \/ ~isNew THEN f.kind ELSE "init"
      own  == InTransaction(s0, p) /\ ~Current(s0, p).dependent /\ f.kind # "rule"
      s1   == SetFrame(s0, Top, [f EXCEPT !.subs = @ \cup {p}])
  IN  IF p \in f.subs THEN s0
      ELSE IF own THEN SetFrame(s1, p, [Current(s0, p) EXCEPT !.kind = kind, !.dependent = TRUE])
           ELSE Push(s1, p, NewFrame(s0, p, kind, TRUE))

(* The way to the object a property belongs to.                                         *)
Reach(s0, o) == IF o = Top THEN s0 ELSE Descend(s0, o, FALSE)

(* put(): the property is stored in the current transaction.                            *)
Store(s0, o, k, v, temp) ==
  LET f == Current(s0, o)
      t == temp \/ f.temporary
      n == Len(s0.contents[o]) + 1
      s1 == IF k \in DOMAIN s0.dict[o]
              THEN [s0 EXCEPT !.contents[o][s0.dict[o][k]] = <<k, v, t>>]
              ELSE [s0 EXCEPT !.contents[o] = Append(@, <<k, v, t>>), !.dict[o] = With(@, k, n)]
  IN  SetFrame(s1, o, [f EXCEPT !.temps.items = IF t THEN @ \cup {<<o, k>>} ELSE @,
                                !.changed = @ \/ ~t])

MayStore(s0, o, k) ==
  IF Current(s0, o).kind = "rule" THEN k \in DOMAIN s0.dict[o]
  ELSE k \notin DOMAIN s0.dict[o] \/ k \in Mutable \/ Current(s0, o).end = 0

\* Mutant of Drop: no backup is kept.
Drop_NoBackup(s0, o, k) ==
  LET i  == s0.dict[o][k]
      s1 == [s0 EXCEPT !.dict[o] = [j \in DOMAIN @ \ {k} |-> @[j]], !.contents[o][i] = Gap]
  IN  SetFrame(s1, o, [Current(s0, o) EXCEPT !.temps.gap[o] = AssignMin(@, i), !.changed = TRUE])

(* remove(): the property leaves a gap and, with it, its backup.                        *)
Drop(s0, o, k) ==
  LET f == Current(s0, o)
      i == s0.dict[o][k]
      s1 == [s0 EXCEPT !.dict[o] = [j \in DOMAIN @ \ {k} |-> @[j]], !.contents[o][i] = Gap]
  IN  SetFrame(s1, o, [f EXCEPT !.backup = Over(@, With(<<>>, i, Cell(s0, o, k))),
                                !.temps.gap[o] = AssignMin(@, i), !.changed = TRUE])

-----------------------------------------------------------------------------
\* Mutant of Added: the first one is overlooked.
Added_OffByOne(s0, o, f) ==
  {s0.contents[o][i] : i \in {j \in DOMAIN s0.contents[o] : j > f.end + 1 /\ s0.contents[o][j] # Gap}}

(* Transaction::rollback without the subobjects: backups are put back, then everything  *)
(* that was appended is forgotten.                                                      *)
Added(s0, o, f) ==
  {s0.contents[o][i] : i \in {j \in DOMAIN s0.contents[o] : j > f.end /\ s0.contents[o][j] # Gap}}

Refilled(s0, o, f) ==
  {i \in DOMAIN f.backup : i <= f.end /\ (i \in DOMAIN s0.contents[o] => s0.contents[o][i] = Gap)}

Restored(s0, o, f) ==
  LET c      == s0.contents[o]
      At(i)  == IF i \in DOMAIN c THEN c[i] ELSE Gap
      saved  == {i \in DOMAIN f.backup : i <= f.end}
      gone   == {cell[1] : cell \in Added(s0, o, f)}
      back   == [k \in {f.backup[i][1] : i \in Refilled(s0, o, f)} |->
                   CHOOSE i \in saved : f.backup[i][1] = k]
      dict   == Over(back, s0.dict[o])
  IN  IF f.end = 0
        THEN [s0 EXCEPT !.contents[o] = <<>>, !.dict[o] = <<>>]
        ELSE [s0 EXCEPT !.contents[o] = [i \in 1..f.end |-> IF i \in saved THEN f.backup[i] ELSE At(i)],
                        !.dict[o] = [k \in DOMAIN dict \ gone |-> dict[k]],
                        !.stack = [p \in Objects |-> IF p \in gone THEN <<>> ELSE @[p]]]

\* Mutant of RemainingSubs: the subobjects are left alone.
RemainingSubs_None(s0, f) == {}

(* The subobjects whose transactions are rolled back with that of the top-level object. *)
RemainingSubs(s0, f) == IF f.end = 0 THEN {} ELSE f.subs \ {cell[1] : cell \in Added(s0, Top, f)}

RollbackSub(s0, p) == IF InTransaction(s0, p) THEN Restored(Pop(s0, p), p, Current(s0, p)) ELSE s0

RollbackTop(s0, f) ==
  LET s1 == Restored(s0, Top, f)
  IN  IF Sub \in RemainingSubs(s0, f) THEN RollbackSub(s1, Sub) ELSE s1

Rollback(s0, o) == IF o = Top THEN RollbackTop(Pop(s0, Top), Current(s0, Top)) ELSE RollbackSub(s0, o)

-----------------------------------------------------------------------------
\* Mutant of RestoreBackup: the rule's new values stay.
RestoreBackup_KeepsNew(s0, o, f) == s0

(* RuleTransaction::restore_backup: properties the rule has recomputed keep their old   *)
(* values, unless an outer transaction is to decide.  s0 is the state without f.        *)
RestoreBackup(s0, o, f) ==
  IF f.kind # "rule" THEN s0
  ELSE IF InTransaction(s0, o)
    THEN LET g == Current(s0, o)
         IN  SetFrame(s0, o, [g EXCEPT !.backup = Over(@, [i \in {j \in DOMAIN f.backup : j <= g.end} |-> f.backup[i]])])
    ELSE [s0 EXCEPT !.contents[o] = [i \in DOMAIN @ |-> IF i \in DOMAIN f.backup THEN f.backup[i] ELSE @[i]]]

IsTemporary(s0, p) == Has(s0, Top, p) /\ Cell(s0, Top, p)[3]

\* Mutant of CommitSub: that the subobject was changed is not passed on.
CommitSub_ForgetsChange(acc, p) ==
  LET g == Current(acc.s, p)
  IN  [s |-> RestoreBackup(Pop(acc.s, p), p, g),
       f |-> [acc.f EXCEPT !.temps = IF IsTemporary(acc.s, p) THEN @ ELSE MergeTemporaries(@, g.temps)]]

(* A subobject's transaction is committed into that of its parent, f.                   *)
CommitSub(acc, p) ==
  LET g == Current(acc.s, p)
  IN  [s |-> RestoreBackup(Pop(acc.s, p), p, g),
       f |-> [acc.f EXCEPT !.temps = IF IsTemporary(acc.s, p) THEN @ ELSE MergeTemporaries(@, g.temps),
                           !.changed = @ \/ g.changed]]

(* Those in question, in an order that does not matter.                                 *)
CommitSubs(acc, subs) ==
  LET a == IF Sub \in subs THEN CommitSub(acc, Sub) ELSE acc
  IN  IF Extra \in subs THEN CommitSub(a, Extra) ELSE a

(* The results go to the enclosing transaction or, without one, to the cleanup table of *)
(* the scope and to the flag that makes the object be saved.                            *)
Conclude(s0, f) ==
  IF InTransaction(s0, Top)
    THEN LET g == Current(s0, Top)
         IN  SetFrame(s0, Top, [g EXCEPT !.temps = MergeTemporaries(@, f.temps), !.changed = @ \/ f.changed])
    ELSE [s0 EXCEPT !.cleanup = MergeTemporaries(@, f.temps), !.changed = @ \/ f.changed]

Committing(s0) == [s |-> RestoreBackup(Pop(s0, Top), Top, Current(s0, Top)), f |-> Current(s0, Top)]

Commit(s0, o) ==
  IF o = Top
    THEN LET acc == CommitSubs(Committing(s0), Current(s0, Top).subs)
         IN  Conclude(acc.s, acc.f)
    ELSE Conclude(Pop(s0, o), Current(s0, o))

(* InitTransaction::commit of the new subobject fails and rolls back its parent.  Which *)
(* subobjects have been committed by then depends on the order of a hash.               *)
FailedCommit(s0, committed) ==
  LET acc == CommitSubs(Committing(s0), committed)
  IN  RollbackTop(acc.s, acc.f)

-----------------------------------------------------------------------------
(* BigObject::cleanup                                                                   *)
Cleaned(acc, k) ==
  LET i == acc.dict[k]
      d == [j \in DOMAIN acc.dict \ {k} |-> acc.dict[j]]
  IN  IF i = Len(acc.contents) THEN [acc EXCEPT !.contents = Front(@), !.dict = d]
      ELSE [contents |-> [acc.contents EXCEPT ![i] = Gap], dict |-> d, gap |-> AssignMin(acc.gap, i)]

Staying(c, gap) == {i \in DOMAIN c : i < gap \/ (i > gap /\ c[i] # Gap)}

UpTo(indices, i) == Cardinality({j \in indices : j <= i})

(* The n-th cell that stays moves to index n.                                           *)
Compacted(c, gap) ==
  IF gap = 0 THEN c ELSE IF gap >= Len(c) THEN Front(c)
  ELSE LET stay == Staying(c, gap)
       IN  [n \in 1..Cardinality(stay) |-> c[CHOOSE i \in stay : UpTo(stay, i) = n]]

CleanObject(s0, o, keys) ==
  LET acc == FoldSet(LAMBDA k, a : Cleaned(a, k),
                     [contents |-> s0.contents[o], dict |-> s0.dict[o], gap |-> s0.cleanup.gap[o]],
                     keys \cap DOMAIN s0.dict[o])
      c     == Compacted(acc.contents, acc.gap)
      moved == {i \in DOMAIN c : acc.gap # 0 /\ i >= acc.gap}
      dict  == [k \in {c[i][1] : i \in moved} |-> CHOOSE i \in moved : c[i][1] = k]
  IN  [s0 EXCEPT !.contents[o] = c, !.dict[o] = Over(dict, acc.dict)]

CleanupKeys(s0, o) == {i[2] : i \in {j \in s0.cleanup.items : j[1] = o}}

Cleanup(s0) ==
  LET s1 == IF CleanupKeys(s0, Sub) = {} /\ s0.cleanup.gap[Sub] = 0 THEN s0
            ELSE CleanObject(s0, Sub, CleanupKeys(s0, Sub))
      emptied == IF s1 # s0 /\ s1.contents[Sub] = <<>> THEN {Sub} ELSE {}
  IN  [CleanObject(s1, Top, CleanupKeys(s0, Top) \cup emptied) EXCEPT !.cleanup = NoTemps]

-----------------------------------------------------------------------------
(* RuleTransaction::new: the outputs get placeholders, existing ones a backup.          *)
PrepareOutput(s0, out) ==
  LET o  == out[1]
      k  == out[2]
      s1 == Reach(s0, o)
      f  == Current(s1, o)
      n  == Len(s1.contents[o]) + 1
  IN  IF k \in DOMAIN s1.dict[o]
        THEN SetFrame([s1 EXCEPT !.contents[o][s1.dict[o][k]] = <<k, NoValue, FALSE>>], o,
                      [f EXCEPT !.backup = With(@, s1.dict[o][k], Cell(s1, o, k)), !.outputs = @ \cup {k}])
        ELSE SetFrame([s1 EXCEPT !.contents[o] = Append(@, <<k, NoValue, FALSE>>), !.dict[o] = With(@, k, n)],
                      o, [f EXCEPT !.outputs = @ \cup {k}])

RuleTransaction(s0, r) ==
  FoldLeft(PrepareOutput, Push(s0, Top, NewFrame(s0, Top, "rule", FALSE)), r)

RuleRunning == InTransaction(s, Top) /\ Current(s, Top).kind = "rule"

NotRemoving == [by |-> "no", what |-> {}]

Idle == removing = NotRemoving /\ ~RuleRunning

InTree(o) == o \in Linked(s)

Room(o) == Len(s.contents[o]) < MaxContents

-----------------------------------------------------------------------------
(* Client code.  The guards named by liberties keep it to what transactions support:    *)
(* no overwriting and no storing again after a removal while the transaction may still  *)
(* be rolled back, no property both temporary and permanent, no changes of a subobject  *)
(* past the transaction of its parent.                                                  *)
Registered(s0) ==
  s0.cleanup.items \cup UNION {UNION {s0.stack[o][i].temps.items : i \in DOMAIN s0.stack[o]} : o \in Objects}

Disciplined(s0, open, o, k, temp) ==
  LET f == Current(s0, o)
  IN  /\ open /\ Has(s0, o, k) /\ s0.dict[o][k] <= f.end => "overwrite" \in Liberties
      /\ (\E i \in DOMAIN f.backup : f.backup[i][1] = k) => "again" \in Liberties
      /\ (IF temp THEN Has(s0, o, k) /\ ~Cell(s0, o, k)[3] ELSE <<o, k>> \in Registered(s0))
           => "mixed" \in Liberties

FreeFor(o) == InTransaction(s, IF o = Top THEN Sub ELSE Top) => "direct" \in Liberties

BeginTransaction(o) ==
  /\ Idle /\ InTree(o) /\ ~InTransaction(s, o) /\ FreeFor(o)
  /\ s' = Begin(s, o)
  /\ UNCHANGED <<removing, disk, instance>>

(* $top->take("k") and $top->take("Sub.k")                                              *)
Take(o, k, v, temp) ==
  LET open == InTransaction(s, Top)
      s1   == Reach(Opened(s, Top), o)
  IN  /\ Idle /\ InTree(o) /\ (open \/ (k \in Mutable /\ FreeFor(Top)))
      /\ MayStore(s1, o, k) /\ Disciplined(s1, open, o, k, temp)
      /\ (k \in DOMAIN s.dict[o] \/ Room(o))
      /\ s' = IF open THEN Store(s1, o, k, v, temp) ELSE Commit(Store(s1, o, k, v, temp), Top)
      /\ UNCHANGED <<removing, disk, instance>>

(* $sub->take("k")                                                                      *)
TakeDirect(k, v, temp) ==
  LET open == InTransaction(s, Sub)
      s1   == Opened(s, Sub)
  IN  /\ Idle /\ InTree(Sub) /\ (open \/ (k \in Mutable /\ FreeFor(Sub)))
      /\ MayStore(s1, Sub, k) /\ Disciplined(s1, open, Sub, k, temp)
      /\ (k \in DOMAIN s.dict[Sub] \/ Room(Sub))
      /\ s' = IF open THEN Store(s1, Sub, k, v, temp) ELSE Commit(Store(s1, Sub, k, v, temp), Sub)
      /\ UNCHANGED <<removing, disk, instance>>

RemoveMutable(o, k) ==
  LET s1 == Reach(Opened(s, Top), o)
  IN  /\ Idle /\ InTree(o) /\ k \in Mutable /\ Has(s, o, k)
      /\ (InTransaction(s, Top) \/ FreeFor(Top))
      /\ s' = IF InTransaction(s, Top) THEN Drop(s1, o, k) ELSE Commit(Drop(s1, o, k), Top)
      /\ UNCHANGED <<removing, disk, instance>>

(* remove() of properties that have to be reconstructible: rules may be run, in a       *)
(* transaction whose changes are all temporary, to find out ...                         *)
StartRemove(what) ==
  LET own == ~InTransaction(s, Top)
      s1  == FoldSet(LAMBDA p, s0 : Drop(Reach(s0, p[1]), p[1], p[2]), Opened(s, Top), what)
      s2  == IF own THEN s1 ELSE Begin(s1, Top)
  IN  /\ Idle /\ \A p \in what : InTree(p[1]) /\ Has(s, p[1], p[2])
      /\ Cardinality(what) > 1 => "again" \in Liberties
      /\ own => FreeFor(Top)
      /\ s' = SetFrame(s2, Top, [Current(s2, Top) EXCEPT !.temporary = TRUE])
      /\ removing' = [by |-> IF own THEN "own" ELSE "nested", what |-> what]
      /\ UNCHANGED <<disk, instance>>

(* ... whether they are.  If not, everything is rolled back.                            *)
EndRemove(allow) ==
  LET nested == removing.by = "nested"
      s1 == IF nested THEN Commit(s, Top) ELSE s
  IN  /\ removing # NotRemoving /\ ~RuleRunning
      /\ ~allow => \E p \in removing.what : ~Has(s, p[1], p[2])
      /\ s' = IF ~allow THEN Rollback(s1, Top) ELSE IF nested THEN s1 ELSE Commit(s1, Top)
      /\ removing' = NotRemoving
      /\ UNCHANGED <<disk, instance>>

Referenced(p) == Has(s, Top, p) \/ \E i \in DOMAIN s.stack[Top] :
                    \E j \in DOMAIN s.stack[Top][i].backup : s.stack[Top][i].backup[j][1] = p

(* add() of a multiple subobject instance; without property values it leaves the        *)
(* transaction open.                                                                    *)
WithExtra(s0, v, temp, inRule) ==
  LET s1 == [s0 EXCEPT !.contents[Extra] = <<>>, !.dict[Extra] = <<>>, !.stack[Extra] = <<>>,
                       !.parent = @ \cup {Extra}]
      s2 == Store(s1, Top, Extra, Extra, temp)
      s3 == IF inRule THEN s2 ELSE Descend(s2, Extra, TRUE)
  IN  [s3 EXCEPT !.contents[Extra] = [k \in 1..Len(v) |-> v[k]], !.dict[Extra] = Listed(v)]

(* What committing the outermost transaction may come to: the initial rules of a new    *)
(* subobject may fail.                                                                  *)
Outcomes(s0) ==
  LET subs == Current(s0, Top).subs
      new  == Extra \in subs /\ Current(s0, Extra).kind = "init"
  IN  {Commit(s0, Top)} \cup {FailedCommit(s0, done) : done \in
         {d \in SUBSET (subs \ {Extra}) : new /\ (d # {} => "partial" \in Liberties)}}

Add(filling, temp, fails) ==
  LET open == InTransaction(s, Top)
      s1   == WithExtra(Opened(s, Top), filling, temp, FALSE)
  IN  /\ Idle /\ ~Referenced(Extra) /\ Room(Top) /\ (open \/ FreeFor(Top))
      /\ (<<Top, Extra>> \in Registered(s) => temp \/ "mixed" \in Liberties)
      /\ fails => filling # <<>>
      /\ s' \in IF fails THEN {Rollback(s1, Top)}
                ELSE IF open \/ filling = <<>> THEN {s1} ELSE Outcomes(s1)
      /\ UNCHANGED <<removing, disk, instance>>

(* $extra->remove: its own transaction is rolled back, and its link to the parent cut.  *)
RemoveExtra ==
  LET open == InTransaction(s, Top)
      s1 == IF open /\ InTransaction(s, Extra)
              THEN LET s2 == Rollback(s, Extra)
                   IN  SetFrame(s2, Top, [Current(s2, Top) EXCEPT !.subs = @ \ {Extra}])
              ELSE Opened(s, Top)
      s3 == [Drop(s1, Top, Extra) EXCEPT !.parent = @ \ {Extra}]
  IN  /\ Idle /\ Has(s, Top, Extra) /\ (open \/ FreeFor(Top))
      /\ open /\ s.dict[Top][Extra] <= Current(s, Top).end => "unlink" \in Liberties
      /\ s' = IF open THEN s3 ELSE Commit(s3, Top)
      /\ UNCHANGED <<removing, disk, instance>>

(* commit(), also by asking for a property not there yet                                *)
CommitTransaction(o) ==
  /\ Idle /\ InTransaction(s, o) /\ ~Current(s, o).dependent
  /\ s' \in IF o = Top THEN Outcomes(s) ELSE {Commit(s, o)}
  /\ UNCHANGED <<removing, disk, instance>>

RollbackTransaction(o) ==
  /\ Idle /\ InTransaction(s, o) /\ ~Current(s, o).dependent
  /\ s' = Rollback(s, o)
  /\ UNCHANGED <<removing, disk, instance>>

-----------------------------------------------------------------------------
(* Production rules run without a transaction of the client, or while remove() looks    *)
(* for a way to reconstruct a property.                                                 *)
RemovedInTransaction(p) ==
  ~Has(s, p[1], p[2]) /\ \E i \in DOMAIN s.stack[p[1]] : \E j \in DOMAIN s.stack[p[1]][i].backup :
                           s.stack[p[1]][i].backup[j][1] = p[2]

MayRun(r) ==
  /\ ~RuleRunning /\ \A i \in DOMAIN r : InTree(r[i][1])
  /\ (\E i \in DOMAIN r : ~Has(s, r[i][1], r[i][2]) /\ r[i] \in Registered(s)) => "mixed" \in Liberties
  /\ IF removing = NotRemoving THEN ~InTransaction(s, Top) /\ FreeFor(Top)
     ELSE /\ (\E i \in DOMAIN r : r[i][1] # Top) => "feats" \in Liberties
          /\ (\E i \in DOMAIN r : Has(s, r[i][1], r[i][2])) => "retemp" \in Liberties
          /\ removing.by = "nested" /\ (\E i \in DOMAIN r : RemovedInTransaction(r[i])) => "again" \in Liberties
  /\ \A o \in Objects : Len(s.contents[o]) + Cardinality({i \in DOMAIN r : r[i][1] = o /\ ~Has(s, o, r[i][2])}) <= MaxContents

AllExist(r) == \A i \in DOMAIN r : r[i][2] \in DOMAIN s.dict[r[i][1]]

StartRule(r) ==
  /\ MayRun(r) /\ ~AllExist(r)
  /\ s' = RuleTransaction(s, r)
  /\ UNCHANGED <<removing, disk, instance>>

(* Rule::execute: nothing to do when all outputs exist                                  *)
SkipRule(r) ==
  /\ MayRun(r) /\ AllExist(r)
  /\ s' = Rollback(RuleTransaction(s, r), Top)
  /\ UNCHANGED <<removing, disk, instance>>

RulePut(o, k, v, temp) ==
  LET f == Current(s, o)
  IN  /\ RuleRunning /\ InTransaction(s, o) /\ f.kind = "rule" /\ k \in f.outputs
      /\ temp \/ f.temporary => s.dict[o][k] > f.end \/ "retemp" \in Liberties
      /\ ~temp => <<o, k>> \notin Registered(s) \/ "mixed" \in Liberties
      /\ s' = Store(s, o, k, v, temp)
      /\ UNCHANGED <<removing, disk, instance>>

(* $this->add(..., temporary) in a rule                                                 *)
RuleAdds(filling) ==
  /\ RuleRunning /\ ~Referenced(Extra) /\ Room(Top)
  /\ s' = WithExtra(s, filling, TRUE, TRUE)
  /\ UNCHANGED <<removing, disk, instance>>

CommitRule ==
  /\ RuleRunning
  /\ s' = Commit(s, Top)
  /\ UNCHANGED <<removing, disk, instance>>

RuleFails ==
  /\ RuleRunning
  /\ s' = Rollback(s, Top)
  /\ UNCHANGED <<removing, disk, instance>>

(* A signal while the rule runs: it is rolled back and the request, and what asked for  *)
(* it, abandoned.                                                                       *)
Interrupted ==
  /\ RuleRunning /\ (removing = NotRemoving \/ "interrupt" \in Liberties)
  /\ s' = Rollback(s, Top)
  /\ removing' = NotRemoving
  /\ UNCHANGED <<disk, instance>>

-----------------------------------------------------------------------------
(* The scope ends: temporary properties are removed and gaps closed.                    *)
EndScope ==
  /\ Idle /\ s.cleanup # NoTemps
  /\ InTransaction(s, Top) \/ InTransaction(s, Sub) => "scope" \in Liberties
  /\ s' = Cleanup(s)
  /\ UNCHANGED <<removing, disk, instance>>

(* prepare_for_save()                                                                   *)
Save ==
  /\ Idle /\ (InTransaction(s, Sub) => "scope" \in Liberties \/ Current(s, Sub).dependent)
  /\ LET s1 == IF InTransaction(s, Top) THEN Commit(s, Top) ELSE s
         s2 == [Cleanup(s1) EXCEPT !.changed = FALSE]
     IN  s' = s2 /\ disk' = Permanent(s2)
  /\ UNCHANGED <<removing, instance>>

Init ==
  /\ instance \in Instances
  /\ s = [contents |-> FirstContents,
          dict     |-> [o \in Objects |-> Listed(FirstContents[o])],
          stack    |-> [o \in Objects |-> <<>>],
          cleanup  |-> NoTemps, changed |-> FALSE, parent |-> {Sub}]
  /\ removing = NotRemoving
  /\ disk = Permanent(s)

Next ==
  \/ \E o \in {Top, Sub} : BeginTransaction(o) \/ CommitTransaction(o) \/ RollbackTransaction(o)
  \/ \E o \in {Top, Sub} : \E k \in Declared[o], v \in Values, temp \in BOOLEAN :
       Take(o, k, v, temp) \/ RulePut(o, k, v, temp)
  \/ \E k \in Declared[Sub], v \in Values, temp \in BOOLEAN : TakeDirect(k, v, temp)
  \/ \E o \in {Top, Sub} : \E k \in Declared[o] : RemoveMutable(o, k)
  \/ \E what \in (SUBSET ({Top, Sub} \X (Leaves \ Mutable))) \ {{}} : StartRemove(what)
  \/ \E allow \in BOOLEAN : EndRemove(allow)
  \/ \E filling \in Fillings, temp, fails \in BOOLEAN : Add(filling, temp, fails)
  \/ RemoveExtra
  \/ \E r \in Rules : StartRule(r) \/ SkipRule(r)
  \/ \E filling \in Fillings : RuleAdds(filling)
  \/ CommitRule \/ RuleFails \/ Interrupted
  \/ EndScope \/ Save

Spec == Init /\ [][Next]_vars

-----------------------------------------------------------------------------
(* The dictionary and the contents agree on every property of every object in the tree  *)
(* (BigObject.pm:30, "Property => index in @contents"), however contents are cut off,   *)
(* restored and compacted.                                                              *)
DictionaryAgrees ==
  \A o \in Linked(s) :
    /\ \A k \in DOMAIN s.dict[o] : Has(s, o, k) /\ Cell(s, o, k)[1] = k
    /\ \A i \in DOMAIN s.contents[o] :
         s.contents[o][i] # Gap => s.contents[o][i][1] \in DOMAIN s.dict[o]

Quiet == removing = NotRemoving /\ \A o \in {Top, Sub} : ~InTransaction(s, o)

(* Between transactions the cleanup table tells exactly what to clean: the properties   *)
(* stored temporarily, so that nothing else is removed at the end of the scope and      *)
(* nothing temporary gets into a data file; and the first of the gaps, which the        *)
(* cleanup takes for empty (Transaction::commit, BigObject::cleanup).                   *)
TemporariesRegistered ==
  \A o \in Linked(s) \ (IF IsTemporary(s, Extra) THEN {Extra} ELSE {}) :
    \A k \in Keys : Has(s, o, k) => (Cell(s, o, k)[3] <=> <<o, k>> \in s.cleanup.items)

GapsRegistered ==
  \A o \in {Top, Sub} :
    /\ \A i \in DOMAIN s.contents[o] : s.contents[o][i] = Gap => s.cleanup.gap[o] \in 1..i
    /\ s.cleanup.gap[o] # 0 => s.contents[o][s.cleanup.gap[o]] = Gap

CleanupTableExact == Quiet => TemporariesRegistered /\ GapsRegistered

(* An object whose permanent contents differ from its data file will be saved.          *)
ChangesAreSaved == Quiet /\ Permanent(s) # disk => s.changed

(* A subobject in the tree knows its parent (BigObject.pm:37), and takes part in a      *)
(* transaction of its parent exactly as long as it has one of its own for it: rollback  *)
(* relies on both (BigObject.pm:57).                                                    *)
ParentsKnown == Linked(s) \subseteq {Top} \cup s.parent

SubtransactionsNest ==
  Cardinality({i \in DOMAIN s.stack[Top] : Sub \in s.stack[Top][i].subs})
    = Cardinality({i \in DOMAIN s.stack[Sub] : s.stack[Sub][i].dependent})

SubobjectsTied == ParentsKnown /\ SubtransactionsNest

PartOf(v, w) ==
  \A o \in DOMAIN v : o \in DOMAIN w /\ \A k \in DOMAIN v[o] : k \in DOMAIN w[o] /\ v[o][k] = w[o][k]

Without(v, what) == [o \in DOMAIN v |-> [k \in {j \in DOMAIN v[o] : <<o, j>> \notin what} |-> v[o][k]]]

(* Searching for a way to reconstruct removed properties changes nothing else, and if   *)
(* it is in vain, nothing at all since the transaction was opened (BigObject.pm:1358).  *)
ReconstructionIsolated ==
  [][/\ EndRemove(TRUE)  => PartOf(Without(Current(s, Top).view, removing.what), View(s'))
     /\ EndRemove(FALSE) => View(s') = s.stack[Top][1].view]_vars

-----------------------------------------------------------------------------
(* The abstract specification: a stack of snapshots.                                    *)
Snapshots == INSTANCE SnapshotStack WITH
  view <- View(s),
  saved <- [i \in DOMAIN s.stack[Top] |-> [view |-> s.stack[Top][i].view, rule |-> s.stack[Top][i].kind = "rule"]]

ImplementsSnapshots == Snapshots!Spec
=============================================================================
