---------------------------- MODULE SharedObject ----------------------------
(***************************************************************************)
(* Copy-on-write storage of the C++ template library: pm::shared_object    *)
(* and pm::shared_array with pm::shared_alias_handler                      *)
(* (lib/core/include/internal/shared_object.h).                            *)
(*                                                                         *)
(* A handle is an object owning a pointer to a reference-counted body.     *)
(* Copies share a body; a handle asking for write access to a shared body  *)
(* first "divorces": it moves to a private copy.  An alias is a handle     *)
(* created for a mutable view (a row, a minor, ...) of another handle, its *)
(* owner; writing through an alias must reach the owner, so the whole      *)
(* family (owner and aliases) divorces together.                           *)
(*                                                                         *)
(* The library is single-threaded: one action is one call.  The contents   *)
(* of a body is one member of Value; Size gives its number of elements.    *)
(***************************************************************************)
EXTENDS Naturals, FiniteSets

CONSTANTS Handle,       \* C++ objects of a class derived from shared_object / shared_array
          Body,         \* reference-counted representations (struct rep)
          Value,        \* what a body can contain
          Size,         \* number of elements of a value
          EmptyRep,     \* shared_object_secrets::empty_rep, the static body of empty arrays
          EmptyValue,   \* its contents
          None,         \* a null pointer
          Orphan        \* marks an alias whose owner has gone (n_aliases < 0, owner = nullptr)

(***************************************************************************)
(* What the clients of the library do.  Each hypothesis names a family of  *)
(* calls; the configurations say which of them are allowed.                *)
(***************************************************************************)
CONSTANTS Rebinding,    \* a member of an alias family may be given another body on its own
          OrphanWrites, \* an alias that lost its owner may still be written through
          Throwing,     \* constructors and copy constructors of elements may throw
          MaxRefc       \* bound: no further reference is lost in a body with this counter

ASSUME HandleAssumption == IsFiniteSet(Handle) /\ {None, Orphan} \cap Handle = {} /\ None # Orphan
ASSUME BodyAssumption == EmptyRep \in Body /\ None \notin Body
ASSUME ValueAssumption ==
  /\ None \notin Value
  /\ Size \in [Value -> Nat]
  /\ EmptyValue \in Value
  /\ \A v \in Value : Size[v] = 0 <=> v = EmptyValue
ASSUME ClientAssumption == {Rebinding, OrphanWrites, Throwing} \subseteq BOOLEAN /\ MaxRefc \in Nat

VARIABLES body,    \* body[h]: the body h is attached to, None when h does not exist
          refc,    \* refc[b]: the reference counter of b
          obj,     \* obj[b]: the contents of b, None when its storage is not allocated
          owner,   \* owner[h]: None for a handle that is no alias, else its owner or Orphan
          aliases  \* aliases[h]: the aliases registered with h

vars == <<body, refc, obj, owner, aliases>>

TypeOK ==
  /\ body \in [Handle -> Body \cup {None}]
  /\ refc \in [Body -> Nat]
  /\ obj \in [Body -> Value \cup {None}]
  /\ owner \in [Handle -> Handle \cup {None, Orphan}]
  /\ aliases \in [Handle -> SUBSET Handle]

Live(h) == body[h] # None
Hosts(b) == {h \in Handle : body[h] = b}
IsAlias(h) == owner[h] \in Handle
IsOwner(h) == owner[h] = None

\* The handles that are meant to see each other's changes.
Family(h) == IF IsAlias(h) THEN {owner[h]} \cup aliases[owner[h]]
                           ELSE {h} \cup aliases[h]

\* A body whose storage the allocator may hand out.
Fresh(b) == obj[b] = None

\* Mutants of NeedsCopy: an alias copies although only its family shares the body, or fails
\* to copy when one stranger shares it.
NeedsCopy_TooEager(h) ==
  /\ refc[body[h]] > 1
  /\ IsOwner(h) \/ (IsAlias(h) /\ refc[body[h]] > Cardinality(aliases[owner[h]]))
NeedsCopy_TooLazy(h) ==
  /\ refc[body[h]] > 1
  /\ IsOwner(h) \/ (IsAlias(h) /\ refc[body[h]] > Cardinality(aliases[owner[h]]) + 2)

\* Write access requires a private copy: the test in enforce_unshared, CoW and preCoW.
NeedsCopy(h) ==
  /\ refc[body[h]] > 1
  /\ \/ IsOwner(h)
     \/ IsAlias(h) /\ refc[body[h]] > Cardinality(aliases[owner[h]]) + 1

\* The discipline on giving a single handle another body, see Rebinding.
MayRebind(h) == Rebinding \/ (~IsAlias(h) /\ aliases[h] = {})
MayWrite(h) == OrphanWrites \/ owner[h] # Orphan

Init ==
  /\ body = [h \in Handle |-> None]
  /\ refc = [b \in Body |-> IF b = EmptyRep THEN 1 ELSE 0]
  /\ obj = [b \in Body |-> IF b = EmptyRep THEN EmptyValue ELSE None]
  /\ owner = [h \in Handle |-> None]
  /\ aliases = [h \in Handle |-> {}]

-----------------------------------------------------------------------------
(* AliasSet *)

Enter(h, o) ==
  /\ owner' = [owner EXCEPT ![h] = o]
  /\ aliases' = [aliases EXCEPT ![o] = @ \cup {h}]

\* Mutant of Forget: the aliases keep pointing to their former owner.
Forget_Dangling(h) == aliases' = [aliases EXCEPT ![h] = {}] /\ UNCHANGED owner

\* The aliases of h lose their owner; h itself stays an owner.
Forget(h) ==
  /\ owner' = [a \in Handle |-> IF a \in aliases[h] THEN Orphan ELSE owner[a]]
  /\ aliases' = [aliases EXCEPT ![h] = {}]

\* What the copy constructor makes of h as a copy of g.
CopyLinks(h, g) ==
  \/ IsAlias(g) /\ Enter(h, owner[g])
  \/ ~IsAlias(g) /\ owner' = [owner EXCEPT ![h] = owner[g]] /\ UNCHANGED aliases

-----------------------------------------------------------------------------
(* Bodies *)

\* The contents of the bodies when the counters have become rc: leave() destructs a
\* body when its counter drops to zero.
Left(b, rc) == IF rc[b] = 0 THEN [obj EXCEPT ![b] = None] ELSE obj

\* h leaves its body and is attached to a new one with contents v.
NewBody(h, v) == \E b \in Body :
  /\ Fresh(b)
  /\ body' = [body EXCEPT ![h] = b]
  /\ refc' = [refc EXCEPT ![body[h]] = @ - 1, ![b] = 1]
  /\ obj' = [Left(body[h], refc') EXCEPT ![b] = v]

\* Mutants of DivorceFamily: the old bodies of the owner and the other aliases are not counted
\* down, or only the writing alias is moved.
DivorceFamily_NoCountDown(h, v) == \E b \in Body :
  /\ Fresh(b)
  /\ body' = [g \in Handle |-> IF g \in Family(h) THEN b ELSE body[g]]
  /\ refc' = [refc EXCEPT ![body[h]] = @ - 1, ![b] = Cardinality(Family(h))]
  /\ obj' = [obj EXCEPT ![b] = v]
  /\ UNCHANGED <<owner, aliases>>
DivorceFamily_Alone(h, v) == NewBody(h, v) /\ UNCHANGED <<owner, aliases>>

\* divorce() of an alias followed by divorce_aliases(): h moves to a new body, then the
\* owner and the other aliases are attached to it, their old bodies being counted down
\* without being destructed.
DivorceFamily(h, v) == \E b \in Body :
  /\ Fresh(b)
  /\ body' = [g \in Handle |-> IF g \in Family(h) THEN b ELSE body[g]]
  /\ refc' = [c \in Body |-> IF c = b THEN Cardinality(Family(h))
                                      ELSE refc[c] - Cardinality(Hosts(c) \cap Family(h))]
  /\ obj' = [obj EXCEPT ![b] = v]
  /\ UNCHANGED <<owner, aliases>>

\* The contents are changed after copying: CoW, or preCoW and postCoW.
CopyOnWrite(h, v) ==
  /\ NeedsCopy(h)
  /\ \/ IsOwner(h) /\ NewBody(h, v) /\ Forget(h)
     \/ IsAlias(h) /\ DivorceFamily(h, v)

\* The contents are changed where they are.
InPlace(h, v) ==
  /\ ~NeedsCopy(h)
  /\ obj' = [obj EXCEPT ![body[h]] = v]
  /\ UNCHANGED <<body, refc, owner, aliases>>

\* empty(owner): what a throwing constructor leaves behind, counter of the old body as in rc.
Emptied(h, rc) ==
  /\ body' = [body EXCEPT ![h] = EmptyRep]
  /\ refc' = [rc EXCEPT ![EmptyRep] = @ + 1]

-----------------------------------------------------------------------------
(* Operations *)

\* Constructors from values; an array of size 0 shares the static empty body.
Construct(h, v) ==
  /\ ~Live(h)
  /\ \E b \in Body :
       /\ IF v = EmptyValue THEN b = EmptyRep ELSE Fresh(b)
       /\ body' = [body EXCEPT ![h] = b]
       /\ refc' = [refc EXCEPT ![b] = IF v = EmptyValue THEN @ + 1 ELSE 1]
       /\ obj' = [obj EXCEPT ![b] = v]
  /\ UNCHANGED <<owner, aliases>>

ShareBody(h, g) ==
  /\ body' = [body EXCEPT ![h] = body[g]]
  /\ refc' = [refc EXCEPT ![body[g]] = @ + 1]
  /\ UNCHANGED obj

\* The copy constructor.
Copy(h, g) ==
  /\ ~Live(h) /\ Live(g)
  /\ ShareBody(h, g)
  /\ CopyLinks(h, g)

\* alias<T&>: the copy constructor followed by make_mutable_alias, which has no effect on
\* a copy that is an alias already.
MakeAlias(h, g) ==
  /\ ~Live(h) /\ Live(g)
  /\ ShareBody(h, g)
  /\ IF IsOwner(g) THEN Enter(h, g) ELSE CopyLinks(h, g)

\* leave() and the destructor of AliasSet.
Destroy(h) ==
  /\ Live(h)
  /\ body' = [body EXCEPT ![h] = None]
  /\ refc' = [refc EXCEPT ![body[h]] = @ - 1]
  /\ obj' = Left(body[h], refc')
  /\ IF IsOwner(h)
       THEN Forget(h)
       ELSE /\ owner' = [owner EXCEPT ![h] = None]
            /\ aliases' = [o \in Handle |-> aliases[o] \ {h}]

\* operator= : the alias links of both sides stay as they are.
Assign(h, g) ==
  /\ Live(h) /\ Live(g) /\ MayRebind(h)
  /\ body' = [body EXCEPT ![h] = body[g]]
  /\ refc' = [refc EXCEPT ![body[g]] = @ + 1, ![body[h]] = @ - 1]
  /\ obj' = Left(body[h], refc')
  /\ UNCHANGED <<owner, aliases>>

\* Write access to the elements (enforce_unshared, operator*, operator->), assign_op, and
\* assign with the same number of elements.
Write(h, v) ==
  /\ Live(h) /\ MayWrite(h)
  /\ Size[v] = Size[obj[body[h]]]
  /\ CopyOnWrite(h, v) \/ InPlace(h, v)

\* shared_array::assign with another number of elements.  A family that nobody else shares
\* the body with is not moved: only h is.
AssignValues(h, v) ==
  /\ Live(h) /\ MayWrite(h)
  /\ Size[v] # Size[obj[body[h]]]
  /\ \/ CopyOnWrite(h, v)
     \/ /\ ~NeedsCopy(h) /\ MayRebind(h)
        /\ NewBody(h, v)
        /\ UNCHANGED <<owner, aliases>>

\* replace, assign_copy, apply: aliases are not considered.
Replace(h, v) ==
  /\ Live(h) /\ MayRebind(h)
  /\ IF refc[body[h]] > 1
       THEN NewBody(h, v)
       ELSE obj' = [obj EXCEPT ![body[h]] = v] /\ UNCHANGED <<body, refc>>
  /\ UNCHANGED <<owner, aliases>>

\* shared_array::resize: always a new body.
Resize(h, v) ==
  /\ Live(h) /\ MayRebind(h)
  /\ Size[v] # Size[obj[body[h]]]
  /\ NewBody(h, v)
  /\ UNCHANGED <<owner, aliases>>

\* shared_array::append and weave, for owners only.
Extend(h, v) ==
  /\ Live(h) /\ IsOwner(h)
  /\ Size[v] > Size[obj[body[h]]]
  /\ NewBody(h, v)
  /\ Forget(h)

Clear(h) ==
  /\ Live(h) /\ MayRebind(h)
  /\ Size[obj[body[h]]] # 0
  /\ body' = [body EXCEPT ![h] = EmptyRep]
  /\ refc' = [refc EXCEPT ![body[h]] = @ - 1, ![EmptyRep] = @ + 1]
  /\ obj' = Left(body[h], refc')
  /\ UNCHANGED <<owner, aliases>>

\* The handle h in the names of a state after swapping f and g.
Renamed(h, f, g) == IF h = f THEN g ELSE IF h = g THEN f ELSE h

\* AliasSet::swap and relocate: the links follow the handles that moved.
Exchange(f, g) ==
  LET R(h) == Renamed(h, f, g) IN
  /\ body' = [h \in Handle |-> body[R(h)]]
  /\ owner' = [h \in Handle |-> IF owner[R(h)] \in Handle THEN R(owner[R(h)]) ELSE owner[R(h)]]
  /\ aliases' = [h \in Handle |-> {R(a) : a \in aliases[R(h)]}]
  /\ UNCHANGED <<refc, obj>>

\* swap; exchanging an owner with its own alias would corrupt the union set/owner.
Swap(f, g) == Live(f) /\ Live(g) /\ owner[f] # g /\ owner[g] # f /\ Exchange(f, g)

\* relocate: f moves to the raw storage g.
Relocate(f, g) == Live(f) /\ ~Live(g) /\ Exchange(f, g)

-----------------------------------------------------------------------------
(* Failing constructors: init and apply catch, call empty(owner) and rethrow. *)

\* Mutant of WriteThrows: the handle is not emptied.
WriteThrows_NotEmptied(h) ==
  /\ Throwing /\ Live(h) /\ MayWrite(h) /\ NeedsCopy(h)
  /\ refc' = [refc EXCEPT ![body[h]] = @ - 1]
  /\ UNCHANGED <<body, obj, owner, aliases>>

\* divorce() has counted down the old body before it copies it; forget() and
\* divorce_aliases() are not reached.
WriteThrows(h) ==
  /\ Throwing /\ Live(h) /\ MayWrite(h) /\ NeedsCopy(h)
  /\ Size[obj[body[h]]] > 0
  /\ Emptied(h, [refc EXCEPT ![body[h]] = @ - 1])
  /\ UNCHANGED <<obj, owner, aliases>>

\* assign() and assign_op() construct the new body before they leave the old one.
AssignThrows(h, v) ==
  /\ Throwing /\ Live(h) /\ MayWrite(h)
  /\ NeedsCopy(h) \/ (MayRebind(h) /\ Size[v] # Size[obj[body[h]]])
  /\ Size[v] > 0 /\ refc[body[h]] < MaxRefc
  /\ Emptied(h, refc)
  /\ UNCHANGED <<obj, owner, aliases>>

\* replace(): the only operation that gives up its own body for good before it fails.
ReplaceThrows(h) ==
  /\ Throwing /\ Live(h) /\ MayRebind(h)
  /\ Emptied(h, [refc EXCEPT ![body[h]] = @ - 1])
  /\ obj' = Left(body[h], refc')
  /\ UNCHANGED <<owner, aliases>>

\* resize(), append() and weave() count down the old body first and destruct it last; the
\* elements of a body without other hosts are moved, only new ones can fail.
ResizeThrows(h, v) ==
  /\ Throwing /\ Live(h)
  /\ MayRebind(h) \/ (IsOwner(h) /\ Size[v] > Size[obj[body[h]]])
  /\ \/ Size[v] > Size[obj[body[h]]]
     \/ Size[v] # Size[obj[body[h]]] /\ Size[v] > 0 /\ refc[body[h]] > 1
  /\ Emptied(h, [refc EXCEPT ![body[h]] = @ - 1])
  /\ UNCHANGED <<obj, owner, aliases>>

Next ==
  \/ \E h \in Handle, v \in Value :
       \/ Construct(h, v) \/ Write(h, v) \/ AssignValues(h, v) \/ Replace(h, v)
       \/ Resize(h, v) \/ Extend(h, v) \/ AssignThrows(h, v) \/ ResizeThrows(h, v)
  \/ \E h, g \in Handle :
       Copy(h, g) \/ MakeAlias(h, g) \/ Assign(h, g) \/ Swap(h, g) \/ Relocate(h, g)
  \/ \E h \in Handle : Destroy(h) \/ Clear(h) \/ WriteThrows(h) \/ ReplaceThrows(h)

Spec == Init /\ [][Next]_vars

-----------------------------------------------------------------------------
(* Properties *)

\* What a reader of h sees.
Contents(h) == IF Live(h) THEN obj[body[h]] ELSE None

\* No handle is ever attached to a body whose storage has been given back: the counters
\* that leave() and the two divorce() functions keep never reach zero too early.
NoDanglingHost == \A h \in Handle : Live(h) => obj[body[h]] # None

\* A counter is the number of hosts of its body, as the comment on rep::refc says; the
\* static empty body counts one more, which keeps it from being destroyed.
RefcountExact == \A b \in Body :
  refc[b] = Cardinality(Hosts(b)) + (IF b = EmptyRep THEN 1 ELSE 0)

\* The two directions of the alias links agree, link existing objects only, and are not
\* nested: an owner is never itself an alias.
AliasLinks ==
  /\ \A a, o \in Handle : a \in aliases[o] <=> owner[a] = o
  /\ \A h \in Handle : Live(h) \/ (owner[h] = None /\ aliases[h] = {})
  /\ \A a \in Handle : IsAlias(a) => Live(owner[a]) /\ IsOwner(owner[a])

\* "The data instance is destroyed together with the last host": no body without hosts
\* stays allocated.
DestroyedWithLastHost == \A b \in Body \ {EmptyRep} : obj[b] # None => Hosts(b) # {}

\* An alias and its owner are attached to the same body.
FamilyCoherent == \A a \in Handle : IsAlias(a) => body[a] = body[owner[a]]

\* A write through h changes what the other members of its family see, and nothing of what
\* any other handle sees.
FormerPartnersKeepValue ==
  [][\A h, g \in Handle : (\E v \in Value : Write(h, v)) /\ g \notin Family(h)
                            => Contents(g)' = Contents(g)]_vars

\* Under the disciplined use of the library, shared bodies cannot be told from separate
\* values, one per handle and family.
Values == INSTANCE AliasedValues WITH val <- [h \in Handle |-> Contents(h)]
ImplementsAliasedValues == Values!Spec
=============================================================================
