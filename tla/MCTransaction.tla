-------------------------- MODULE MCTransaction --------------------------
(* Instances of Transaction: a is mutable, b and c are outputs of rules.                *)
EXTENDS Transaction

(* No subobject: removals and rules of the top-level object                             *)
Flat     == [o \in Objects |-> IF o = Top THEN {"b", "c"} ELSE {}]
FlatData == [o \in Objects |-> IF o = Top THEN << <<"b", "v1", FALSE>> >> ELSE <<>>]

(* A subobject with a rule of its own                                                   *)
Below     == [o \in Objects |-> IF o = Sub THEN {"a", "b"} ELSE {}]
BelowData == [o \in Objects |-> CASE o = Top -> << <<Sub, Sub, FALSE>> >>
                                  [] o = Sub -> << <<"a", "v1", FALSE>> >>
                                  [] OTHER   -> <<>>]

(* Both kinds of subobjects                                                             *)
Family     == [o \in Objects |-> {"a"}]
FamilyData == [o \in Objects |-> CASE o = Top -> << <<"a", "v1", FALSE>>, <<Sub, Sub, FALSE>> >>
                                   [] o = Sub -> << <<"a", "v1", FALSE>> >>
                                   [] OTHER   -> <<>>]

(* A property to be removed and a subobject with a rule                                 *)
FeatsTypes == [Below EXCEPT ![Top] = {"b"}]
FeatsData  == [BelowData EXCEPT ![Top] = << <<"b", "v1", FALSE>>, <<Sub, Sub, FALSE>> >>]

(* A rule whose output is new, one with an old output besides, one of a subobject       *)
New       == { << <<Top, "b">> >> }
NewAndOld == { << <<Top, "b">>, <<Top, "c">> >> }
Lower     == { << <<Sub, "b">> >> }

(* A rule that adds a subobject                                                         *)
Small     == [Flat EXCEPT ![Top] = {"a", "b"}]
SmallData == [FlatData EXCEPT ![Top] = << <<"a", "v1", FALSE>> >>]

Empty     == {<<>>}
Filled    == {<< <<"a", "v1", FALSE>> >>}

Modest(data, types, values, rules, fillings, max) ==
  [contents |-> data, declared |-> types, values |-> values, rules |-> rules,
   fillings |-> fillings, max |-> max, liberties |-> {}]

Worlds == { Modest(FlatData, Flat, {"v1"}, NewAndOld, {}, 4),
            Modest(BelowData, Below, {"v1", "v2"}, Lower, {}, 4),
            Modest(FamilyData, Family, {"v1"}, {}, Filled, 3),
            Modest(SmallData, Small, {"v1"}, New, Empty, 3) }

ASSUME WorldsAreStrict == \A w \in Worlds : Strict(w)

(* Worlds in which one thing more is allowed                                            *)
Allowing(w, liberty) == {[w EXCEPT !.liberties = {liberty}]}
=============================================================================
