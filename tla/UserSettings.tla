---------------------------- MODULE UserSettings ----------------------------
(* The user's private settings (UserSettings.pm): read at the start of a session,       *)
(* changed in memory, and written back as a whole at its end, as a new file that        *)
(* replaces the old one (OverwriteFile.pm).                                             *)
EXTENDS Functions

CONSTANTS
  Items,         \* customizable variables
  ByArch,        \* those whose values depend on the architecture
  Values, Default,
  Imported,      \* items set in the shared configuration |-> their values
  Sessions,
  Users,         \* a set of records: the architectures a user works on, what the private
                 \* file holds at first, whether sessions run at the same time, and the
                 \* items of an extension that may be obliterated
  Fails          \* writing may fail (disk full, quota)

ASSUME ItemsAssumption == ByArch \subseteq Items /\ DOMAIN Imported \subseteq Items
ASSUME ValuesAssumption == Default \notin Values /\ \A i \in DOMAIN Imported : Imported[i] \in Values
ASSUME UsersAssumption ==
  /\ "damaged" \notin Items
  /\ \A u \in Users : /\ "any" \notin u.archs /\ u.extension \subseteq Items
                      /\ DOMAIN u.file \subseteq Items \X (u.archs \cup {"any"})
                      /\ u.file \in [DOMAIN u.file -> Values]

VARIABLES
  file,      \* the private settings: keys |-> values, or Truncated
  session,   \* sessions under way
  wanted,    \* history: what each item was last saved as, for each architecture
  user       \* whose settings they are, which never changes

settingsVars == <<file, session, wanted, user>>

Archs == user.archs
Overlap == user.overlap
Extension == user.extension

Keys == Items \X (Archs \cup {"any"})
Key(i, a) == <<i, IF i \in ByArch THEN a ELSE "any">>
OldKey(i, a) == <<i, IF i \in ByArch THEN "any" ELSE a>>

Empty == [k \in {} |-> Default]
Truncated == [k \in {<<"damaged", "any">>} |-> Default]
Contents(f) == IF f = Truncated THEN Empty ELSE f

(* A value without a private setting                                                    *)
ResetTo(i) == IF i \in DOMAIN Imported THEN Imported[i] ELSE Default

(* Scalar::init_value, find_value and find_arch_changed: a value kept under the key of  *)
(* before the by_arch flag changed is taken over.                                       *)
Moves(src, a, i) == Key(i, a) \notin DOMAIN src /\ OldKey(i, a) \in DOMAIN src

Value(src, a, i) ==
  IF Key(i, a) \in DOMAIN src THEN src[Key(i, a)]
  ELSE IF Moves(src, a, i) THEN src[OldKey(i, a)]
  ELSE ResetTo(i)

Active(s) == session[s].phase # "off"

Idle == [phase |-> "off", arch |-> "any", source |-> Empty, temp |-> Empty, value |-> Empty,
         custom |-> {}, changed |-> {}, touched |-> {}, dirty |-> FALSE]

(* init(): a damaged file makes the session die at once; one of another version, or     *)
(* none, will be written anew.                                                          *)
Start(s, a) ==
  /\ ~Active(s) /\ file # Truncated
  /\ Overlap \/ \A t \in Sessions : ~Active(t)
  /\ \E other \in BOOLEAN :
       session' = [session EXCEPT ![s] =
         [Idle EXCEPT !.phase = "on", !.arch = a, !.source = file, !.dirty = other]]
  /\ UNCHANGED <<file, wanted, user>>

Without(src, k) == Restrict(src, DOMAIN src \ {k})
With(f, x, v) == [y \in DOMAIN f \cup {x} |-> IF y = x THEN v ELSE f[y]]

Left(src, a, i) == IF Moves(src, a, i) THEN Without(src, OldKey(i, a)) ELSE src

(* add_item(): as the application or extension is loaded                                *)
AddItem(s, i) ==
  LET r == session[s]
      moves == Moves(r.source, r.arch, i)
      own == moves \/ Key(i, r.arch) \in DOMAIN r.source
  IN  /\ r.phase = "on" /\ i \notin DOMAIN r.value
      /\ session' = [session EXCEPT ![s] = [r EXCEPT
           !.value = With(@, i, Value(r.source, r.arch, i)),
           !.source = Left(@, r.arch, i),
           !.custom = IF own THEN @ \cup {i} ELSE @,
           !.changed = IF moves THEN @ \cup {i} ELSE @,
           !.dirty = @ \/ moves]]
      /\ UNCHANGED <<file, wanted, user>>

(* set_custom, or any other assignment to the variable                                  *)
Set(s, i, v) ==
  /\ session[s].phase = "on" /\ i \in DOMAIN session[s].value
  /\ session' = [session EXCEPT ![s] = [session[s] EXCEPT
       !.value[i] = v, !.custom = @ \cup {i}, !.changed = @ \cup {i},
       !.touched = @ \cup {i}, !.dirty = TRUE]]
  /\ UNCHANGED <<file, wanted, user>>

(* reset_custom: of effect only on what is customized                                   *)
Reset(s, i) ==
  /\ session[s].phase = "on" /\ i \in session[s].custom
  /\ session' = [session EXCEPT ![s] = [session[s] EXCEPT
       !.value[i] = ResetTo(i), !.custom = @ \ {i}, !.changed = @ \cup {i},
       !.touched = @ \cup {i}, !.dirty = TRUE]]
  /\ UNCHANGED <<file, wanted, user>>

(* The items of an extension are dropped, not what is stored of them.                   *)
Obliterate(s, i) ==
  /\ i \in Extension /\ session[s].phase = "on" /\ i \in DOMAIN session[s].value
  /\ session' = [session EXCEPT ![s] = [session[s] EXCEPT
       !.value = Without(@, i), !.custom = @ \ {i}, !.changed = @ \ {i},
       !.touched = @ \ {i}, !.dirty = TRUE]]
  /\ UNCHANGED <<file, wanted, user>>

\* Mutant of Output: what was reset is not taken out.
Output_KeepsReset(r) ==
  LET mine == {Key(i, r.arch) : i \in r.changed \cap r.custom}
  IN  [k \in mine \cup DOMAIN r.source |-> IF k \in mine THEN r.value[k[1]] ELSE r.source[k]]

(* save(): what was read, with the changed items put in or taken out                    *)
Output(r) ==
  LET keys(set) == {Key(i, r.arch) : i \in set}
      mine == keys(r.changed \cap r.custom)
  IN  [k \in mine \cup (DOMAIN r.source \ keys(r.changed)) |->
         IF k \in mine THEN r.value[k[1]] ELSE r.source[k]]

\* Mutant of End: the file is overwritten in place.
End_InPlace(s) ==
  /\ session[s].phase = "on" /\ session[s].dirty
  /\ session' = [session EXCEPT ![s].phase = "written", ![s].temp = Output(session[s])]
  /\ file' = Truncated /\ UNCHANGED <<wanted, user>>

(* The session ends; the new copy is written if anything was changed.                   *)
End(s) ==
  /\ session[s].phase = "on"
  /\ \E out \in {Output(session[s])} \cup (IF Fails THEN {Truncated} ELSE {}) :
       session' = [session EXCEPT ![s] =
         IF session[s].dirty THEN [session[s] EXCEPT !.phase = "written", !.temp = out] ELSE Idle]
  /\ UNCHANGED <<file, wanted, user>>

(* OverwriteFile's destructor: the handle has been closed, with what success it is not  *)
(* known, and the new copy replaces the old.                                            *)
Replace(s) ==
  LET r == session[s]
  IN  /\ r.phase = "written"
      /\ file' = r.temp
      /\ wanted' = [a \in Archs |-> [i \in Items |->
           IF i \in r.touched /\ (i \notin ByArch \/ a = r.arch) THEN r.value[i] ELSE wanted[a][i]]]
      /\ session' = [session EXCEPT ![s] = Idle]
      /\ UNCHANGED user

(* A crash at any time, or a failing rename: the new copy is of no effect.              *)
Crash(s) ==
  /\ Active(s)
  /\ session' = [session EXCEPT ![s] = Idle]
  /\ UNCHANGED <<file, wanted, user>>

SettingsInit ==
  /\ user \in Users /\ file = user.file
  /\ session = [s \in Sessions |-> Idle]
  /\ wanted = [a \in Archs |-> [i \in Items |-> Value(file, a, i)]]

SettingsNext ==
  \E s \in Sessions :
    \/ \E a \in Archs : Start(s, a)
    \/ \E i \in Items : AddItem(s, i) \/ Reset(s, i) \/ Obliterate(s, i)
    \/ \E i \in Items, v \in Values : Set(s, i, v)
    \/ End(s) \/ Replace(s) \/ Crash(s)

SettingsSpec == SettingsInit /\ [][SettingsNext]_settingsVars

-----------------------------------------------------------------------------
(* The file is at all times what some session has written from beginning to end.        *)
Whole == file # Truncated

(* Every session finds each item as it was last saved, on each architecture: nobody's   *)
(* changes are lost, nor come back after they were reset; if sessions do not overlap.   *)
Persisted ==
  ~Overlap => \A a \in Archs, i \in Items : Value(Contents(file), a, i) = wanted[a][i]
=============================================================================
