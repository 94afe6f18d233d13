------------------------------- MODULE AtEnd -------------------------------
(* Actions to be run when the session ends (package AtEnd in Scope.pm).  An action is   *)
(* registered under a name, with the names it is to come before and after; these may be *)
(* unknown yet, or never be registered at all.  The END block goes over the actions in  *)
(* the order their names were first mentioned until nothing is delayed any more.        *)
EXTENDS Naturals, Sequences, FiniteSets, SequencesExt

CONSTANT Names

VARIABLES
  names,           \* in the order first mentioned: the index is the id
  action,          \* names with an action waiting to be run
  before, after,   \* name => names, as far as still to be observed
  adding, todo,    \* add() in progress: the name, and the names it is still to be related to
  phase,           \* "session", "passing", "ended" or "deadlock"
  position,        \* loop position: the next id
  delayed,         \* an action was delayed in this pass
  succeeded,       \* an action was run in this pass
  due,             \* history: the actions registered when the session ended
  prior            \* history: name => those it has to come after by then

loop    == <<position, delayed, succeeded>>
history == <<due, prior>>
request == <<adding, todo>>

atEndVars == <<names, action, before, after, request, phase, loop, history>>

Known(ns, n) == IF n \in ToSet(ns) THEN ns ELSE Append(ns, n)

Nothing == [before |-> <<>>, after |-> <<>>]

(* add(): an action under a name that has none                                          *)
Add(n, bs, as) ==
  /\ phase = "session" /\ todo = Nothing /\ n \notin action
  /\ action' = action \cup {n} /\ names' = Known(names, n)
  /\ adding' = n /\ todo' = [before |-> bs, after |-> as]
  /\ UNCHANGED <<before, after, phase, loop, history>>

(* One relation.  Its opposite being known already makes add() croak: what was          *)
(* registered up to that point stays.                                                   *)
Relate(x, y, opposite, rest) ==
  IF opposite
    THEN todo' = Nothing /\ UNCHANGED <<before, after>>
    ELSE /\ before' = [before EXCEPT ![x] = @ \cup {y}]
         /\ after' = [after EXCEPT ![y] = @ \cup {x}]
         /\ todo' = rest

AddBefore ==
  LET b == Head(todo.before)
  IN  /\ phase = "session" /\ todo.before # <<>>
      /\ names' = Known(names, b)
      /\ Relate(adding, b, b \in after[adding], [todo EXCEPT !.before = Tail(@)])
      /\ UNCHANGED <<adding, action, phase, loop, history>>

AddAfter ==
  LET a == Head(todo.after)
  IN  /\ phase = "session" /\ todo.before = <<>> /\ todo.after # <<>>
      /\ names' = Known(names, a)
      /\ Relate(a, adding, a \in before[adding], [todo EXCEPT !.after = Tail(@)])
      /\ UNCHANGED <<adding, action, phase, loop, history>>

Forget(n) ==
  /\ phase = "session" /\ todo = Nothing /\ n \in action
  /\ action' = action \ {n}
  /\ UNCHANGED <<names, before, after, request, phase, loop, history>>

(* The END block starts: relations to names without an action are dropped.              *)
\* Mutants of Dropped: nothing is dropped, or the relations to the registered actions are.
Dropped_None(x) == after[x]
Dropped_Registered(x) == {y \in after[x] : y \notin action \/ x \notin before[y]}

Dropped(x) == {y \in after[x] : y \in action \/ x \notin before[y]}

Pass(p) == phase' = p /\ position' = 1 /\ delayed' = FALSE /\ succeeded' = FALSE

EndSession ==
  /\ phase = "session" /\ todo = Nothing
  /\ Pass("passing")
  /\ after' = [x \in Names |-> Dropped(x)]
  /\ due' = action /\ prior' = after
  /\ UNCHANGED <<names, action, before, request>>

(* An action is run; it does not matter whether it fails.                               *)
Run(n) ==
  /\ phase = "passing" /\ position <= Len(names) /\ n = names[position]
  /\ n \in action /\ after[n] = {}
  /\ action' = action \ {n}
  /\ after' = [x \in Names |-> IF x \in before[n] THEN after[x] \ {n} ELSE after[x]]
  /\ succeeded' = TRUE /\ position' = position + 1
  /\ UNCHANGED <<names, before, request, phase, delayed, history>>

Delay(n) ==
  /\ phase = "passing" /\ position <= Len(names) /\ n = names[position]
  /\ n \in action /\ after[n] # {}
  /\ delayed' = TRUE /\ position' = position + 1
  /\ UNCHANGED <<names, action, before, after, request, phase, succeeded, history>>

Skip(n) ==
  /\ phase = "passing" /\ position <= Len(names) /\ n = names[position]
  /\ n \notin action
  /\ position' = position + 1
  /\ UNCHANGED <<names, action, before, after, request, phase, delayed, succeeded, history>>

\* Mutant of EndPass: no check whether anything was run.
EndPass_Again ==
  /\ phase = "passing" /\ position > Len(names)
  /\ Pass(IF delayed THEN "passing" ELSE "ended")
  /\ UNCHANGED <<names, action, before, after, request, history>>

EndPass ==
  /\ phase = "passing" /\ position > Len(names)
  /\ Pass(IF ~delayed THEN "ended" ELSE IF succeeded THEN "passing" ELSE "deadlock")
  /\ UNCHANGED <<names, action, before, after, request, history>>

AtEndDone == phase \in {"ended", "deadlock"} /\ UNCHANGED atEndVars

AtEndInit ==
  /\ names = <<>> /\ action = {} /\ phase = "session"
  /\ before = [n \in Names |-> {}] /\ after = [n \in Names |-> {}]
  /\ adding \in Names /\ todo = Nothing
  /\ position = 1 /\ delayed = FALSE /\ succeeded = FALSE
  /\ due = {} /\ prior = [n \in Names |-> {}]

(* The bound on the relations given at once: two on each side                           *)
Lists(n) == {<<>>} \cup {<<x>> : x \in Names \ {n}} \cup {<<x, y>> : x, y \in Names \ {n}}

Visit == \E n \in Names : Run(n) \/ Delay(n) \/ Skip(n)

AtEndNext ==
  \/ \E n \in Names : \E bs, as \in Lists(n) : Add(n, bs, as)
  \/ AddBefore \/ AddAfter
  \/ \E n \in Names : Forget(n)
  \/ EndSession \/ Visit \/ EndPass \/ AtEndDone

AtEndSpec == AtEndInit /\ [][AtEndNext]_atEndVars

(* The END block runs to its end: the interpreter does not leave it, and signals are    *)
(* blocked.  When the session ends, and what is registered before, is up to its code.   *)
AtEndFairSpec == AtEndSpec /\ WF_atEndVars(Visit \/ EndPass)

-----------------------------------------------------------------------------
AtEndTypeOK ==
  /\ names \in Seq(Names) /\ action \subseteq ToSet(names) /\ due \subseteq Names
  /\ adding \in Names /\ todo \in [before : Seq(Names), after : Seq(Names)]
  /\ before \in [Names -> SUBSET Names] /\ after \in [Names -> SUBSET Names]
  /\ prior \in [Names -> SUBSET Names]
  /\ phase \in {"session", "passing", "ended", "deadlock"}
  /\ position \in 1..Len(names) + 1 /\ delayed \in BOOLEAN /\ succeeded \in BOOLEAN

(* Whatever an action was to come after, by either side's declaration, has been run     *)
(* before it, in whatever order the names were mentioned (Settings are written after    *)
(* Preference has updated them).                                                        *)
OrderObserved ==
  phase # "session" =>
    \A n \in due \ action : \A a \in prior[n] \cap due : a \notin action

(* An action is given up only if it is caught in a circle: each one left waits for      *)
(* another one left.  Otherwise all are run.                                            *)
GivenUpOnlyInCircles ==
  /\ phase = "ended" => action = {}
  /\ phase = "deadlock" => action # {} /\ \A n \in action : prior[n] \cap action # {}

(* The session does end.                                                                *)
EndComes == (phase = "passing") ~> (phase \in {"ended", "deadlock"})
=============================================================================
