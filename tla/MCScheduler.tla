---------------------------- MODULE MCScheduler ----------------------------
(* Rule bases for checking Scheduler with TLC. *)
EXTENDS Scheduler

CONSTANTS A, B, C, D, T,           \* properties, T is requested
          r1, r2, r3, r4, r5, r6,  \* production rules
          q1, q2                   \* preconditions

Unused == <<{}>>   \* the input of a rule that does not exist

\* A problem given by the rules it has; the request is T.
Base(h, shared, input, output, pre, weight) ==
  [have |-> h, shared |-> shared,
   input |-> [r \in Rule \cup {Final} |-> IF r = Final THEN <<{T}>>
                                          ELSE IF r \in DOMAIN input THEN input[r] ELSE Unused],
   output |-> [r \in Production |-> IF r \in DOMAIN output THEN output[r] ELSE {}],
   pre |-> [r \in Production |-> IF r \in DOMAIN pre THEN pre[r] ELSE <<>>],
   weight |-> [r \in Production |-> IF r \in DOMAIN weight THEN weight[r] ELSE 10]]

\* Two ways to T, sharing a first step; each rule may fail.
Alternatives(w2, w4, w5) ==
  Base({C}, {}, r1 :> <<{C}>> @@ r2 :> <<{A}>> @@ r3 :> <<{B}>> @@ r4 :> <<{C}>> @@ r5 :> <<{A}, {B}>>,
       r1 :> {A} @@ r2 :> {T} @@ r3 :> {T} @@ r4 :> {B} @@ r5 :> {T}, <<>>,
       r2 :> w2 @@ r3 :> 20 @@ r4 :> w4 @@ r5 :> w5)

\* A rule that creates two properties competes with rules that create one each; r6 and r5
\* depend on each other.
Bundles(w1, w2, w4) ==
  Base({}, {}, r1 :> <<>> @@ r2 :> <<>> @@ r3 :> <<>> @@ r4 :> <<{A}, {B}>> @@ r5 :> <<{A, C}>> @@ r6 :> <<{B}>>,
       r1 :> {A, B} @@ r2 :> {A} @@ r3 :> {B} @@ r4 :> {T} @@ r5 :> {B, T} @@ r6 :> {C}, <<>>,
       r1 :> w1 @@ r2 :> w2 @@ r4 :> w4 @@ r5 :> 30)

\* Preconditions that depend on other rules, one of them with a precondition of its own; r5
\* keeps the request feasible when they fail.
Preconditions(w1, w2, w4) ==
  Base({C}, {}, r1 :> <<{C}>> @@ r2 :> <<{C}>> @@ r3 :> <<{C}>> @@ r4 :> <<{A}>> @@ r5 :> <<{C}>>
                @@ q1 :> <<{A}>> @@ q2 :> <<{B}>>,
       r1 :> {A} @@ r2 :> {B} @@ r3 :> {T} @@ r4 :> {B, T} @@ r5 :> {T},
       r3 :> <<q1>> @@ r4 :> <<q2>>,
       r1 :> w1 @@ r2 :> w2 @@ r3 :> 20 @@ r4 :> w4 @@ r5 :> 300)

\* A precondition too expensive to be checked in advance, for the common part of two chains.
CommonPart(w2) ==
  Base({}, {}, r1 :> <<>> @@ r2 :> <<>> @@ r3 :> <<{B}>> @@ r4 :> <<{B}, {A}>> @@ r5 :> <<>> @@ q1 :> <<{A}>>,
       r1 :> {B} @@ r2 :> {A} @@ r3 :> {T} @@ r4 :> {T} @@ r5 :> {T}, r1 :> <<q1>>, r2 :> w2 @@ r5 :> 300)

\* Preconditions of object specializations, shared by several rules: q1 can be evaluated at
\* once, q2 never.  r6 is dismissed because of q2 but is of no use anyway, as r2 needs a
\* property nothing creates.
Specializations ==
  Base({C}, {q1, q2}, r1 :> <<{C}>> @@ r2 :> <<{B}, {D}>> @@ r3 :> <<{A}>> @@ r4 :> <<>> @@ r5 :> <<{A}>> @@ r6 :> <<>>
                      @@ q1 :> <<{C}>> @@ q2 :> <<{D}>>,
       r1 :> {A} @@ r2 :> {T} @@ r3 :> {T} @@ r4 :> {T} @@ r5 :> {T} @@ r6 :> {B},
       r1 :> <<q1>> @@ r3 :> <<q1>> @@ r4 :> <<q2>> @@ r6 :> <<q2>>, <<>>)

CoreProblem ==
  {Specializations} \cup {CommonPart(w) : w \in {1, 10, 100}}
    \cup {Alternatives(w2, w4, w5) : w2 \in {1, 10, 20, 40}, w4 \in {0, 1, 15, 100}, w5 \in {0, 5, 30, 200}}
    \cup {Bundles(w1, w2, w4) : w1 \in {1, 10, 15, 25}, w2 \in {1, 10, 30}, w4 \in {5, 20}}
    \cup {Preconditions(w1, w2, w4) : w1 \in {1, 10, 100}, w2 \in {10, 100}, w4 \in {1, 10}}

\* A request that cannot be fulfilled when the precondition fails or a rule its input depends
\* on does.
OnlyWay ==
  Base({}, {}, r1 :> <<>> @@ r2 :> <<{A}>> @@ q1 :> <<{A}>>, r1 :> {A} @@ r2 :> {T}, r2 :> <<q1>>, <<>>)

\* Two rules of a specialization whose precondition q1 depends on a property that is not
\* there and that nothing creates.
Dismissed ==
  Base({}, {q1}, r1 :> <<{A}>> @@ r2 :> <<{A}>> @@ q1 :> <<{B}>> @@ r3 :> <<>>,
       r1 :> {T} @@ r2 :> {T} @@ r3 :> {A}, r1 :> <<q1>> @@ r2 :> <<q1>>, <<>>)

\* Nothing creates T, or only rules that depend on each other.
Orphan == Base({}, {}, <<>>, <<>>, <<>>, <<>>)
Cycle(w) ==
  Base({}, {}, r1 :> <<>> @@ r2 :> <<{A}, {B}>> @@ r3 :> <<{B}, {D}>> @@ r4 :> <<{C}>>,
       r1 :> {A} @@ r2 :> {C, T} @@ r3 :> {C} @@ r4 :> {B, D}, <<>>, r1 :> w)

\* The same after r1 and r2 have been tried.
DeadEnd ==
  Base({}, {}, r1 :> <<>> @@ r2 :> <<{A}>> @@ r3 :> <<{A}, {B}>> @@ r4 :> <<{C}>> @@ r5 :> <<{B}>>,
       r1 :> {A} @@ r2 :> {T} @@ r3 :> {T} @@ r4 :> {B} @@ r5 :> {C}, <<>>, <<>>)

\* The trivial rule r3 is too late: r2 has the same effect as r1 and r3, for the same weight.
Late ==
  Base({}, {}, r1 :> <<>> @@ r2 :> <<>> @@ r3 :> <<{B}>> @@ r4 :> <<{A}>>,
       r1 :> {B} @@ r2 :> {A, B} @@ r3 :> {A} @@ r4 :> {T}, <<>>, r1 :> 5 @@ r2 :> 6 @@ r3 :> 1)

Nothing == Base({T}, {}, <<>>, <<>>, <<>>, <<>>)

AllProblem == CoreProblem \cup {Orphan, Late, Nothing, DeadEnd} \cup {Cycle(w) : w \in {1, 10}}
StrayProblem == {OnlyWay}
DismissedProblem == {Dismissed}
=============================================================================
