------------------------------ MODULE Folding ------------------------------
(***************************************************************************)
(* Facts about the folds of the community modules.  An operator            *)
(* MapThenFoldSet, FoldSet or FoldLeft is applied to a recursive function  *)
(* iter on the subsets of a finite set; what is said here is about such    *)
(* functions, so that no operator is a parameter.  Induction over the      *)
(* subsets is a set of subsets, Q, that holds the empty one and with a     *)
(* subset every subset that has one element more.                          *)
(***************************************************************************)
EXTENDS Integers, Sequences, FiniteSets, FiniteSetTheorems, WellFoundedInduction, TLAPS

(* Taking an element out of a finite set.                                                *)
LEMMA OneLess ==
  ASSUME NEW S, IsFiniteSet(S), NEW x \in S
  PROVE  /\ Cardinality(S \ {x}) = Cardinality(S) - 1
         /\ Cardinality(S) \in Nat \ {0} /\ Cardinality(S \ {x}) \in Nat
<1>1. IsFiniteSet(S \ {x}) /\ Cardinality(S \ {x}) = Cardinality(S) - 1
  BY FS_RemoveElement
<1>2. Cardinality(S) \in Nat /\ Cardinality(S \ {x}) \in Nat
  BY <1>1, FS_CardinalityType
<1> QED BY <1>1, <1>2

(* Among subsets of a finite set there is a minimal one.                                 *)
LEMMA MinimalSubset ==
  ASSUME NEW S, IsFiniteSet(S), NEW T, T \subseteq SUBSET S, T # {}
  PROVE  \E s \in T : \A t \in T : t \subseteq s => t = s
<1>1. FiniteSubsetsOf(S) = SUBSET S
  BY FS_FiniteSubsetsOfFinite
<1>2. IsWellFoundedOn(StrictSubsetOrdering(S), FiniteSubsetsOf(S))
  BY FS_StrictSubsetOrderingWellFounded
<1>3. IsWellFoundedOn(StrictSubsetOrdering(S), SUBSET S)
  BY <1>1, <1>2
<1>4. \E s \in T : \A t \in T : ~(<<t, s>> \in StrictSubsetOrdering(S))
  BY <1>3, WFMin
<1> QED BY <1>4 DEF StrictSubsetOrdering

(* Induction over the subsets of a finite set: a set of subsets that holds {} and, with  *)
(* s \ {next[s]}, also s, holds every subset.                                            *)
LEMMA SubsetInduction ==
  ASSUME NEW S, IsFiniteSet(S), NEW next,
         \A s \in SUBSET S : s # {} => next[s] \in s,
         NEW Q, {} \in Q,
         \A s \in SUBSET S : s # {} /\ s \ {next[s]} \in Q => s \in Q
  PROVE  \A s \in SUBSET S : s \in Q
<1> DEFINE Bad == {s \in SUBSET S : s \notin Q}
<1> SUFFICES ASSUME Bad # {} PROVE FALSE
  OBVIOUS
<1>1. Bad \subseteq SUBSET S
  OBVIOUS
<1>2. PICK s \in Bad : \A t \in Bad : t \subseteq s => t = s
  <2> HIDE DEF Bad
  <2> QED BY <1>1, MinimalSubset
<1>3. s # {} /\ next[s] \in s /\ s \in SUBSET S
  OBVIOUS
<1>4. s \ {next[s]} \notin Bad
  BY <1>2, <1>3
<1> QED BY <1>3, <1>4

(* f is folded over the subsets of S: its value at s is obtained from one element of s   *)
(* and its value at the rest.                                                            *)
Folded(f, S, next, base, step) ==
  f = [s \in SUBSET S |-> IF s = {} THEN base ELSE step[<<next[s], f[s \ {next[s]}]>>]]

(* There is only one such function with values in the domain of the step.                *)
LEMMA FoldedOnce ==
  ASSUME NEW S, IsFiniteSet(S), NEW next,
         \A s \in SUBSET S : s # {} => next[s] \in s,
         NEW base, NEW step, NEW f, NEW g,
         Folded(f, S, next, base, step), Folded(g, S, next, base, step)
  PROVE  f = g
<1> DEFINE Q == {s \in SUBSET S : f[s] = g[s]}
<1>1. {} \in Q
  BY DEF Folded
<1>2. \A s \in SUBSET S : s # {} /\ s \ {next[s]} \in Q => s \in Q
  BY DEF Folded
<1>3. \A s \in SUBSET S : s \in Q
  <2> HIDE DEF Q
  <2> QED BY ONLY <1>1, <1>2, SubsetInduction, IsFiniteSet(S),
                  \A s \in SUBSET S : s # {} => next[s] \in s
<1>4. \A s \in SUBSET S : f[s] = g[s]
  BY <1>3
<1> QED BY ZenonT(30), <1>4 DEF Folded

(* Every step that stays within a set can be folded.                                     *)
LEMMA FoldedExists ==
  ASSUME NEW S, IsFiniteSet(S), NEW next,
         \A s \in SUBSET S : s # {} => next[s] \in s,
         NEW base, NEW step
  PROVE  \E f : Folded(f, S, next, base, step)
<1> DEFINE Bad == {s \in SUBSET S : ~\E f : Folded(f, s, next, base, step)}
<1> SUFFICES ASSUME Bad # {} PROVE FALSE
  OBVIOUS
<1>1. Bad \subseteq SUBSET S
  OBVIOUS
<1>2. PICK s \in Bad : \A t \in Bad : t \subseteq s => t = s
  <2> HIDE DEF Bad
  <2> QED BY <1>1, MinimalSubset
<1> DEFINE h(t) == CHOOSE f : Folded(f, t, next, base, step)
           F == [t \in SUBSET s |->
                   IF t = {} THEN base
                   ELSE step[<<next[t], IF t = s THEN h(s \ {next[s]})[s \ {next[s]}]
                                              ELSE h(t)[t \ {next[t]}]>>]]
<1>3. ASSUME NEW t \in SUBSET s, t # s
      PROVE  Folded(h(t), t, next, base, step)
  <2>1. t \notin Bad
    BY <1>2, <1>3
  <2>2. t \in SUBSET S
    OBVIOUS
  <2>3. \E f : Folded(f, t, next, base, step)
    BY <2>1, <2>2
  <2> QED BY <2>3
<1>4. ASSUME NEW t \in SUBSET s, t # s, NEW u \in SUBSET t
      PROVE  h(t)[u] = h(u)[u]
  <2> DEFINE r == [v \in SUBSET u |-> h(t)[v]]
  <2>1. Folded(h(t), t, next, base, step) /\ Folded(h(u), u, next, base, step)
    <3>1. u \in SUBSET s /\ u # s
      BY <1>4
    <3> HIDE DEF h
    <3> QED BY <1>3, <1>4, <3>1
  <2>2. \A v \in SUBSET u : v # {} => next[v] \in v /\ v \ {next[v]} \in SUBSET u /\ v \in SUBSET t
    OBVIOUS
  <2>3. Folded(r, u, next, base, step)
    <3>0. \A v \in SUBSET u : v \in SUBSET t
      OBVIOUS
    <3> HIDE DEF h
    <3>1. \A v \in SUBSET u : r[v] = IF v = {} THEN base ELSE step[<<next[v], h(t)[v \ {next[v]}]>>]
      BY <2>1, <3>0 DEF Folded
    <3>2. \A v \in SUBSET u : r[v] = IF v = {} THEN base ELSE step[<<next[v], r[v \ {next[v]}]>>]
      BY <3>1, <2>2
    <3>3. r = [v \in SUBSET u |-> r[v]]
      OBVIOUS
    <3> HIDE DEF r
    <3> QED BY <3>2, <3>3 DEF Folded
  <2>4. IsFiniteSet(u)
    <3>1. u \subseteq S
      OBVIOUS
    <3> QED BY <3>1, FS_Subset
  <2>5. \A v \in SUBSET u : v # {} => next[v] \in v
    BY <2>2
  <2>6. r = h(u)
    <3> HIDE DEF h, r
    <3> QED BY <2>1, <2>3, <2>4, <2>5, FoldedOnce
  <2>7. r[u] = h(t)[u]
    OBVIOUS
  <2> QED BY <2>6, <2>7
<1>5. ASSUME NEW t \in SUBSET s, t # {}
      PROVE  F[t] = step[<<next[t], F[t \ {next[t]}]>>]
  <2> DEFINE u == t \ {next[t]}
  <2>0. t \in SUBSET S /\ s \in SUBSET S
    BY <1>1
  <2>1. next[t] \in t
    BY <1>5, <2>0
  <2>2. u \in SUBSET s /\ u # s
    BY <2>1
  <2>3. F[u] = h(u)[u]
    <3>1. Folded(h(u), u, next, base, step)
      <4> HIDE DEF h, u
      <4> QED BY <1>3, <2>2
    <3>2. h(u)[u] = IF u = {} THEN base ELSE step[<<next[u], h(u)[u \ {next[u]}]>>]
      <4> HIDE DEF h
      <4> QED BY <3>1 DEF Folded
    <3> HIDE DEF h
    <3> QED BY <3>2, <2>2
  <2>4. F[t] = step[<<next[t], IF t = s THEN h(u)[u] ELSE h(t)[u]>>]
    <3>1. CASE t = s
      BY <1>5, <3>1
    <3>2. CASE t # s
      BY <1>5, <3>2
    <3> QED BY <3>1, <3>2
  <2>5. t # s => h(t)[u] = h(u)[u]
    <3>1. u \in SUBSET t
      OBVIOUS
    <3> HIDE DEF h, u
    <3> QED BY <3>1, <1>4
  <2> HIDE DEF h, u, F
  <2>6. F[t] = step[<<next[t], F[u]>>]
    BY <2>3, <2>4, <2>5
  <2> QED BY <2>6 DEF u
<1>6. F[{}] = base
  OBVIOUS
<1>7. Folded(F, s, next, base, step)
  <2>1. F = [t \in SUBSET s |-> F[t]]
    OBVIOUS
  <2> HIDE DEF F
  <2> QED BY <1>5, <1>6, <2>1 DEF Folded
<1>8. s \notin Bad
  <2> HIDE DEF F
  <2> QED BY <1>7
<1> QED BY <1>8

(* The same with the values that occur.                                                  *)
LEMMA FoldedWithin ==
  ASSUME NEW S, IsFiniteSet(S), NEW next,
         \A s \in SUBSET S : s # {} => next[s] \in s,
         NEW D, NEW base \in D, NEW step \in [S \X D -> D]
  PROVE  \E f : Folded(f, S, next, base, step) /\ \A s \in SUBSET S : f[s] \in D
<1>1. PICK f : Folded(f, S, next, base, step)
  BY FoldedExists
<1> DEFINE Q == {s \in SUBSET S : f[s] \in D}
<1>2. {} \in Q
  BY <1>1 DEF Folded
<1>3. \A s \in SUBSET S : s # {} /\ s \ {next[s]} \in Q => s \in Q
  <2> SUFFICES ASSUME NEW s \in SUBSET S, s # {}, f[s \ {next[s]}] \in D PROVE f[s] \in D
    OBVIOUS
  <2>1. next[s] \in S /\ s \ {next[s]} \in SUBSET S
    OBVIOUS
  <2>2. f[s] = step[<<next[s], f[s \ {next[s]}]>>]
    BY <1>1 DEF Folded
  <2>3. <<next[s], f[s \ {next[s]}]>> \in S \X D
    BY <2>1
  <2> QED BY <2>2, <2>3
<1>4. \A s \in SUBSET S : s \in Q
  <2> HIDE DEF Q
  <2> QED BY ONLY SMTT(30), <1>2, <1>3, SubsetInduction, IsFiniteSet(S),
                  \A s \in SUBSET S : s # {} => next[s] \in s
<1> QED BY <1>1, <1>4
\* Good holds the base, paired with the set folded so far, and every step stays in it.
Invariant(S, next, base, step, Good) ==
  /\ \A s \in SUBSET S : s # {} => next[s] \in s
  /\ <<{}, base>> \in Good
  /\ \A s \in SUBSET S : \A v : s # {} /\ <<s \ {next[s]}, v>> \in Good => <<s, step[<<next[s], v>>]>> \in Good

(* What every step keeps true of the set folded so far and its value.                    *)
LEMMA FoldedGood ==
  ASSUME NEW S, IsFiniteSet(S), NEW next, NEW base, NEW step, NEW Good, Invariant(S, next, base, step, Good)
  PROVE  \E f : Folded(f, S, next, base, step) /\ \A s \in SUBSET S : <<s, f[s]>> \in Good
<1>0. \A s \in SUBSET S : s # {} => next[s] \in s
  BY DEF Invariant
<1>1. PICK f : Folded(f, S, next, base, step)
  BY <1>0, FoldedExists
<1> DEFINE Q == {s \in SUBSET S : <<s, f[s]>> \in Good}
<1>2. {} \in Q
  BY <1>1 DEF Folded, Invariant
<1>3. \A s \in SUBSET S : s # {} /\ s \ {next[s]} \in Q => s \in Q
  <2> SUFFICES ASSUME NEW s \in SUBSET S, s # {}, <<s \ {next[s]}, f[s \ {next[s]}]>> \in Good
               PROVE  <<s, f[s]>> \in Good
    OBVIOUS
  <2>1. f[s] = step[<<next[s], f[s \ {next[s]}]>>]
    BY <1>1 DEF Folded
  <2> QED BY <2>1 DEF Invariant
<1>4. \A s \in SUBSET S : s \in Q
  <2> HIDE DEF Q
  <2> QED BY ONLY <1>2, <1>3, SubsetInduction, IsFiniteSet(S), <1>0
<1> QED BY <1>1, <1>4

\* What has to be shown for an induction over the subsets of S.
Inductive(S, next, Q) ==
  /\ \A s \in SUBSET S : s # {} => next[s] \in s
  /\ {} \in Q
  /\ \A s \in SUBSET S : s # {} /\ s \ {next[s]} \in Q => s \in Q

(* The induction in the form in which it is applied to long definitions.                 *)
LEMMA SubsetInductive ==
  ASSUME NEW S, IsFiniteSet(S), NEW next, NEW Q, Inductive(S, next, Q)
  PROVE  S \in Q
<1>1. \A s \in SUBSET S : s # {} => next[s] \in s
  BY DEF Inductive
<1>2. {} \in Q /\ \A s \in SUBSET S : s # {} /\ s \ {next[s]} \in Q => s \in Q
  BY DEF Inductive
<1>3. \A s \in SUBSET S : s \in Q
  BY ONLY IsFiniteSet(S), <1>1, <1>2, SubsetInduction
<1> QED BY <1>3

(* A set of positions has a greatest one.                                                *)
LEMMA GreatestIn ==
  ASSUME NEW n \in Nat, NEW s \in SUBSET (1..n), s # {}
  PROVE  (CHOOSE x \in s : \A y \in s : x >= y) \in s
<1> DEFINE S == 1..n
           T == {x..n : x \in s}
<1>1. T \subseteq SUBSET S /\ T # {}
  <2>1. \A x \in s : x..n \in SUBSET S
    OBVIOUS
  <2> QED BY <2>1
<1>2. IsFiniteSet(S)
  BY FS_Interval
<1>3. PICK t \in T : \A u \in T : u \subseteq t => u = t
  <2> HIDE DEF T, S
  <2> QED BY <1>1, <1>2, MinimalSubset
<1>4. PICK x \in s : t = x..n
  OBVIOUS
<1>5. \A y \in s : x >= y
  <2> SUFFICES ASSUME NEW y \in s, ~(x >= y) PROVE FALSE
    OBVIOUS
  <2>1. x \in Nat /\ y \in Nat /\ x < y /\ x <= n
    OBVIOUS
  <2>2. y..n \in T /\ y..n \subseteq t /\ x \in t /\ x \notin y..n
    BY <1>4, <2>1
  <2> QED BY <1>3, <2>2
<1>6. \E z \in s : \A y \in s : z >= y
  BY <1>5
<1> QED BY <1>6
=============================================================================
