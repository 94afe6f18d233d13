----------------------------- MODULE Scheduler -----------------------------
(***************************************************************************)
(* Computing a property of an object: perllib/Polymake/Core/Scheduler.pm   *)
(* with the heap of lib/core/src/perl/SchedulerHeap.xxs.                   *)
(*                                                                         *)
(* A request is resolved in three stages.  The rules that may contribute   *)
(* are gathered in a rule graph.  The cheapest chain of rules leading to   *)
(* the request is composed by a best-first search over partial chains.     *)
(* The chain is executed; when a rule fails it is eliminated, the rules    *)
(* that succeeded are replayed, and the search starts again.               *)
(*                                                                         *)
(* Every action is one step of the Perl code up to the next execution of   *)
(* a rule or the next turn of a loop; whether a rule fails is open.        *)
(***************************************************************************)
EXTENDS RuleGraph, SequencesExt

CONSTANTS Problem,    \* the rule bases, objects and requests considered, see ProblemAssumption
          Expensive   \* the weight of a rule whose major part is at least $std_weight->[0]

(***************************************************************************)
(* A problem p: p.have the properties the object has; p.input[r] the       *)
(* inputs of a rule, each a set of alternatives, with no property in two   *)
(* of them; p.output[r] what it creates; p.pre[r] its preconditions;       *)
(* p.weight[r] its weight, major and minor part in one number.  No rule    *)
(* lists a precondition twice, and only those in p.shared, the ones of     *)
(* object specializations, belong to several rules.                        *)
(***************************************************************************)
ASSUME ProblemAssumption == \A p \in Problem :
  /\ p.have \subseteq Property /\ p.shared \subseteq Precondition
  /\ p.input \in [Rule \cup {Final} -> Seq(SUBSET Property)]
  /\ p.output \in [Production -> SUBSET Property]
  /\ p.pre \in [Production -> Seq(Precondition)]
  /\ p.weight \in [Production -> Nat]
  /\ \A r \in Rule : \A j, k \in DOMAIN p.input[r] : j # k => p.input[r][j] \cap p.input[r][k] = {}
  /\ \A r \in Production : IsInjective(p.pre[r])
  /\ \A r, s \in Production : r # s => ToSet(p.pre[r]) \cap ToSet(p.pre[s]) \subseteq p.shared

VARIABLES problem,    \* the problem to be solved
          have,       \* the properties of the object
          run,        \* run[r]: result of a rule, "none" before it was run or dismissed
          phase,      \* what the scheduler is about to do
          graph,      \* nodes and arcs gathered
          todo,       \* a list of rules: to be gathered, executed or replayed
          cur,        \* the rule being gathered, and its preconditions still to be looked at
          checks,     \* preconditions to be evaluated out of order
          failed,     \* rules to be eliminated
          worked,     \* rules executed successfully since the last replay
          self,       \* the initial chain: what holds for every chain
          top,        \* the chain being extended or executed
          heap,       \* the agents of all chains with a known set of new properties
          filter,     \* properties that do not count as new
          tries,      \* number of failed chains
          result      \* of resolve()

vars == <<problem, have, run, phase, graph, todo, cur, checks, failed, worked,
          self, top, heap, filter, tries, result>>

Input(r) == problem.input[r]
Output(r) == problem.output[r]
Pre(r) == problem.pre[r]
Weight(r) == problem.weight[r]
SumWeight(rules) == MapThenSumSet(LAMBDA r : Weight(r), rules)

\* A chain: a state of the graph, the rules scheduled, and what its heap agent says of the
\* weight and the new properties.
NoChain == [g |-> InitState({}, <<>>), rules |-> <<>>, weight |-> 0, verts |-> {}]

Init ==
  /\ problem \in Problem
  /\ have = problem.have
  /\ run = [r \in Rule |-> "none"]
  /\ phase = "gather"
  /\ graph = [nodes |-> {Final}, arc |-> <<>>]
  /\ todo = <<Final>>
  /\ cur = [rule |-> Final, pre |-> <<>>]
  /\ checks = {} /\ failed = {} /\ worked = <<>>
  /\ self = NoChain /\ top = NoChain
  /\ heap = {} /\ filter = {}
  /\ tries = 0 /\ result = "none"

Answer(res) ==
  /\ phase' = "done"
  /\ result' = res

\* Without a chain the result is minus the number of attempts.
GiveUp == Answer(IF tries' = 0 THEN "nothing" ELSE "failed")

\* A rule commits all its outputs, or is rolled back.
Run(r, ok) ==
  /\ run' = [run EXCEPT ![r] = IF ok THEN "OK" ELSE "failed"]
  /\ have' = IF ok /\ r \in Production THEN have \cup Output(r) ELSE have

-----------------------------------------------------------------------------
(* gather_more_rules *)

\* producers_of_property: the list is fixed when the property is first asked for.
Producers(p) ==
  IF p \in graph.nodes
    THEN {r \in Production : <<r, p>> \in DOMAIN graph.arc}
    ELSE {r \in Production : p \in Output(r) /\ run[r] \notin {"failed", "infeasible"}}

Missing(r) == {k \in DOMAIN Input(r) : Input(r)[k] \cap have = {}}
Unsuppliable(r) == {k \in Missing(r) : \A p \in Input(r)[k] : Producers(p) = {}}

\* Arcs added to the graph, or given a new state.
Joined(new, arcs) == [a \in DOMAIN new \cup DOMAIN arcs |-> IF a \in DOMAIN new THEN new[a] ELSE arcs[a]]

\* rule_status: the graph with the missing inputs of r and their producers; the first input
\* that nothing can supply ends the analysis.
WithInputs(r, nodes) ==
  LET examined == {k \in Missing(r) : \A j \in Unsuppliable(r) : k <= j}
      wanted == {p \in UNION {Input(r)[k] : k \in examined} : Producers(p) # {}}
      last(p) == Max({k \in examined : p \in Input(r)[k]})
  IN  [nodes |-> graph.nodes \cup nodes \cup wanted \cup UNION {Producers(p) : p \in wanted},
       arc |-> Joined([a \in {<<p, r>> : p \in wanted} |-> Source + last(a[1]) - 1],
                      Joined([a \in UNION {{<<s, p>> : s \in Producers(p)} : p \in wanted} |-> Source],
                             graph.arc))]

Considered(g) == SetToSeq((g.nodes \cap Production) \ graph.nodes)

GatherRule ==
  /\ phase = "gather" /\ todo # <<>>
  /\ cur' = [rule |-> Head(todo), pre |-> IF Head(todo) = Final THEN <<>> ELSE Pre(Head(todo))]
  /\ todo' = Tail(todo)
  /\ phase' = "consider"
  /\ UNCHANGED <<problem, have, run, graph, checks, failed, worked, self, top, heap, filter, tries, result>>

\* Next precondition of the current rule.
NextPre == cur' = [cur EXCEPT !.pre = Tail(@)]

ConsiderPre(q) ==
  /\ phase = "consider" /\ cur.pre # <<>> /\ q = Head(cur.pre)
  /\ UNCHANGED <<problem, checks, worked, self, top, heap, filter, tries, result>>

\* The precondition is known to be infeasible: the rule is only recorded.
DismissRule(q) ==
  /\ ConsiderPre(q)
  /\ run[q] = "infeasible"
  /\ run' = [run EXCEPT ![cur.rule] = "infeasible"]
  /\ phase' = "gather"
  /\ UNCHANGED <<have, graph, todo, cur, failed>>

SkipSatisfied(q) ==
  /\ ConsiderPre(q)
  /\ run[q] = "OK"
  /\ NextPre
  /\ UNCHANGED <<have, run, phase, graph, todo, failed>>

\* Mutant of RejectPre: the rule stays in the graph.
RejectPre_KeepsRule(q) ==
  /\ ConsiderPre(q)
  /\ run[q] \notin {"infeasible", "OK"} /\ q \notin graph.nodes /\ Unsuppliable(q) # {}
  /\ graph' = WithInputs(q, {q})
  /\ todo' = todo \o Considered(graph')
  /\ failed' = failed \cup {q}
  /\ run' = [run EXCEPT ![cur.rule] = "infeasible", ![q] = "infeasible"]
  /\ phase' = "gather"
  /\ UNCHANGED <<have, cur>>

\* The precondition needs properties nothing can supply.
RejectPre(q) ==
  /\ ConsiderPre(q)
  /\ run[q] \notin {"infeasible", "OK"} /\ q \notin graph.nodes /\ Unsuppliable(q) # {}
  /\ graph' = WithInputs(q, {q})
  /\ todo' = todo \o Considered(graph')
  /\ failed' = failed \cup {cur.rule, q}
  /\ run' = [run EXCEPT ![cur.rule] = "infeasible", ![q] = "infeasible"]
  /\ phase' = "gather"
  /\ UNCHANGED <<have, cur>>

\* All inputs of the precondition exist: it is evaluated at once and leaves the graph.  One
\* that has failed for another rule is evaluated again, with the same result.
EvaluatePre(q) ==
  /\ ConsiderPre(q)
  /\ run[q] \notin {"infeasible", "OK"} /\ q \notin graph.nodes /\ Missing(q) = {}
  /\ \/ run[q] = "none" /\ Run(q, TRUE) /\ NextPre /\ UNCHANGED <<phase, failed>>
     \/ /\ run' = [run EXCEPT ![q] = "failed", ![cur.rule] = "infeasible"]
        /\ failed' = failed \cup {cur.rule}
        /\ phase' = "gather"
        /\ UNCHANGED <<have, cur>>
  /\ UNCHANGED <<graph, todo>>

\* Mutant of PostponePre: the precondition does not become a supplier of its rule.
PostponePre_NoArc(q) ==
  /\ ConsiderPre(q)
  /\ run[q] \notin {"infeasible", "OK"}
  /\ q \in graph.nodes \/ (Missing(q) # {} /\ Unsuppliable(q) = {})
  /\ graph' = IF q \in graph.nodes THEN graph ELSE WithInputs(q, {q})
  /\ todo' = todo \o Considered(graph')
  /\ NextPre
  /\ UNCHANGED <<have, run, phase, failed>>

\* The precondition becomes a supplier of its rule.
PostponePre(q) ==
  /\ ConsiderPre(q)
  /\ run[q] \notin {"infeasible", "OK"}
  /\ q \in graph.nodes \/ (Missing(q) # {} /\ Unsuppliable(q) = {})
  /\ LET g == IF q \in graph.nodes THEN graph ELSE WithInputs(q, {q})
     IN  /\ graph' = [g EXCEPT !.arc = Joined(@, [a \in {<<q, cur.rule>>} |-> Unique])]
         /\ todo' = todo \o Considered(g)
  /\ NextPre
  /\ UNCHANGED <<have, run, phase, failed>>

ConsiderInputs ==
  /\ phase = "consider" /\ cur.pre = <<>>
  /\ UNCHANGED <<problem, have, cur, checks, worked, self, top, heap, filter, tries>>
  /\ graph' = WithInputs(cur.rule, {})
  /\ todo' = todo \o Considered(graph')
  /\ IF Unsuppliable(cur.rule) = {}
       THEN phase' = "gather" /\ UNCHANGED <<run, failed, result>>
       ELSE \/ cur.rule = Final /\ Answer("nothing") /\ UNCHANGED <<run, failed>>
            \/ /\ cur.rule # Final
               /\ run' = [run EXCEPT ![cur.rule] = "infeasible"]
               /\ failed' = failed \cup {cur.rule}
               /\ phase' = "gather" /\ UNCHANGED result

\* finalize_gather and the beginning of resolve.  There is no ready list yet during the
\* elimination, and nothing is complete.
FinalizeGather ==
  /\ phase = "gather" /\ todo = <<>>
  /\ LET bare == [InitState(graph.nodes, graph.arc) EXCEPT !.flagged = {}, !.ready = {}]
         done == IF failed = {} THEN Work(bare, {}) ELSE EliminateRules(bare, failed, Optional)
         g == InitState(done.g.alive, done.g.arc)
     IN  /\ self' = [NoChain EXCEPT !.g = g]
         /\ top' = self'
         /\ \/ ~done.ok /\ Answer("nothing")
            \/ done.ok /\ IsComplete(g) /\ Answer("OK")
            \/ done.ok /\ ~IsComplete(g) /\ g.ready = {} /\ Answer("nothing")
            \/ done.ok /\ ~IsComplete(g) /\ g.ready # {} /\ phase' = "build" /\ UNCHANGED result
  /\ failed' = {}
  /\ UNCHANGED <<problem, have, run, graph, todo, cur, checks, worked, heap, filter, tries>>

-----------------------------------------------------------------------------
(* The heap.  Its agents stay known after their chains have been popped or    *)
(* dropped in favour of others, as long as no better chain has been pushed.   *)

Agent(chain) == [weight |-> chain.weight, verts |-> chain.verts, chain |-> chain, queued |-> TRUE]

\* The tentative agent for chain c with rule r added; only properties that were asked for while
\* gathering count.
NewVerts(r) == (Output(r) \cap graph.nodes) \ filter
TentativeWeight(c, r) == c.weight + Weight(r)
TentativeVerts(c, r) == c.verts \cup NewVerts(r)

\* is_promising
Promising(c, r) ==
  /\ TentativeVerts(c, r) # c.verts
  /\ ~\E a \in heap : TentativeVerts(c, r) \subseteq a.verts /\ a.weight <= TentativeWeight(c, r)

\* Mutant of Pushed: agents with no more properties are dropped whatever their weight.
Pushed_IgnoresWeight(chain, ancestor) ==
  {a \in heap : ~(a.verts \subseteq chain.verts) \/ a.verts = ancestor.verts} \cup {Agent(chain)}

\* push: agents with no more properties and no less weight are dropped, except that of the
\* chain the new one was derived from.
Pushed(chain, ancestor) ==
  {a \in heap : ~(a.verts \subseteq chain.verts /\ a.weight >= chain.weight) \/ a.verts = ancestor.verts}
    \cup {Agent(chain)}

-----------------------------------------------------------------------------
(* build_cheapest_chain *)

ReadyPre == top.g.ready \cap Precondition
\* grep: the rules of a list that are in S.
Only(rules, S) == FoldLeft(LAMBDA list, r : IF r \in S THEN Append(list, r) ELSE list, <<>>, rules)

\* Mutant of Pending: preconditions found to be satisfied are checked again.
Pending_All == ReadyPre

Pending == {q \in ReadyPre : run[q] = "none"}

\* Preconditions that have failed do not belong in a ready list: the code dies of them, before
\* it looks at any that are pending.
KnownFailed(g) == {q \in g.ready \cap Precondition : run[q] \notin {"none", "OK"}}

\* filter_preconditions_with_cheap_suppliers: the scheduled rules that are too expensive to be
\* executed just for the sake of a precondition, and everything that depends on them.
TooExpensive ==
  LET seed == {r \in ToSet(top.rules) : \/ run[r] = "none" /\ Weight(r) >= Expensive
                                        \/ \E q \in ToSet(Pre(r)) : run[q] = "none"}
  IN  FoldLeft(LAMBDA X, r : IF r \in X THEN X \cup ResolvedConsumers(top.g, r) ELSE X, seed, top.rules)

\* The scheduled rules, not executed yet, the given preconditions depend on.
SuppliersToRun(pre) ==
  LET direct(r) == {s \in ResolvedSuppliers(top.g, r) : run[s] = "none"}
  IN  FoldLeft(LAMBDA X, r : IF r \in X THEN X \cup direct(r) ELSE X,
               UNION {direct(q) : q \in pre}, Reverse(top.rules))

CheckPending ==
  LET now == Pending \ TooExpensive
  IN  /\ phase = "build" /\ KnownFailed(top.g) = {} /\ now # {}
      /\ todo' = Only(top.rules, SuppliersToRun(now))
      /\ checks' = now
      /\ failed' = {} /\ worked' = <<>>
      /\ phase' = "suppliers"
      /\ UNCHANGED <<problem, have, run, graph, cur, self, top, heap, filter, tries, result>>

\* A supplier is not forced: when the object has all its properties already it succeeds
\* without being executed.
ExecuteSupplier ==
  /\ phase = "suppliers" /\ todo # <<>>
  /\ \/ /\ Run(Head(todo), TRUE)
        /\ worked' = Append(worked, Head(todo))
        /\ todo' = Tail(todo)
        /\ UNCHANGED <<checks, failed>>
     \/ /\ ~Output(Head(todo)) \subseteq have
        /\ Run(Head(todo), FALSE)
        /\ failed' = {Head(todo)}
        /\ todo' = <<>> /\ checks' = {}
        /\ UNCHANGED worked
  /\ UNCHANGED <<problem, phase, graph, cur, self, top, heap, filter, tries, result>>

\* Mutant of CheckPre: a precondition that failed stays in the graph.
CheckPre_Forgets(q) ==
  /\ phase = "suppliers" /\ todo = <<>> /\ q \in checks
  /\ checks' = checks \ {q}
  /\ Run(q, TRUE) \/ Run(q, FALSE)
  /\ UNCHANGED <<problem, phase, graph, todo, cur, failed, worked, self, top, heap, filter, tries, result>>

CheckPre(q) ==
  /\ phase = "suppliers" /\ todo = <<>> /\ q \in checks
  /\ checks' = checks \ {q}
  /\ \/ Run(q, TRUE) /\ UNCHANGED failed
     \/ Run(q, FALSE) /\ failed' = failed \cup {q}
  /\ UNCHANGED <<problem, phase, graph, todo, cur, worked, self, top, heap, filter, tries, result>>

\* Mutant of Weave: preconditions checked earlier are evaluated again.
Weave_All(rules) == FoldLeft(LAMBDA list, r : list \o Pre(r) \o <<r>>, <<>>, rules)

\* weave_preconditions: the chain with the preconditions that are still to be checked.
Weave(rules) ==
  FoldLeft(LAMBDA list, r :
             list \o Only(Pre(r), {q \in Precondition : run[q] = "none" /\ ~(q \in problem.shared /\ q \in ToSet(list))})
                  \o <<r>>,
           <<>>, rules)

StartExecution(chain) ==
  /\ top' = chain
  /\ todo' = Weave(chain.rules)
  /\ worked' = <<>>
  /\ phase' = "execute"

\* Mutant of StartReplay: all that was executed is replayed, preconditions included.
StartReplay_All(g, rules) ==
  /\ self' = [self EXCEPT !.g = g]
  /\ heap' = {}
  /\ todo' = Only(rules, g.alive)
  /\ phase' = "replay"

\* Forget all chains; replay in the initial chain what has been executed.
StartReplay(g, rules) ==
  /\ self' = [self EXCEPT !.g = g]
  /\ heap' = {}
  /\ todo' = Only(rules, Production \cap g.alive)
  /\ phase' = "replay"

\* When the failed preconditions make the request infeasible the loop is left with the chain
\* at hand.
EndOfChecks ==
  /\ phase = "suppliers" /\ todo = <<>> /\ checks = {}
  /\ LET e == EliminateRules(self.g, failed, Initial)
     IN  \/ failed # {} /\ ~e.ok /\ StartExecution(top) /\ self' = [self EXCEPT !.g = e.g] /\ UNCHANGED heap
         \/ failed # {} /\ e.ok /\ StartReplay(e.g, worked) /\ UNCHANGED <<top, worked>>
         \/ failed = {} /\ StartReplay(self.g, worked) /\ UNCHANGED <<top, worked>>
  /\ UNCHANGED <<problem, have, run, graph, cur, checks, failed, filter, tries, result>>

\* Preconditions known to hold, and those too expensive to be checked now, are scheduled.
SchedulePre ==
  /\ phase = "build" /\ (Pending \subseteq TooExpensive \/ KnownFailed(top.g) # {})
  /\ LET w == FoldSet(LAMBDA q, v : IF v.ok THEN AddScheduledRule(v.g, q, 1) ELSE v,
                      Work([top.g EXCEPT !.ready = @ \ ReadyPre], {}), ReadyPre)
     IN  top' = [top EXCEPT !.g = IF w.ok THEN w.g ELSE [w.g EXCEPT !.ready = {}]]
  /\ phase' = IF KnownFailed(top.g) # {} THEN "died" ELSE "trivial"
  /\ UNCHANGED <<problem, have, run, graph, todo, cur, checks, failed, worked, self, heap, filter, tries, result>>

\* Rules of zero or minimal weight are scheduled unconditionally.  Neither their weight nor
\* their properties are recorded with the chain.
Trivial(r) == r \in Production /\ Weight(r) <= 1

ScheduleTrivial(r) ==
  /\ phase = "trivial" /\ r \in top.g.ready /\ Trivial(r)
  /\ LET w == AddScheduledRule([top.g EXCEPT !.ready = @ \ {r}], r, 1)
         chain == [top EXCEPT !.g = w.g, !.rules = Append(@, r)]
     IN  IF Promising(top, r) /\ w.ok
           THEN IF IsComplete(w.g)
                  THEN StartExecution(chain)
                  ELSE top' = chain /\ UNCHANGED <<phase, todo, worked>>
           ELSE top' = [top EXCEPT !.g.ready = {}] /\ UNCHANGED <<phase, todo, worked>>
  /\ UNCHANGED <<problem, have, run, graph, cur, checks, failed, self, heap, filter, tries, result>>

EndOfTrivial ==
  /\ phase = "trivial" /\ ~\E r \in top.g.ready : Trivial(r)
  /\ phase' = IF ReadyPre # {} THEN "build" ELSE "split"
  /\ UNCHANGED <<problem, have, run, graph, todo, cur, checks, failed, worked, self, top, heap, filter, tries, result>>

\* A variant with r is pushed onto the heap, in the stem r is eliminated.
Split(r) ==
  /\ phase = "split" /\ top.g.ready # {}
  /\ IF Cardinality(top.g.ready) = 1 THEN r \in top.g.ready ELSE r \in SelectReady(top.g, problem.weight)
  /\ LET stem == [top EXCEPT !.g.ready = @ \ {r}]
         w == AddScheduledRule(stem.g, r, 0)
         variant == [g |-> w.g, rules |-> Append(top.rules, r),
                     weight |-> TentativeWeight(top, r), verts |-> TentativeVerts(top, r)]
         rest == EliminateRules(stem.g, {r}, Weak)
     IN  /\ heap' = IF Promising(top, r) /\ w.ok /\ w.g.ready # {} THEN Pushed(variant, top) ELSE heap
         /\ IF Cardinality(top.g.ready) = 1 \/ ~rest.ok
              THEN top' = stem /\ phase' = "pop"
              ELSE top' = [top EXCEPT !.g = rest.g] /\ UNCHANGED phase
  /\ UNCHANGED <<problem, have, run, graph, todo, cur, checks, failed, worked, self, filter, tries, result>>

EndOfSplit ==
  /\ phase = "split" /\ top.g.ready = {}
  /\ phase' = "pop"
  /\ UNCHANGED <<problem, have, run, graph, todo, cur, checks, failed, worked, self, top, heap, filter, tries, result>>

Queue == {a \in heap : a.queued}

PopNone ==
  /\ phase = "pop" /\ Queue = {}
  /\ UNCHANGED <<problem, have, run, graph, todo, cur, checks, failed, worked, self, top, heap, filter, tries>>
  /\ GiveUp

Pop(a) ==
  /\ phase = "pop" /\ a \in Queue /\ \A b \in Queue : a.weight <= b.weight
  /\ heap' = (heap \ {a}) \cup {[a EXCEPT !.queued = FALSE]}
  /\ IF IsComplete(a.chain.g)
       THEN StartExecution(a.chain)
       ELSE top' = a.chain /\ phase' = "build" /\ UNCHANGED <<todo, worked>>
  /\ UNCHANGED <<problem, have, run, graph, cur, checks, failed, self, filter, tries, result>>

-----------------------------------------------------------------------------
(* resolve: execute the chain, eliminate the rule that failed, try again *)

\* Mutant of Execute: the number of the failed rule is tested for truth.
Execute_ZeroIsFalse ==
  /\ phase = "execute" /\ todo # <<>>
  /\ LET r == Head(todo) IN
     \/ /\ Run(r, TRUE)
        /\ worked' = Append(worked, r)
        /\ todo' = Tail(todo)
        /\ UNCHANGED <<phase, self, heap, tries, result>>
     \/ /\ Run(r, FALSE)
        /\ tries' = IF r \in Precondition \/ worked = <<>> THEN tries ELSE tries + 1
        /\ LET e == EliminateRules(self.g, {r}, Initial)
           IN  IF worked = <<>> THEN Answer("OK") /\ UNCHANGED <<todo, worked, self, heap>>
               ELSE IF e.ok /\ e.g.ready # {}
                 THEN StartReplay(e.g, worked) /\ UNCHANGED <<worked, result>>
                 ELSE GiveUp /\ UNCHANGED <<todo, worked, self, heap>>
  /\ UNCHANGED <<problem, graph, cur, checks, failed, top, filter>>

Execute ==
  /\ phase = "execute" /\ todo # <<>>
  /\ LET r == Head(todo) IN
     \/ /\ Run(r, TRUE)
        /\ worked' = Append(worked, r)
        /\ todo' = Tail(todo)
        /\ UNCHANGED <<phase, self, heap, tries, result>>
     \/ /\ Run(r, FALSE)
        /\ tries' = IF r \in Precondition THEN tries ELSE tries + 1
        /\ LET e == EliminateRules(self.g, {r}, Initial)
           IN  IF e.ok /\ e.g.ready # {}
                 THEN StartReplay(e.g, worked) /\ UNCHANGED <<worked, result>>
                 ELSE GiveUp /\ UNCHANGED <<todo, worked, self, heap>>
  /\ UNCHANGED <<problem, graph, cur, checks, failed, top, filter>>

Succeed ==
  /\ phase = "execute" /\ todo = <<>>
  /\ Answer("OK")
  /\ UNCHANGED <<problem, have, run, graph, todo, cur, checks, failed, worked, self, top, heap, filter, tries>>

\* One turn of replay_rules: satisfied preconditions first, then the next rule.
ReplayRule ==
  /\ phase = "replay" /\ todo # <<>>
  /\ LET satisfied == {q \in self.g.ready \cap Precondition : run[q] = "OK"}
         pre == FoldSet(LAMBDA q, v : IF v.ok THEN AddScheduledRule(v.g, q, 1) ELSE v,
                        Work([self.g EXCEPT !.ready = @ \ satisfied], {}), satisfied)
         r == Head(todo)
         w == AddScheduledRule([pre.g EXCEPT !.ready = @ \ {r}], r, 1)
     IN  \/ /\ KnownFailed(self.g) # {} \/ ~pre.ok \/ r \notin pre.g.ready
            /\ phase' = IF KnownFailed(self.g) = {} /\ pre.ok /\ r \notin pre.g.alive THEN phase ELSE "died"
            /\ self' = [self EXCEPT !.g = pre.g]
            /\ todo' = Tail(todo)
            /\ UNCHANGED filter
         \/ /\ KnownFailed(self.g) = {} /\ pre.ok /\ r \in pre.g.ready
            /\ self' = [self EXCEPT !.g = w.g, !.rules = IF w.ok THEN Append(@, r) ELSE @]
            /\ IF w.ok /\ w.g.ready # {}
                 THEN todo' = Tail(todo) /\ filter' = filter \cup NewVerts(r)
                 ELSE todo' = <<>> /\ UNCHANGED filter
            /\ UNCHANGED phase
  /\ UNCHANGED <<problem, have, run, graph, cur, checks, failed, worked, top, heap, tries, result>>

EndOfReplay ==
  /\ phase = "replay" /\ todo = <<>>
  /\ self' = [self EXCEPT !.rules = <<>>]
  /\ top' = self'
  /\ failed' = {} /\ worked' = <<>>
  /\ phase' = IF (\E r \in ToSet(self.rules) : run[r] # "OK") \/ IsComplete(self.g) THEN "died" ELSE "build"
  /\ UNCHANGED <<problem, have, run, graph, todo, cur, checks, heap, filter, tries, result>>

Next ==
  \/ GatherRule \/ ConsiderInputs \/ FinalizeGather
  \/ \E q \in Precondition :
       DismissRule(q) \/ SkipSatisfied(q) \/ RejectPre(q) \/ EvaluatePre(q) \/ PostponePre(q)
  \/ CheckPending \/ ExecuteSupplier \/ EndOfChecks \/ SchedulePre
  \/ \E q \in Precondition : CheckPre(q)
  \/ \E r \in Production : ScheduleTrivial(r) \/ Split(r)
  \/ EndOfTrivial \/ EndOfSplit \/ PopNone
  \/ \E a \in heap : Pop(a)
  \/ Execute \/ Succeed \/ ReplayRule \/ EndOfReplay

Stopped == phase \in {"done", "died"}
Idle == Stopped /\ UNCHANGED vars

Spec == Init /\ [][Next \/ Idle]_vars

\* The scheduler runs until it stops: weak fairness of Next, which is enabled in every other
\* phase (TLC's deadlock check), written without ENABLED.
FairSpec == Spec /\ (<>[]Stopped \/ []<><<Next>>_vars)

-----------------------------------------------------------------------------
(* Properties *)

Chains == {self, top} \cup {a.chain : a \in heap}

\* The counters every decision of the graph is based on agree with its arcs, for every chain:
\* a node waits for its unresolved suppliers, nothing leads to or from an eliminated node,
\* an unscheduled node is kept for as many consumers as still need it, and the rules that
\* are flagged as ready are those without pending suppliers.
CountersExact == \A g \in {c.g : c \in Chains} :
  /\ \A n \in g.alive :
       /\ g.pending[n] = Cardinality({s \in Suppliers(g, n) : g.arc[<<s, n>>] # Resolved})
       /\ n \notin g.sched =>
            g.out[n] = Cardinality({c \in Consumers(g, n) : g.arc[<<n, c>>] > Optional})
  /\ \A n \in Node \ g.alive : Consumers(g, n) = {} /\ Suppliers(g, n) = {}
  /\ g.flagged = {n \in g.alive \ (g.sched \cup Property) : g.pending[n] = 0}

Provided(r) == \A k \in DOMAIN Input(r) : Input(r)[k] \cap have # {}

\* A rule is executed only when its inputs exist and its preconditions are satisfied,
\* however many chains were tried before; and no rule is executed that has been before or was
\* found to be infeasible: neither after a replay, nor when it was executed for the sake of a
\* precondition.
RunsOnlyWhenDue ==
  /\ (phase \in {"execute", "suppliers"} /\ todo # <<>>) =>
        /\ run[Head(todo)] = "none" /\ Provided(Head(todo))
        /\ Head(todo) \in Production => \A q \in ToSet(Pre(Head(todo))) : run[q] = "OK"
  /\ (phase = "suppliers" /\ todo = <<>>) => \A q \in checks : Provided(q)

\* Success means that the requested properties exist.
SuccessMeansProvided == result = "OK" => Missing(Final) = {}

\* What the rules that have not failed could still produce, if all open preconditions held.
Possible(r) == run[r] # "failed" /\ \A q \in ToSet(Pre(r)) : run[q] # "failed"
Derivable(rules, from) ==
  LET Enough(r, X) == \A k \in DOMAIN Input(r) : Input(r)[k] \cap X # {}
      Usable(X) == {r \in rules : Enough(r, X) /\ \A q \in ToSet(Pre(r)) : Enough(q, X)}
  IN  FoldSet(LAMBDA i, X : X \cup UNION {Output(r) : r \in Usable(X)}, from, 1..Cardinality(rules))
Solves(rules) ==
  \A k \in DOMAIN Input(Final) : Input(Final)[k] \cap Derivable(rules, have) # {}

\* The search gives up only when no combination of the remaining rules leads to the request:
\* elimination, the pruning in the heap and the replay lose no solution.
GivesUpOnlyWhenStuck ==
  result \in {"nothing", "failed"} => ~Solves({r \in Production : Possible(r)})

\* A chain starts with the smallest possible weight, apart from the trivial rules in it, which
\* are not weighed because they are scheduled whether they are needed or not.
CheapestChain ==
  (phase = "execute" /\ worked = <<>>) =>
    \A rules \in SUBSET {r \in Production : Possible(r) /\ run[r] = "none"} :
      Solves(rules) => SumWeight({r \in ToSet(top.rules) : ~Trivial(r)}) <= SumWeight(rules)

\* The plausibility checks of the code never fail: no precondition known to have failed is in
\* the ready list of a chain, neither when pending ones are looked at nor during a replay
\* (Scheduler.pm:1270, 1345), whatever rule is replayed is ready at its turn and keeps the
\* request feasible (1281, 1307), and the replay itself does not resolve it (1315, 1319).
NoInternalError == phase # "died"

\* Every request is answered.
Terminates == <>(phase = "done")
=============================================================================
