# A verification project for polymake's core

polymake computes properties of mathematical objects.  Algorithms are declared as
*production rules* with inputs and outputs; when a property is asked for that an object
does not have yet, a *scheduler* composes the cheapest chain of rules leading to it and
executes them, each in a *transaction* on the object.  The data live in C++ containers with
copy-on-write storage: graphs with maps attached to them, search trees, queues.  A shell
reads commands, handles the interrupt signal and keeps the user's settings.  This directory
holds TLA+ models of these parts, TLC configurations that check them on small instances, and
proofs checked by TLAPS.

## 1. Inventory

Paths are relative to `src/`.

| component | code | state | operations | hard behaviour | what makes it correct | modules |
|---|---|---|---|---|---|---|
| Shared objects and aliases | `lib/core/include/internal/shared_object.h`, `alias.h` | a body pointer and an alias set per handle; a counter and contents per body | constructors, copy, mutable alias, assignment, write access, assign/replace/resize/append/clear, swap, relocate, destructor | write access through one of several related handles; constructors that throw half-way; objects moved bitwise while others hold their address; aliases outliving owners | exact counters, no handle on a dead body, links agree, a write is seen by the family and by nobody else | `SharedObject`, `AliasedValues` |
| Rule graph | `lib/core/src/perl/RuleGraph.xxs` | per chain: arc states, counters of pending suppliers and of consumers, ready list | init_state, add_scheduled_rule, eliminate, select_ready_rule, get_resolved_* | incremental counters along cascades of eliminations; alternatives | counters agree with arcs; nothing needed is eliminated | `RuleGraph` |
| Scheduler | `perllib/Polymake/Core/Scheduler.pm`, `SchedulerHeap.xxs` | results of rules run, initial chain, heap of partial chains, vertex filter | gather, build_cheapest_chain, execute, eliminate, replay | failures in the middle, out-of-order checks of preconditions, pruning, retries | rules run once and only when ready; success means the property exists; failure means no way is left; chains are minimal; every request is answered | `Scheduler` |
| Rules | `Core/Rule.pm` | flags, inputs, outputs, weight | execute | rule failure, infeasibility, interrupts | all outputs or none | `Scheduler`, `Transaction` |
| Big objects and transactions | `Core/BigObject.pm`, `PropertyValue.pm` | contents, dictionary, transaction stack, cleanup table | take, put, add, remove, begin, commit, rollback, descend, cleanup, save | nested transactions, rollback across subobjects, compaction of contents while indices are stored, removals tried out | a failed rule leaves no trace; dictionary and contents agree; what is temporary is known to be so | `Transaction`, `SnapshotStack` |
| Temporary scopes | `perllib/Polymake/Scope.pm`, `lib/core/src/perl/Scope.cc` | save stack, cleanup table, actions at the end of the session | begin, unwind, add, forget, the END block | actions related by name before they exist; circles | declared order; nothing forgotten; the session ends | `AtEnd`; cleanup in `Transaction` |
| Interrupts, the shell's loop | `perllib/Polymake/Interrupts.pm`, `lib/core/src/perl/interrupts.xxs`, `Core/Shell.pm` | handler in force, pending and deferred signals, flags | signal, block, enable, raise, look at what a command left | signals in blocked sections, repeated signals, exceptions passing rules and evals | nothing blocked is broken off; one interrupt at a time; the next one is heard | `Interrupts` |
| User settings, replaced files | `Core/UserSettings.pm`, `OverwriteFile.pm` | settings, the private file | load, add, set, reset, obliterate, save, rename | two sessions; a crash between write and rename; keys that depend on a flag and an architecture | no update lost, an old or a new file | `UserSettings` |
| Graphs with maps | `lib/core/include/Graph.h` | tables of nodes and edges, numbers of edges, attached maps in buckets | edge insertion and removal, clear, squeeze, divorce, attach, copy | maps follow a table that is copied on write | entries match the edges, graphs do not see each other | `GraphMaps` |
| AVL trees | `lib/core/include/internal/AVL.h` | threaded links with balance bits, list or tree form | insert, erase, search, update, copy, move, clear | rebalancing; a const search that relinks all nodes | order, balance, both directions agree | `AVLTree`, `OrderedKeys` |
| Heap; shortest paths as its user | `lib/core/include/Heap.h`, `apps/graph/include/DijkstraShortestPath*.h` | an array ordered as a tree, positions kept in the elements; labels with counters | push, pop, erase; search | elements leave from the middle; labels given back while others point at them | order and positions; shortest paths; exact counters | `Heap`, `Dijkstra` |
| Sparse tables, facet lists, partitions, allocators | `lib/core/include/sparse2d.h`, `FacetList.h`, `EquivalenceRelation.h`, `chunk_allocator.*` | linked cells | insert, erase, search | cells in two trees at once | both directions agree | none yet |
| Permutations, preferences, rule filters | `Core/Permutation.pm`, `Preference.pm`, `RuleFilter.pm` | permutation actions in the rule graph; preferred labels | | a rule creates an object up to a permutation, whose sensitive properties are moved back | | none yet |
| Pipes and the select loop; sockets, background jobs | `Pipe.pm`, `InteractiveViewer.pm`; `Sockets.pm`, `Background.pm` | channels, select masks, buffers of input and output | try_read, try_write, WRITE, READLINE, out_avail, in_avail, CLOSE | re-entrant callbacks, stale ready sets, channels that are full | output arrives in order, nobody waits for ever, no dead channel used | `Selector` |
| Perl extensions, serialization, numbers, linear algebra, visualization, other applications, bundled software | | | | | not state machines this technique helps with | none |

How they interact: a request enters `BigObject::provide_request`, which calls
`Scheduler::resolve_request`; the scheduler builds a `RuleGraph`, clones its state per
chain, orders chains in `SchedulerHeap` (which finds chains with more or fewer properties by
a `FacetList`), and runs rules through `Rule::execute`, which opens a `RuleTransaction` on
the object, in a section where interrupts are blocked, and commits or rolls it back.  Rule
bodies, in which interrupts are enabled again, call C++ functions whose containers are shared
objects; a `Graph` is a shared object with a table as its body and a hook in its divorce that
takes the maps along.  The shell runs one command after the other in a scope, whose end
cleans temporary properties up, and at the very end the actions of `AtEnd`, among them the
saving of preferences and settings.  While the shell waits for a key, the select loop serves
the pipes to visualization programs.  All of it runs in one thread; concurrency exists only as
signals, child processes and sessions sharing files.

In the models: `Scheduler` takes rules to be atomic, which is what `Transaction` shows of
them; `Transaction` has an action for an interrupt in the middle of a rule, which `Interrupts`
shows to arrive only in the rule's own code, outside of commit and rollback; `GraphMaps` takes
a divorce to give every host a value of its own, which `SharedObject` shows.

The hazards list in `PROJECT.json` gives, line by line, what is hard to test in this code
and which property covers it.

## 2. Plan

Done:

1. `SharedObject`, with `AliasedValues` as its abstract specification: model, checks, proofs of
   the six invariants and of the refinement.
2. `RuleGraph` and `Scheduler`: model and checks, termination under fairness, proofs that the
   incremental counters stay exact, that rules run only when they are due, and that success
   means the properties are there.
3. `Transaction`, with `SnapshotStack` as its abstract specification: model and checks, proofs of
   `DictionaryAgrees` and `SubobjectsTied`.
4. `GraphMaps`, for edges and edge maps: model, checks and proofs of all four properties.
5. `AVLTree`, with `OrderedKeys` as its abstract specification: model and checks.
6. `UserSettings` with the replacing of files: model, checks and proofs of both
   invariants.
7. `AtEnd` and `Interrupts`: models, checks and proofs of their invariants.
8. `Heap` with `Dijkstra`: model, checks and proofs of the three invariants.
9. `Selector`: model and checks, with delivery under fairness; proofs of `OutputInOrder` and
   of the safety half of `Coexistence`.

Left, in this order:

- node maps, and insertion, deletion and permutation of nodes in `GraphMaps`; `sparse2d`,
  where the edges of a graph are cells of two trees, on top of `AVLTree`;
- reading and writing of blocks in `Pipe.pm`, background processes, servers;
- `EquivalenceRelation`, `FacetList`, `chunk_allocator`;
- of the scheduler: preferences and dynamic weights, initial requests, get_schedule with its
  second phase, permutations;
- proofs of `CleanupTableExact` and the refinement for transactions, and of `NoInternalError`, `GivesUpOnlyWhenStuck` and
  `CheapestChain` of the scheduler.

## 3. Shared objects (`SharedObject`, `AliasedValues`)

State: `body`, `owner` and `aliases` per handle (the pointers `body` and
`al_set.owner`/`al_set.set`), `refc` and `obj` per body.  Actions are whole calls; the
library is single-threaded.  `Contents(h)` is what a reader of `h` sees.

| action | code |
|---|---|
| `Construct`, `Copy`, `MakeAlias`, `Destroy` | constructors, `AliasSet(const AliasSet&)`, `make_mutable_alias`, destructors |
| `Assign` | `operator=` |
| `Write` | `enforce_unshared`, `assign_op`, `assign` of the same size: `CopyOnWrite` or `InPlace` |
| `AssignValues`, `Replace`, `Resize`, `Extend` (`append`), `Clear` | the operations that change the size or all contents |
| `Swap`, `Relocate` | `AliasSet::swap`, `relocate`, `relocated` |
| `WriteThrows`, `AssignThrows`, `ReplaceThrows`, `ResizeThrows` | the same with a constructor that throws; each differs in whether the old body's counter has been decremented by then |

The library leaves obligations to its callers.  They are constants, so that each
configuration and each theorem says what it needs: `Rebinding` (a member of an alias family
may be given another body on its own), `OrphanWrites` (an alias that lost its owner may be
written through), `Throwing`.  `MaxRefc` bounds the references lost by throwing
constructors; without it the counter of the empty body grows for ever.

`AliasedValues` is the promise of the class comment: every handle has a value of its own,
and a write changes the values of one family.

**Checks.** `shared_full` has three handles and three private bodies: a family of two and a
stranger, or three members, and a body for each to move to; every obligation is dropped and
constructors throw.  `shared_disciplined` has four handles and four private bodies: two
families, or a family of three and a copy.  There are three values, of which two have the
same size, so that writes in place and writes that reallocate both occur.  Handles, bodies
and values are symmetric.  Deadlock is checked.  No property needs fairness: these are calls
made by others.  Where an obligation is dropped, the properties that need it fail:
`DestroyedWithLastHost` with `Rebinding` or `Throwing`, `ImplementsAliasedValues` with
`OrphanWrites` (section 12).


**Proofs** (`Library_proofs`, second half).  For all sets of handles,
bodies and values:

| theorem | statement | assumes |
|---|---|---|
| `TypeCorrect` | `Spec => []TypeOK` | |
| `LinksAgree` | `Spec => []AliasLinks` | |
| `NoHostDangles` | `Spec => []NoDanglingHost` | |
| `CountersExact` | `Spec => []RefcountExact` | `~Throwing` |
| `FamiliesStayTogether` | `Spec => []FamilyCoherent` | `~Rebinding`, `~Throwing` |
| `LastHostDestroys` | `Spec => []DestroyedWithLastHost` | `~Rebinding`, `~Throwing` |
| `SharingInvisible` | `Spec => ImplementsAliasedValues` | `Disciplined`: these and `~OrphanWrites` |

besides the named assumptions of the constants.

*Counters.*  `TypeOK` alone is not inductive: that `refc - 1` is a natural number needs the
counters to be at least the number of hosts.  The inductive invariant `IInv` is therefore the
conjunction of the types, this lower bound, that a body with hosts is allocated, and that the
static empty body is.  Exceptions only ever leave counters too high, so the lower bound
survives them and `NoHostDangles` needs no hypothesis; exactness does not survive and is
proved without them.  The steps are grouped by what an operation does to bodies (moves one
handle, moves a family, exchanges two handles, changes contents), each a lemma about
cardinalities of the sets of hosts.

*Links and families.*  `AliasLinks` is inductive relative to the types, `FamilyCoherent`
relative to both: each operation moves a loner, an owner that lets its aliases go, or a whole
family.  `LastHostDestroys` strengthens "no allocated body without hosts" to "no allocated
body with counter zero"; the delicate step is `divorce_aliases()`, which never destructs: the
test that sends an alias there guarantees a host outside the family.

*Refinement.*  Every step is a step of `AliasedValues` or invisible.  The heart are two lemmas
on writes in place: when `NeedsCopy` is false, the hosts of the body are exactly the family
(`InPlaceIsPrivate`, by counting) or the handle alone (`AloneInPlace`); so nobody else sees
them.  `EmptyIsEmpty` adds that the static empty body is never written.

## 4. Scheduler (`RuleGraph`, `Scheduler`)

A chain's state `g` in `RuleGraph` is the state vector of the code (`arc_state_t` per arc, in
and out state per node) with the ready list.  `Eliminate`, `AddScheduledRule`,
`SelectReady`, `ResolvedConsumers` and `ResolvedSuppliers` are the functions of the same
names.  `Scheduler` has one action per piece of Perl code up to the next execution of a
rule, or one turn of a loop:

| actions | code |
|---|---|
| `GatherRule`, `DismissRule`, `SkipSatisfied`, `RejectPre`, `EvaluatePre`, `PostponePre`, `ConsiderInputs`, `FinalizeGather` | `gather_more_rules` with `rule_status`, `producers_of_property` |
| `CheckPending`, `ExecuteSupplier`, `CheckPre`, `EndOfChecks` | preconditions evaluated out of order, with their suppliers |
| `SchedulePre`, `ScheduleTrivial`, `EndOfTrivial`, `Split`, `EndOfSplit`, `Pop`, `PopNone` | the rest of `build_cheapest_chain`, with `SchedulerHeap` |
| `Execute`, `Succeed`, `ReplayRule`, `EndOfReplay` | `execute`, `resolve`, `replay_rules` |

Phases: `gather` -> `consider` -> ... -> `build` -> (`suppliers` -> `replay` ->)*
`trivial` -> `split` -> `pop` -> ... -> `execute` -> `done`, and `died` for the code's own
internal errors.  Whether a rule fails is open in every action that executes one.

Choices made in the model:
- result codes are OK, failed and infeasible (`retry` counts as failed within a request);
- weights, pairs of a major and a minor part, are one natural number, and the major class
  of an expensive rule is a threshold, `Expensive`;
- rules of minimal weight are scheduled unconditionally and unweighted, as in the code;
- the elimination queue is a set taken in an arbitrary fixed order: the code's order
  depends on addresses of nodes only, and the result does not depend on it as every node is
  queued at most once per round;
- elimination before the ready list exists uses the same counters;
- when elimination fails, the state is that before its last iteration; the code discards
  such a chain too, except on the path that `sched_stray` shows;
- inputs of one rule have disjoint alternatives (`ProblemAssumption`), because the code has
  one arc for each property and rule.  No rule in `apps/` is different.  Nor does a rule list
  a precondition twice.

Not modelled: undefined property values, rules failed in earlier requests, preferences,
dynamic weights, get_schedule, initial requests, permutations with their exclusive and
reverse arcs, the second attempt with shortened input, interrupts.

**Properties.** `CountersExact` relates the incremental counters of every chain alive to the
arcs.  `RunsOnlyWhenDue` says what is executed: a rule once, with its inputs there, and not
after it was found infeasible.  `SuccessMeansProvided` and `GivesUpOnlyWhenStuck` say what an
answer means, the latter against an independent fixpoint over the rules that have not failed.
`CheapestChain` compares a chain with every set of rules that solves the request;
`NoInternalError` covers the `die`s of the scheduler, the plausibility checks among them: a
precondition known to have failed must not stand in the ready list of the initial chain when
it is replayed (1270), nor of a chain to be extended (1345, tested before any pending
precondition is looked at; `KnownFailed`); `Terminates` says that every request is
answered.

**Checks.** `scheduler` runs 110 rule bases: five shapes with varying weights (alternatives
that share a first step, a rule with two outputs against two rules with one, preconditions
that depend on cheap or expensive rules, an expensive precondition of a common part,
preconditions of object specializations), and bases with no producer, rules in circles, dead
ends, a trivial rule that comes too late, and nothing to do.  Every pattern of failures of
rules and preconditions is explored.  Six rules and two preconditions are enough for each
interaction of two alternatives with one precondition each and a common supplier.
`sched_stray` adds a base in which the request is impossible without a precondition, and
shows the one disagreement among the runs (section 12).

**Fairness.** `FairSpec` asks that `Next` goes on being taken unless the scheduler has
stopped: it is a sequential program without blocking calls, so it runs until it returns.
Written as `<>[]Stopped \/ []<><<Next>>_vars`, it equals weak fairness of `Next` because
`Next` is enabled in every phase that is not final, which TLC's deadlock check confirms;
`Idle`, the only step of a stopped scheduler, is enabled in no other phase.

**Proofs** (`Folding`, `RuleGraph_proofs`, `Scheduler_proofs`), for all finite sets of rules,
preconditions and properties, all problems and all failures:

| theorem | statement | assumes |
|---|---|---|
| `CountersStayExact` | `[]CountersExact` | `Spec`, `[]~Lost` |
| `RulesRunWhenDue` | `[]RunsOnlyWhenDue` | `Spec`, `[]~Lost`, `[]~Overlooked` |
| `SuccessProvides` | `[]SuccessMeansProvided` | `Spec`, `[]~Lost`, `[]~Overlooked`, `DistinctRequests` |
| `EliminateSound`, `EliminateRulesSound` | what `eliminate()` leaves behind | exact counters before, no scheduled rule among those given up |
| `AddScheduledRuleSound`, `ScheduleAllPrepares` | what `add_scheduled_rule()` leaves behind, and when it cannot fail | exact counters before, a ready rule |
| `ReachedLeast`, `ReachedClosed` | the reverse search of `eliminate()` finds the least set closed under suppliers of nodes not scheduled | |
| `InitStateExact` | `init_state()` computes exact counters | arcs between nodes of the right kinds |
| `ExactCounters` | `Exact` says what `CountersExact` says | |

`Lost` is the situation in which `build_cheapest_chain` leaves its loop with a chain that is no
longer valid, because preconditions that every chain needs have failed: `eliminate()` has then
given up half way and its counters are not exact.  That is the disagreement `sched_stray`
shows (section 12), so the hypothesis is needed.  In the run `scheduler` it does not happen.
`Overlooked` is a search that starts with a rule which was dismissed as infeasible while gathering but
is still in the initial chain: that rule may be executed although it was found infeasible, the
disagreement of section 12 that `DismissedProblem` shows.  It takes preconditions of object
specializations.  `DistinctRequests`: with requests for `T` and for `T` or `A`, there would be one
arc from `T` to the final rule, and a chain could count it for one request only.

*Elimination.*  While nodes wait on the queue, the counters of nodes near them are wrong; `Sound`
says what stays right: nodes not on the queue wait for exactly the suppliers that are open
(`Waiting`) and are kept for exactly their consumers (`Demanded`, an inequality for scheduled
rules, which may be kept for their own sake), scheduled nodes wait for nothing (`Served`),
what is marked is on the queue or gone (`Queued`), and nothing on the queue has been used by a
node that stays (`Unused`).  `EliminateNodeSound` is one iteration.  The queue empties within
as many iterations as there are nodes because `(Node \ marked) \cup queue` loses one each time
(`DrainEmpties`).  The second round starts from the least fixpoint of the reverse search; its
nodes keep one another in the graph (`Held`), so what is left is needed (`Clean`).

*Scheduling.*  `ResolveSound` resolves one arc and takes the competing suppliers away; `Serving`
is the invariant while the consumers of a node are told one after the other, with a property
scheduled in the middle of the loop over its first producer's consumers.  Two invariants say
when scheduling cannot fail: `Kept`, every scheduled rule enforced, which is why the replay
succeeds; and `Clean`, which is why preconditions known to hold can always be added.

*Scheduler.*  `Inv` adds what the graph does not know: the rules about to be executed, and those
that have failed, are not part of the initial chain (`StepsInv`), since eliminating a rule
that is scheduled would leave resolved arcs without a source; every chain has what the
initial chain has (`DraftsInv`); preconditions in the initial chain have been evaluated
(`KnownInv`), so those still to be checked are not in it; the initial chain is `Kept`, all
others `Clean` or `Kept` (`GraphsInv`).  TLC checked `Inv` on the problems of `scheduler` before
it was proved.

*Rules that are due.*  The code never looks at the inputs of a rule again before it executes
it; that they are there follows from how the chain was made.  The argument has four steps.
(1) `Grounded`: of the arcs with which a node was gathered, each alternative of each input keeps
one that is not inactive, and the consumers of what is scheduled have been told.  It is not
implied by exact counters, and every operation on a chain preserves it: a supplier is taken
away only from a node that goes too, or because another one has been resolved for the same input
(`Fed`, `Told`, `Settled`; `Carrying` for an iteration of `eliminate()`).  (2) A node that waits
for nothing then has a scheduled producer for every input the object lacks (`InputSupplied`), and
the producers stand before their consumers in the chain (`Ordered`, `Backed`; the initial chain,
`Rooted`, has only what has been executed).  (3) What has been executed is in the object
(`Delivered`), what is left in the initial chain has not been executed (`Fresh`) and has not
failed (`Sifted`).  So a complete chain, with its preconditions woven in, is a `DueList`: each
rule has its inputs once those before it have been executed (`ExecutionDue`), and so are the
suppliers of preconditions checked early (`ChecksDue`).  (4) `DueList` passes to the rest of the
list with each success, and a failure or a check makes the list void.  `GatherDue` is the base:
a rule found while gathering is still to be looked at, failed, or has an arc for every input
that is missing and every precondition.  TLC checked `DueInv` on the problems of `scheduler` before
it was proved.

*Folds.*  Loops are folds, so the proofs need induction over data, which the library's
induction theorems cannot give.  `Folding` goes another way: the set of those subsets of
elements visited that satisfy the claim has the whole set as an element, because a minimal
counterexample exists in any non-empty set of subsets of a finite set.  No operator is a
parameter; each proof names the recursive function of its fold and the set of good subsets.

## 5. Transactions (`Transaction`, `SnapshotStack`)

State: `s` holds the objects with all that transactions know of them: `contents`, a sequence
of cells per object; `dict`, the dictionary of indices into it; `stack`, the transactions
open on each object, each with its `backup`, the length of the contents at its start, its
temporaries and subobjects; `cleanup`, the table of the current scope; `changed`. `removing`
is a `remove()` that tries whether rules can reconstruct what it removes, `disk` the
contents last saved. There is a top-level object, a singular subobject and one instance of a
multiple one.

| actions | code |
|---|---|
| `BeginTransaction`, `CommitTransaction`, `RollbackTransaction` | `begin_transaction`, `commit`, `rollback` with those of the subobjects |
| `Take`, `TakeDirect`, `Add`, `RemoveMutable`, `StartRemove`, `EndRemove`, `RemoveExtra` | `take`, `add`, `remove` and its search for a reconstruction |
| `StartRule`, `SkipRule`, `RulePut`, `RuleAdds`, `CommitRule`, `RuleFails`, `Interrupted` | `Rule::execute` with its `RuleTransaction` |
| `EndScope`, `Save` | `Scope::cleanup` with `delete_from`, `save` |

**Properties.** `DictionaryAgrees`: each index leads to the cell of its property and no cell
is unreachable, though contents are cut off, filled up and compacted. `CleanupTableExact`:
the scope knows exactly the temporary properties and gaps there are. `ChangesAreSaved`:
permanent contents that differ from the file are marked as changed. `SubobjectsTied`:
transactions of subobjects are as many as those of the parent that include them.
`ReconstructionIsolated`: a reconstruction tried in vain changes nothing.
`ImplementsSnapshots` is the refinement: `SnapshotStack` has a value and a stack of values,
and a transaction begun pushes a copy, a commit drops one, a rollback puts it back. So
whatever happened in between, in whatever subobject, rollback restores exactly what was
there.

**Proofs** (`Folding`, `Transaction_proofs`), for any set of worlds: any leaf properties,
values, rules, fillings, first contents and bound on the length.

| theorem | statement |
|---|---|
| `AlwaysGood` | `Spec => []IInv` |
| `AlwaysAgrees` | `Spec => []DictionaryAgrees` |
| `AlwaysTied` | `Spec => []SubobjectsTied` |

The hypothesis is that all worlds are `Strict`: objects and fillings have each property once,
rules have leaves of the object and its singular subobject as outputs, and nobody takes a
*liberty*, which is what breaks the property (section 12).  The worlds of the run satisfy it
(`WorldsAreStrict` in `MCTransaction`).

That index and cell agree (`Whole`) is not inductive: a rollback cuts the contents off at
the length noted at its start and fills gaps from the backups, so it depends on how the
transactions lie over the contents.  `IInv` therefore says of each object (`Stacked`)

- that the contents never shrink below the length a transaction has noted, and that each of
  its backups belongs to a gap or, of a rule, to the placeholder that hides it (`Fits`);
- that what has a backup is not stored anew, so that a rollback does not list it twice
  (`Reserved`); only the property that `remove()` tries to reconstruct is;
- that the registered gap of the object is older than the transaction (`Before`), and that
  transactions within another one have neither backups nor gaps (`LaterFits`);

and of the objects together, how many transactions there may be and of which kind (`Shape`),
that a subobject has a transaction when one of the object names it (`Ties`), that the cells
of subobjects and the links to parents outlive all transactions that rely on them (`Links`),
that the outputs of a rule are listed (`Outputs`), and that a transaction registers gaps of
its own object only (`OwnGaps`); `Owned` that while `remove()` has a transaction of its own,
backups are only of what it removes.  TLC checked it, apart from its types, on the instance
of `transactions`.

Lemmas `StackedPush`, `StackedReplace`, `StackedDrop`, ... say what a step makes of one
object, `Opens`, `Descends`, `Appends`, `Drops`, `Hides`, `CommitsOuter`, `RollsBackTop` what
it makes of the state, and one lemma for each action puts them together.  For the end of a
scope, `CompactedWhole`: moving the cells that stay forward, past the first gap, and
correcting the dictionary keeps both in agreement.  The n-th of the cells that stay is found
by counting, and the lemmas before it show that there is exactly one.

**Bounds.** `MCTransaction` has four worlds: no subobject and rules with one or two outputs;
a subobject with a rule; both kinds of subobjects; a rule that adds a subobject. Contents
have at most three or four cells, the least with a property kept, one removed, and one added
after it. Client code and rules keep to what transactions support; each such restriction is
a *liberty* (a guard named in the module) that a world may be given, and with most of them a
property fails (section 12).

Not modelled: temporary properties of several scopes, property values with their own
parents, objects shared by two parents, attachments, loading and saving proper.

## 6. The end of the session (`AtEnd`, `Session_proofs`)

`names`, `action`, `before` and `after` are the tables of package `AtEnd`; `AddBefore` and
`AddAfter` are the turns of the loops in `add`, since `add` croaks in the middle when a
relation is declared both ways; `Run`, `Delay`, `Skip` and `EndPass` are the END block's
loop.

`OrderObserved`: no action runs before one it was to come after and that was registered by
then. `GivenUpOnlyInCircles`: actions are left undone only if each waits for another one of
them. `EndComes`: the END block ends. Fairness: `WF_atEndVars(Visit \/ EndPass)`; the block is
not left and signals are blocked in it. `atend` has three names, each related to at most two
others in either direction per call: enough for circles of two and three, relations to names
never registered, and an action forgotten meanwhile.

**Proofs**, for any set of names: `OrderKept` and `NothingForgotten`. The invariant is
`AtEndTypeOK /\ Mutual /\ Remaining /\ Passed` with the two properties. `Mutual`: relations are
recorded on both sides until the END block uses one of them up. `Remaining`: what is still
to be observed is what was wanted, restricted to the actions still waiting. `Passed`: an
action the loop has gone over was delayed, and as long as nothing was run in this pass it is
still blocked; so a pass in which nothing was run leaves only actions that wait for each
other.

## 7. Interrupts (`Interrupts`, `Session_proofs`)

State: `stack`, the dynamic scopes a command has opened, each with the signal deferred to
its end; `pending`, the interpreter's flag that a signal is to be raised at one of the next
operations; `state`, `$Interrupts::state`; `exc`, an exception on its way; `err`, `$@`;
`input_interrupted`; `at`, where the shell is. `Signal` is the C handler, `Dispatch` raises
what is pending, `Enter`, `Leave`, `Fail` and `Unwind` open and close scopes - blocked
sections, rules with signals enabled and a rollback, evals - and `Look` is what `Shell::run`
does after each command.

`RaisedInTurn`: no exception is raised in a blocked section, or while another interrupt is
being handled. `SessionSurvives`: no signal ends the session. `Heard`: at the prompt the
next signal will be heard. `SignalAnswered`: a signal is answered in the end, also one that
was deferred. Each names the circumstances it needs; `Orderly` collects those the first
needs, and section 12 says what happens in others.

**Bounds and fairness.** Four worlds (calm, deferring, deferring with evals and input,
anywhere), scopes up to depth five or six, three signals: one being handled, one repeated,
one deferred. `Dispatch` is strongly fair, as the interpreter looks for signals again and
again, exceptions go on their way, and scopes whose code halts come to their end although
they may open others; a rule that does not halt is outside of `Halting` (section 12).

**Proofs**, for all sets of circumstances: `ShellGoesOn`, `BlockedUndisturbed`,
`NextOneHeard`. The invariant relates pieces of state that are compared only much later,
when scopes have been opened and closed: a pending signal finds its handler enabled, no
exception on its way and no interrupt being handled. In worlds that do not defer, that is
because nothing is ever deferred (`Undeferred`); in those that do, because there is one
blocked scope at a time and nothing is raised as long as a signal is deferred in it
(`OneBlock`). `Lasting` says that nothing is deferred to the end of the cleanup, `OnItsWay`
that an interrupt being handled has an exception on its way up, held up by a rollback, or at
the shell already; `Shape` is that of the stack.

## 8. The select loop (`Selector`, `Selector_proofs`)

The shell and the pipes to visualization programs share one thread: whoever waits for its
own channel calls `try_read` or `try_write`, which serve the others meanwhile, and the
callbacks may wait in turn. `stack` holds these calls with the channels still to be served,
as `select` found them; `channels` and `wmask` are the registries; `link` has per viewer the
two channels and the two buffers. `Select`, `ReadMember`, `WriteMember`, `WriteStalls`,
`ServeOutput`, `ServeInput` are the loops; `Flush` is `out_avail`, `WriteOut` and `Drop` are
the two ways of `WRITE`, `Feedback` is the watcher; `Await`, `Launch`, `CommandEnds`,
`Recover` are the shell. Viewers (`Talk`, `GoOn`, `Receive`, `GoAway`) are external; text is
numbered pieces.

`out_avail` writes to a descriptor that is in blocking mode again: it waits until all is
written, and its last branch ("still output pending") is never taken. The model has that.

`OutputInOrder`: what arrives is in order and, unless more is printed while output is
pending, complete. `Coexistence` is the promise of `InteractiveViewer.pm:139`: in orderly
circumstances the sets of ready channels never go stale, what has been printed arrives and
each line typed is executed. Fairness: the thread goes on, viewers read and finish lines.

**Bounds.** Two viewers and two lines typed; drawings of three pieces through channels of
two, so that output is left pending; up to two messages and three drawings per viewer. The
worlds in which loops nest - lines cut into pieces, output printed while output is pending -
have one viewer: a single one reaches all the actions, and two could each wait for the
other's line.

**Proofs.** For any viewers, any set of circumstances, any size of what is printed and any
capacity of the channels:

| theorem | statement |
|---|---|
| `OutputStaysInOrder` | `Spec => []OutputInOrder` |
| `ReadyUntilServed` | `Spec => [](Orderly => ReadySetsFresh)` |

*Order.* What is pending for a viewer is what is on its way and then what waits in
`wbuffer`. `Inv` says, besides the types, that it is strictly increasing and lies between
what has been received and what has been printed (`Sorted`), and that it is exactly those
numbers when nothing is printed while output is pending (`Gapless`); then nothing waits for
the viewer that a `print` on top of the stack is for. The last part needs the stack in the invariant: a
`print` frame is only ever on top then (`Placed`), because a call that could come between
printing and writing would let others print. `FlushedParts` says that writing as much as
fits never changes what is pending, `Printed` and `Received` what printing and receiving
do to it.

*Ready sets.* `Fresh` says that there is at most one loop on the stack, the prompt's
(`Serving`): `Feedback` never reads again because it always finds a whole line (`Lines`),
nothing waits to be written first because output is never pending when something is
printed. Then nobody but the loop itself reads or flushes what it has found ready, and no
channel is closed in between. `Orderly` is needed: with lines that are cut, with output
printed while some is pending, or with viewers that die while they are printed to, the sets
do go stale. What `Coexistence` promises beyond that is liveness, and stays with TLC.

Not modelled: messages of several lines with their window numbers, binary blocks, seeking,
servers, jobs in the background, the terminal beyond "a key completes a line".

## 9. Settings (`UserSettings`, `Session_proofs`)

`file` is the private settings file, `session` the settings each running session has in
memory, `wanted` a history of what was last saved. `Start`, `AddItem`, `Set`, `Reset`,
`Obliterate` and `End` are the operations of `UserSettings.pm`, with the two keys of an item
(by architecture or not) and the taking over of values stored under the other one; `Replace`
is `OverwriteFile`'s rename, `Crash` may come at any time.

`Whole`: the file is always a complete one. `Persisted`: sessions that do not overlap find
each item as it was last saved. `settings` has five users: two architectures with an empty
or filled file, files from before an item's flag changed, one and two items of an extension,
and one with overlapping sessions (for `Whole`). Writing does not fail there.

**Proofs**: `AlwaysWhole` assumes only that writing does not fail; `NothingLost` assumes
`Settled`: values under keys of before a change of an item's flag are there only for users
of one architecture, and not for items of an extension that may be dropped. The invariant
ties the file to `wanted` through each running session: what it holds in memory is what was
in the file plus what it changed (`SessionsSound`), and keys of former days do not coexist
with present ones (`Clean`). Without the latter a former value could come back, which is
what happens to users who are not `Settled`.

## 10. Containers

**Graphs with maps (`GraphMaps`).** A table has edges with numbers and a free list, and the
maps attached; a map's data has buckets. Actions are the calls on graphs and maps:
`AddEdge`, `DeleteEdge`, `ClearGraph`, `SqueezeEdges`, `AssignGraph`, `AttachMap`,
`AssignMap`, `DropMap`, `WriteMap`, `WriteEdge`, each with the divorces it causes.
`NumbersExact` (numbers of edges and the free list are a partition of those given out),
`EntriesExact` (a map has an entry exactly for each edge, in buckets that exist),
`MapsStayWithGraph` (after a divorce each map is at the table of its graph),
`GraphsIndependent` (no step changes the edges of two graphs). Two graphs, two maps, three
edges with buckets of two: an edge in a second bucket, a map shared and one moved. Graphs
and maps are symmetric. `FewGaps` bounds the run: while a table has numbers on its free
list, the others have none and at most as many edges as complete three; tables with free
numbers are not copied here, so the list of one has no effect on another. Node maps and changes of nodes are not modelled.

*Proofs* (`GraphMaps_proofs`), for all finite sets of graphs and maps, any edges and any
size of the buckets, under the hypothesis `Allowed = {}`: the steps of `KnownFaults` are
not taken, since each of them breaks one of the invariants (section 12).

| theorem | statement |
|---|---|
| `GraphsSound` | `Spec => []IndInv` |
| `NumbersStayExact`, `EntriesStayExact`, `MapsAlwaysStayWithGraph` | `Spec => []NumbersExact`, `[]EntriesExact`, `[]MapsStayWithGraph` |
| `GraphsStayIndependent` | `Spec => GraphsIndependent` |
| `DivorcedSound` | what a divorce of a graph and its maps leaves behind |

`IndInv` is `WorldSound /\ Registration`. `WorldSound` says of each table with an agent that
its numbers and the free list are exactly those given out and have buckets (`Numbered`), of
tables without one that they have neither maps nor free numbers, of data attached to a table
that they have exactly the entries of its edges and buckets for *all* numbers given
(`DataSound`, stronger than `EntriesExact`: a number on the free list needs its bucket when
it is given again), and that tables and maps know each other (`Attachment`). `Registration`
is the first part of `MapsStayWithGraph`. An action is a composition of operations on worlds
and the invariant is shown operation by operation: `Leave`, `NewData`, `InitEntries`, `CopyData`
(the two iterators of `EdgeMapData::copy` meet the same edges because the copy has the
numbers of the original: `CopiedSound`), `DivorceMap`, then `NewBody`, the fold over the
registered maps (`PartedStep`, `NewBodyParted`): in between, the maps done are at the new
table and the others still at the old one. What a graph does to its own table afterwards is
of three kinds, a table replaced with the data along (`OnlyTable`), maps detached (`Reset`),
or only maps changed (`MapChanged`); `OnItsOwn`, that no other graph hosts the table and that
all others have the edges they had, makes `GraphsIndependent` follow from each.  TLC checked
`IndInv` on the instance of `graph_maps` before it was proved.

**AVL trees (`AVLTree`, `OrderedKeys`).** The three links of each node with their flag bits,
as the code keeps them; `insert_rebalance`, `remove_rebalance`, `treeify` and the searches
follow the code line by line, because the hazards are in these lines. `TreeSound`: threads,
parents, balance bits and heights agree with each other and with the list of the nodes.
`LookupsExact`: each search, in list and tree form, returns what a search through the
sequence of the keys returns. `ImplementsOrderedKeys`: to its user the tree is a sorted
sequence of entries, and `OrderedKeys` says of each operation what it does to this sequence: a
search, a copy or a move nothing, whatever links it rewrites, the others to the one entry they
are called for, at the place asked for. What the operation was is a history variable, `call`;
no action reads it, and `trees` has a VIEW without it (TLC compares every transition with
`OrderedKeys` all the same, those to states it has seen included). Three traits: up to eight single keys in any order; two keys with up to
three equal nodes each; and trees of eleven and twelve nodes, since twelve is the least
number where one removal rotates at two levels.

**Heap and shortest paths (`Heap`, `Dijkstra`).** `Heap` is modelled with the positions kept
in the elements, and once driven by clients that push, change and erase at will (six
elements, three keys: the least number where an element that fills a gap moves up), once by
`Dijkstra`, whose labels are given back to the allocator when nobody refers to them. `rise`
and `sink` are one turn of the loops of `push`, `erase_at` and `sift_down`, repeated once for
each cell; turns after the last one change nothing. The arcs of a graph are a set of
from, to and weight (`shortest_path_dijkstra` asks for no parallel edges), and those of a node are followed in any order: the code's order is that
of an adjacency tree.
`HeapSound`: order and positions. `ShortestFound`: against the least cost of all walks of at
most as many arcs as there are nodes, computed by as many rounds that add an arc to each walk.
`LabelsCounted`: a label is allocated exactly as long
as a node, the queue or another label points to it, and its counter is the number of those
who do. Graphs: all 243 weightings with 0..2 of five arcs with two detours, six of a fan
with five nodes, and an undirected triangle with a tail; every source and target, both
directions. There are six labels, one more than nodes. Deadlock is not checked: a search
comes to an end.

**Proofs** (`Folding`, `Library_proofs`): `HeapIsSound`, `LabelsAreCounted` and
`ShortestIsFound`, for every finite graph with weights that are natural numbers, any set of
elements with one more than there are nodes, and any integer keys. The hypothesis is
`Allowed = {}`: keys of queued elements are only made smaller and `solve()` is called once,
as in all uses in `src/`; with the steps of `KnownFaults` the theorems are false (section 12).

The queue: `Sound(h, k, n)` says of a heap, keys and a size what `HeapSound` says of the
state, and for every operation a lemma says that it leads from `Sound` to `Sound` and which
element has come or gone (`PushSound`, `PushAgainSound`, `UpdateTopSound`, `PopSound`,
`EraseSound`). In between one cell is free (`Holed`): the elements are those of the other
cells, ordered even across the free one (`Around`). `Rising` and `Sinking` are kept by each
turn, and a loop has ended when its turns no longer change anything, which happens before
they are used up, because each turn moves the free place up or down (`RepeatedStops`). For
`erase_at` the bottom cell is out of the tree while its element looks for a place (`Gap`).

The search: the inductive invariant `Inv` joins a `Sound` queue with nine conjuncts. A node
has the label that says so (`OneEach`); counters are exact (`Tallied`); predecessors are
never in the queue (`PredsDone`), which is why a label replaced in the queue is given back
at once, and no set of labels is closed under predecessors (`NoCycle`); a label costs what
its predecessor does and an arc more (`Rooted`); settled labels cost no more than the
current one, which costs no more than the queued (`InOrder`), so that a settled label need
not be replaced; every arc from a settled label has been followed, those in `todo` apart
(`Relaxed`); and what `result` says of the rest (`Stage`). `Grown` is the step that adds a
label, whether or not it replaces one. That no walk is cheaper than the result follows by
rounds from `Relaxed`: the walks to a node cost no less than the result or than a settled
label of it. That the result is the cost of a walk follows from `NoCycle` and `Rooted`: each
round reaches one more label, and there are no more labels than nodes. TLC checked `Inv` on
the instance of `shortest_paths` before it was proved.

## 11. What is proved and what is only checked

Proved, for all values of the constants: the properties of `SharedObject`, `AtEnd`,
`Interrupts` and `UserSettings` named above, `CountersExact`, `RunsOnlyWhenDue` and
`SuccessMeansProvided` of the scheduler without `Lost` and `Overlooked`,
`DictionaryAgrees` and `SubobjectsTied` of transactions in strict worlds,
`OutputInOrder` with the first part of `Coexistence` of the select loop, and all properties
of `GraphMaps`, `Heap` and `Dijkstra`, without the steps of `KnownFaults`. `Session_proofs`
has the proofs about `AtEnd`, `Interrupts` and `UserSettings`, `Library_proofs` those about
`Heap`, `Dijkstra` and `SharedObject`. Only model-checked, on the
instances given:

- the other properties of `Scheduler`.  `NoInternalError` also needs that a chain has no rule it
  could do without, so that the request is not reached before the end of a replay;
  `GivesUpOnlyWhenStuck` and `CheapestChain` are statements about everything the search has
  pruned;
- of `Transaction`, `CleanupTableExact`, `ChangesAreSaved`, `ReconstructionIsolated` and the
  refinement of `SnapshotStack`.  The invariant proved says where the cells, backups and gaps
  are; these properties also need what is in them, against the history: which cells were
  stored as temporary ones and, for every transaction, the view its rollback leads back to;
- `AVLTree`, which uses recursive operators (rebalancing on the way to the root), beyond the
  proof system's reach;
- liveness under fairness: `Terminates`, `EndComes`, `SignalAnswered`, and the liveness in
  `Coexistence`.

## 12. Disagreements between code and documentation

*sched_stray* (a run): a precondition evaluated out of order fails and the request is
infeasible without it: the incomplete chain is executed and 1 returned (`Scheduler.pm:1393`
against lines 1474-1475).

Seen while modelling, each reproduced by the change of a configuration named in brackets.

*Shared objects.* An alias that has lost its owner writes into a shared body
(`shared_object.h:1266` against 269-272) [`OrphanWrites`]. When a family divorces after one
member was rebound, the member's own body is counted down but never given back (`:1048`
against 278) [`Rebinding`]. A throwing constructor in `assign()` leaves the old body's
counter one too high (`:1193`) [`Throwing`].

*Scheduler.* The second rule with an infeasible shared precondition is recorded as
infeasible but stays in the graph, and is executed (`Scheduler.pm:1028` against
`Rule.pm:41`) [`Problem <- DismissedProblem`, `RunsOnlyWhenDue`]. There is one arc for each
property and rule (`:812`): a property that is an alternative in two inputs of one rule
would be counted once; no rule of the applications is like that, and `ProblemAssumption`
excludes it.

*Transactions* [`Instances <- Allowing(w, liberty)`]: a property of which there is a backup
already is stored or removed again, or several are removed at once (`BigObject.pm:221`,
"again"); one that was there at the start of a client's transaction is overwritten in it
(`:1105` against 63, "overwrite"); a scope ends, or the object is saved, in the middle of a
transaction (`:1408` against 30, "scope"); a permanent output of a rule becomes temporary
(`:1360` against 1358, "retemp"); rules for subobjects are run to try a reconstruction
(`:1358`, "feats"); an object is changed on its own while the other one has a transaction
(`:1391`, "direct"); a subobject is removed in a transaction that may be rolled back
(`:1377`, "unlink"); an interrupt during the attempt to reconstruct something
(`Rule.pm:873`, "interrupt"); the initial rules of a new subobject fail when other ones have
been committed (`BigObject.pm:276`, "partial"); a property is both temporary and permanent
("mixed"). Rules that remove their own sources (`:372`) are not modelled.

*Interrupts* [other `kinds` and `hit`]: in nested blocked sections the signal deferred in
the inner one is raised within the outer one (`interrupts.xxs:51` against 86); a deferred
signal may be raised as a second interrupt (`:71`); one deferred to the end of a command is
raised in its cleanup, and the shell is deaf to interrupts from then on; the same if the
code has caught the exception (`Shell.pm:153`) or a line was canceled before (`:151`); a
rule that never looks at signals is not halted (`Rule.pm:847`).

*Select loop* [`ReadySetsFresh` without `Orderly`, in each of the worlds `Cutting`,
`Bursting`, `Dying`]: `Collaborative::WRITE` (`Pipe.pm:352`) does not take its object off
the arguments, so that text printed while output is pending and nobody is ready is lost,
though its length is returned; a loop that runs within a callback leaves the outer one's
ready set stale, which then reads from a channel that is empty or calls a method of one that
is closed; a viewer that ends with output pending is such a case without any nesting
(`:110-115`). A key that completes the line in an inner loop leaves the outer one waiting
for another key, for which there is no handler.

*Settings*: the changes of the session that ends first are lost when two overlap
(`UserSettings.pm:487`) [`Persisted` without `~Overlap`]; a write that fails leaves a
truncated file in place of the old one (`OverwriteFile.pm:77`, `UserSettings.pm:513`)
[`Fails = TRUE`]; with two architectures, a change of an item's flag and back brings a
former value back after a reset (`:101-115`, `:500-506`) [users who are not `Settled`].

*Graphs* [`Allowed`]: a map whose data nobody else holds is moved to the copy of the table,
where edges are not numbered for it, so that it has no entries for new edges
(`Graph.h:3378`, "follow": `EntriesExact`); a table with free numbers is copied without the
list of these (`:665`, "gaps": `EntriesExact`); squeezing the edges of a graph whose maps
are gone keeps the list although all numbers are new ("squeeze": `NumbersExact`); a map that
creates edges does so in the table it shares with other graphs (`:3140`, "through":
`GraphsIndependent`). *AVL trees* [`Allowed`]: `update_node` in list form loses the order
(`AVL.h:1494-1499`, "listupdate"); a hint that is the iterator returned by an insertion into
a list turned into a tree (`:649-655`, "freshhint"). *Heap* [`Allowed`]: an element pushed
again with a greater key is overwritten by the one below before it is moved there (`Heap.h:164`
and 168, called from 147 and 85, against the comments at 76 and 82, "increase": `HeapSound`); solving twice with one `Dijkstra` object finds the labels of the first
time ("again": `ShortestFound`, `LabelsCounted`).

## 13. Not modelled, and why

- *Numbers, linear algebra, serialization, visualization, applications*: algorithms on
  data without state that outlives a call, checked well by tests; of the applications only
  shortest paths, as the user of `Heap`.
- *Perl language extensions, object types, keywords*: they work on the interpreter's own
  structures (op trees, stashes), of which `src/` has no definition.
- *Sparse tables, facet lists, partitions, allocators, permutations, preferences*: in reach, and next
  in the plan.
- *Bundled software*: external.

## 14. Running

    tlc -config shared_full.cfg MCSharedObject       (also shared_disciplined.cfg)
    tlc -config scheduler.cfg MCScheduler            (also sched_stray.cfg, which fails)
    tlc -config transactions.cfg MCTransaction
    tlc -config atend.cfg AtEnd
    tlc -config interrupts.cfg MCInterrupts
    tlc -config selector.cfg MCSelector
    tlc -config settings.cfg MCUserSettings
    tlc -config graph_maps.cfg MCGraphMaps
    tlc -config trees.cfg MCAVLTree
    tlc -config shortest_paths.cfg MCDijkstra
    tlapm Library_proofs.tla                         (and the other *_proofs modules)
    tlapm Folding.tla

Each run takes at most a few minutes. `PROJECT.json` maps each definition to the lines it
models and names, for every checked property, a mutation of the code that violates it.
