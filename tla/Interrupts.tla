----------------------------- MODULE Interrupts -----------------------------
(* The interrupt signal in the interactive shell (interrupts.xxs, Shell.pm).  What a    *)
(* signal does depends on the handler in force, which `local interrupts(...)` changes   *)
(* for a scope: it breaks the running code at one of the next operations, is deferred   *)
(* to the end of the scope, sets a flag, or is ignored.                                 *)
EXTENDS Naturals, Sequences, SequencesExt

CONSTANTS
  Circumstances,      \* what commands do and where signals arrive: a set of records of
                      \*   kinds    the scopes a command opens: "block", "rule", "eval"
                      \*   hit      where signals arrive: the scopes, "input" and "between"
                      \*   nesting  there are blocked scopes within blocked scopes
                      \*   prompt   no signal arrives after the last operation of a scope
                      \*   errors   code fails for reasons of its own
                      \*   depth    a bound on the scopes
  Halting,            \* the scopes whose code comes to its end
  MaxSignals          \* a bound

ASSUME Scopes == \A c \in Circumstances : c.kinds \subseteq {"block", "rule", "eval"}
ASSUME Bounds == MaxSignals \in Nat /\ \A c \in Circumstances : c.depth \in Nat

VARIABLES
  at,                \* the shell: "input", "busy", "between" two commands or "over"
  stack,             \* the scopes open, each with its deferred signal
  pending,           \* PL_psig_pend: to be raised at one of the next operations
  state,             \* $Interrupts::state: an interrupt is being handled
  exc,               \* the exception on its way up
  err,               \* $@ as the shell will see it
  input_interrupted, \* the flag
  signals,           \* signals sent so far
  world              \* the circumstances, which never change

vars == <<at, stack, pending, state, exc, err, input_interrupted, signals, world>>

Kinds == world.kinds
Hit == world.hit
Nesting == world.nesting
Prompt == world.prompt
Errors == world.errors
MaxDepth == world.depth

Scope(k) == [kind |-> k, deferred |-> FALSE]
Top == stack[Len(stack)].kind

Pop == Front(stack)

(* The scopes that set a handler, and the handler in force                              *)
Setting == {n \in DOMAIN stack : stack[n].kind \notin {"eval", "rollback"}}
Owner == Max(Setting)

\* Mutant of Handler: the shell does not disable interrupts between the commands.
Handler_Idle ==
  IF at # "busy" THEN IF at = "input" THEN "flag" ELSE "enable"
  ELSE IF stack[Owner].kind \in {"block", "cleanup"} THEN "block" ELSE "enable"

Handler ==
  IF at # "busy" THEN IF at = "input" THEN "flag" ELSE "disable"
  ELSE IF stack[Owner].kind \in {"block", "cleanup"} THEN "block" ELSE "enable"

Place == IF at = "busy" THEN stack[Owner].kind ELSE at

\* Mutants of Signal: no check of the state; no deferral.
Signal_Again ==
  /\ signals < MaxSignals /\ Place \in Hit /\ (Prompt => exc = "none") /\ Handler = "enable"
  /\ signals' = signals + 1 /\ pending' = TRUE
  /\ UNCHANGED <<at, stack, state, exc, err, input_interrupted, world>>

Signal_Undeferred ==
  /\ signals < MaxSignals /\ Place \in Hit /\ (Prompt => exc = "none") /\ state = 0
  /\ Handler \in {"enable", "block"}
  /\ signals' = signals + 1 /\ pending' = TRUE
  /\ UNCHANGED <<at, stack, state, exc, err, input_interrupted, world>>

(* The signal handler.  While an interrupt is being handled a signal changes nothing.   *)
Signal ==
  /\ signals < MaxSignals /\ Place \in Hit /\ state = 0
  /\ Prompt => exc = "none"
  /\ signals' = signals + 1
  /\ \/ Handler = "flag" /\ input_interrupted' = TRUE /\ UNCHANGED <<stack, pending>>
     \/ /\ Handler = "block" /\ stack' = [stack EXCEPT ![Owner].deferred = TRUE]
        /\ UNCHANGED <<input_interrupted, pending>>
     \/ Handler = "enable" /\ pending' = TRUE /\ UNCHANGED <<stack, input_interrupted>>
     \/ Handler = "disable" /\ UNCHANGED <<stack, pending, input_interrupted>>
  /\ UNCHANGED <<at, state, exc, err, world>>

(* A line is complete, or reading is given up because of the flag.                      *)
ReadLine ==
  /\ at = "input" /\ at' = "busy" /\ stack' = <<Scope("command")>>
  /\ UNCHANGED <<pending, state, exc, err, input_interrupted, signals, world>>

Canceled ==
  /\ at = "input" /\ input_interrupted
  /\ at' = "busy" /\ stack' = <<Scope("cleanup")>> /\ err' = "error"
  /\ UNCHANGED <<pending, state, exc, input_interrupted, signals, world>>

Running == at = "busy" /\ exc = "none" /\ (Prompt => ~pending)

(* Neither a rollback nor the end of a command runs rules, or fails.                    *)
Cleaning == \E f \in ToSet(stack) : f.kind \in {"rollback", "cleanup"}

(* Rule::execute opens a blocked scope and in it the rule's code, in an eval, enabled.  *)
Enter(k) ==
  /\ Running /\ Len(stack) < MaxDepth /\ k \in Kinds
  /\ k = "rule" => Top = "block"
  /\ k = "block" => (Handler = "enable" \/ Nesting)
  /\ Cleaning => k = "block"
  /\ stack' = Append(stack, Scope(k))
  /\ UNCHANGED <<at, pending, state, exc, err, input_interrupted, signals, world>>

(* The end of a scope puts the handler of the enclosing one in force.  A deferred       *)
(* signal becomes pending as the handler is freed.                                      *)
\* Mutant of Deferred: the deferred signal is freed with the handler.
Deferred_Lost == UNCHANGED pending

Deferred == pending' = (pending \/ stack[Len(stack)].deferred)

Finish(e) ==
  /\ stack' = <<Scope("cleanup")>> /\ err' = e /\ exc' = "none"
  /\ UNCHANGED <<at, pending>>

Leave ==
  /\ Running
  /\ \/ /\ Top \in {"block", "rule", "eval"} /\ stack' = Pop /\ Deferred
        /\ UNCHANGED <<at, exc, err>>
     \/ Top = "rollback" /\ stack' = Pop /\ exc' = "Interrupted" /\ UNCHANGED <<at, pending, err>>
     \/ Top = "command" /\ Finish("none")
     \/ /\ Top = "cleanup" /\ stack' = Pop /\ Deferred
        /\ at' = IF Len(stack) = 1 THEN "between" ELSE at
        /\ UNCHANGED <<exc, err>>
  /\ UNCHANGED <<state, input_interrupted, signals, world>>

Fail ==
  /\ Errors /\ Running /\ ~Cleaning
  /\ exc' = "error"
  /\ UNCHANGED <<at, stack, pending, state, err, input_interrupted, signals, world>>

(* safe_interrupt(): the exception is raised wherever the interpreter is.  Outside any  *)
(* command nothing catches it.                                                          *)
Dispatch ==
  /\ pending /\ pending' = FALSE /\ at # "over" /\ exc = "none" /\ state' = 1
  /\ \/ at = "busy" /\ exc' = "Interrupted" /\ UNCHANGED <<at, stack, err>>
     \/ at = "between" /\ at' = "over" /\ UNCHANGED <<stack, exc, err>>
     \/ /\ at = "input" /\ at' = "busy" /\ stack' = <<Scope("cleanup")>> /\ err' = "Interrupted"
        /\ UNCHANGED exc
  /\ UNCHANGED <<input_interrupted, signals, world>>

(* The exception leaves a scope: an eval catches it; a rule is rolled back in the       *)
(* blocked scope around it, where the failure ends and the interrupt goes on.  Errors   *)
(* in cleanup are reported there.                                                       *)
Unwind ==
  /\ at = "busy" /\ exc # "none"
  /\ \/ Top \in {"block", "rollback"} /\ stack' = Pop /\ Deferred /\ UNCHANGED <<exc, err>>
     \/ /\ Top = "rule" /\ exc' = "none"
        /\ stack' = IF exc = "error" THEN Pop ELSE Append(Pop, Scope("rollback"))
        /\ UNCHANGED <<pending, err>>
     \/ Top = "eval" /\ stack' = Pop /\ exc' = "none" /\ UNCHANGED <<pending, err>>
     \/ Top = "command" /\ Finish(exc)
     \/ Top = "cleanup" /\ exc' = "none" /\ UNCHANGED <<stack, pending, err>>
  /\ UNCHANGED <<at, state, input_interrupted, signals, world>>

\* Mutant of Look: only the flag is reset.
Look_Flag ==
  /\ at = "between" /\ at' = "input" /\ err' = "none"
  /\ input_interrupted' = (input_interrupted /\ err = "none")
  /\ UNCHANGED <<stack, pending, state, exc, signals, world>>

(* The shell looks at what the command has left.                                        *)
Look ==
  /\ at = "between" /\ at' = "input" /\ err' = "none"
  /\ input_interrupted' = (input_interrupted /\ err = "none")
  /\ state' = IF err # "none" /\ ~input_interrupted THEN 0 ELSE state
  /\ UNCHANGED <<stack, pending, exc, signals, world>>

Done == at = "over" /\ UNCHANGED vars

Init ==
  /\ world \in Circumstances
  /\ at = "input" /\ stack = <<>> /\ pending = FALSE /\ state = 0
  /\ exc = "none" /\ err = "none" /\ input_interrupted = FALSE /\ signals = 0

Next ==
  \/ Signal \/ ReadLine \/ Canceled \/ \E k \in Kinds : Enter(k)
  \/ Leave \/ Fail \/ Dispatch \/ Unwind \/ Look \/ Done

Spec == Init /\ [][Next]_vars

(* The interpreter looks for pending signals again and again, and does not stop amid    *)
(* an exception; the code of the scopes in Halting comes to its end, though it may      *)
(* open others on the way again and again.                                              *)
FairSpec ==
  /\ Spec /\ SF_vars(Dispatch) /\ WF_vars(Unwind) /\ WF_vars(Look)
  /\ \A d \in 1..Max({c.depth : c \in Circumstances}) + 2 : SF_vars(Leave /\ Len(stack) = d /\ Top \in Halting)

-----------------------------------------------------------------------------
(* Circumstances in which interrupts are in order: no signal arrives after the last      *)
(* operation of a scope, or while temporary properties are cleaned up; and if signals    *)
(* are deferred, blocked scopes have neither enabled nor blocked ones in them, and their *)
(* code does not fail.                                                                   *)
Orderly ==
  /\ Prompt /\ "cleanup" \notin Hit
  /\ "block" \notin Hit \/ (~Nesting /\ "rule" \notin Kinds /\ ~Errors)

(* Nothing is broken off in a blocked scope, neither a commit nor a rollback, nor is an  *)
(* interrupt raised while another one is being handled.                                  *)
RaisedInTurn == [][Orderly /\ pending /\ ~pending' => state = 0 /\ Handler # "block"]_vars

(* The session outlives the interrupts, unless they are deferred to its very end.       *)
SessionSurvives == Prompt /\ "cleanup" \notin Hit => at # "over"

(* When a command is read, signals are heard: unless the code has caught the exception, *)
(* or the flag for a canceled line hides it from the shell.                             *)
Heard == Orderly /\ "eval" \notin Kinds /\ "input" \notin Hit => (at = "input" => state = 0)

(* A signal received is raised, be it deferred before.                                  *)
SignalAnswered ==
  (\E f \in ToSet(stack) : f.deferred) \/ pending ~> (exc = "Interrupted" \/ at = "over" \/ err = "Interrupted")
=============================================================================
