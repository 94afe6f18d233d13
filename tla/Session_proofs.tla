--------------------------- MODULE Session_proofs ---------------------------
(***************************************************************************)
(* Proofs about the shell's session: what the interrupt signal does while  *)
(* commands run (Interrupts), the actions at its end (AtEnd), and the      *)
(* settings that are saved by one of these (UserSettings).  The modules    *)
(* share nothing but the session; each has an invariant of its own.        *)
(***************************************************************************)
EXTENDS Interrupts, AtEnd, UserSettings, TLAPS, SequenceTheorems, WellFoundedInduction

(***************************************************************************)
(* Interrupts, for any circumstances: what commands do, how deeply they    *)
(* nest, which code halts and how many signals arrive.                     *)
(***************************************************************************)
Exceptions == {"none", "error", "Interrupted"}
AllKinds == {"command", "cleanup", "rollback", "block", "rule", "eval"}
Frames == [kind : AllKinds, deferred : BOOLEAN]

TypeOK ==
  /\ at \in {"input", "busy", "between", "over"} /\ stack \in Seq(Frames)
  /\ pending \in BOOLEAN /\ state \in {0, 1} /\ exc \in Exceptions /\ err \in Exceptions
  /\ input_interrupted \in BOOLEAN /\ signals \in Nat /\ world \in Circumstances

\* The outermost scope is a command or its cleanup; in a cleanup there is nothing but blocked
\* scopes.
Shape ==
  /\ at = "busy" <=> Len(stack) > 0
  /\ Len(stack) > 0 => stack[1].kind \in {"command", "cleanup"}
  /\ exc # "none" => at = "busy"
  /\ \A n \in 2..Len(stack) :
       /\ stack[n].kind \in Kinds \cup {"rollback"}
       /\ stack[n].kind = "rollback" => "rule" \in Kinds
       /\ stack[1].kind = "cleanup" => stack[n].kind = "block"

(***************************************************************************)
(* A pending signal finds a command at work: none is deferred to the end   *)
(* of the cleanup.                                                         *)
(***************************************************************************)
Lasting ==
  Prompt /\ "cleanup" \notin Hit =>
    /\ at # "over" /\ (pending => at = "busy")
    /\ \A n \in 1..Len(stack) : stack[n].deferred => stack[n].kind # "cleanup"

(***************************************************************************)
(* A pending signal finds its handler enabled, no exception on its way and *)
(* no interrupt being handled.  In the first case because no signal is     *)
(* ever deferred, ...                                                      *)
(***************************************************************************)
Undeferred ==
  Prompt /\ "cleanup" \notin Hit /\ "block" \notin Hit =>
    /\ \A n \in 1..Len(stack) : ~stack[n].deferred
    /\ pending => exc = "none" /\ state = 0 /\ Handler = "enable"

(***************************************************************************)
(* ... in the second one because there is one blocked scope at a time, and *)
(* nothing is raised as long as a signal is deferred in it.                *)
(***************************************************************************)
OneBlock ==
  Orderly /\ "block" \in Hit =>
    /\ \A m, n \in 2..Len(stack) : stack[m].kind = "block" /\ stack[n].kind = "block" => m = n
    /\ Len(stack) > 0 /\ stack[1].kind = "cleanup" => Len(stack) = 1
    /\ \A n \in 1..Len(stack) : stack[n].deferred =>
         stack[n].kind = "block" /\ state = 0 /\ exc = "none"
    /\ pending \/ exc # "none" => \A n \in 1..Len(stack) : stack[n].kind \notin {"block", "cleanup"}
    /\ pending => state = 0 /\ exc = "none"
    /\ exc # "error"

(***************************************************************************)
(* While an interrupt is being handled its exception is on its way up,     *)
(* held up by a rollback, or has reached the shell.                        *)
(***************************************************************************)
OnItsWay ==
  Orderly /\ "eval" \notin Kinds /\ "input" \notin Hit =>
    /\ ~input_interrupted
    /\ exc = "error" => state = 0
    /\ exc # "none" => stack[1].kind # "cleanup"
    /\ state = 1 =>
         /\ at # "input"
         /\ at = "between" => err # "none"
         /\ at = "busy" /\ exc = "none" =>
              \/ \E n \in 2..Len(stack) : stack[n].kind = "rollback"
              \/ stack[1].kind = "cleanup" /\ err # "none"

IInv == TypeOK /\ Shape /\ Lasting /\ Undeferred /\ OneBlock /\ OnItsWay

-----------------------------------------------------------------------------
(* The stack of scopes *)

LEMMA Greatest ==
  ASSUME NEW n \in Nat, NEW T, T \subseteq 0..n, T # {}
  PROVE  \E x \in T : \A y \in T : y <= x
<1> DEFINE U == {n - x : x \in T}
<1>1. U \subseteq Nat /\ U # {}
  <2>1. \A x \in T : x \in Nat /\ n - x \in Nat
    OBVIOUS
  <2>2. PICK x \in T : TRUE
    OBVIOUS
  <2>3. n - x \in U
    OBVIOUS
  <2> QED
    BY <2>1, <2>3
<1>2. PICK u \in U : \A v \in U : <<v, u>> \notin OpToRel(<, Nat)
  BY <1>1, NatLessThanWellFounded, WFMin
<1>3. \A v \in U : u <= v
  <2> SUFFICES ASSUME NEW v \in U, v < u PROVE FALSE
    BY <1>1
  <2>1. <<v, u>> \in OpToRel(<, Nat)
    BY <1>1 DEF OpToRel
  <2> QED
    BY <1>2, <2>1
<1>4. PICK x \in T : u = n - x
  BY <1>2
<1>5. \A y \in T : y <= x
  <2> SUFFICES ASSUME NEW y \in T PROVE y <= x
    OBVIOUS
  <2>1. n - y \in U
    OBVIOUS
  <2>2. n - x <= n - y
    BY <1>3, <1>4, <2>1
  <2>3. x \in Nat /\ y \in Nat /\ n \in Nat
    OBVIOUS
  <2> HIDE DEF U
  <2> QED
    BY <2>2, <2>3
<1> QED
  BY <1>5

LEMMA OwnerFacts ==
  ASSUME TypeOK, Shape, at = "busy"
  PROVE  /\ Owner \in 1..Len(stack)
         /\ stack[Owner].kind \notin {"eval", "rollback"}
         /\ \A n \in 1..Len(stack) : stack[n].kind \notin {"eval", "rollback"} => n <= Owner
<1>1. Len(stack) \in Nat /\ DOMAIN stack = 1..Len(stack)
  BY LenProperties DEF TypeOK
<1>2. 1 \in Setting
  BY <1>1 DEF Setting, Shape
<1>3. Setting \subseteq 1..Len(stack)
  BY <1>1 DEF Setting
<1>4. \E x \in Setting : \A y \in Setting : y <= x
  <2>1. Setting \subseteq 0..Len(stack)
    BY <1>1, <1>3
  <2> QED
    BY <1>1, <1>2, <2>1, Greatest
<1>5. Owner \in Setting /\ \A y \in Setting : Owner >= y
  <2>1. \E x \in Setting : \A y \in Setting : x >= y
    BY <1>1, <1>3, <1>4
  <2> QED
    BY <2>1 DEF Owner, Max
<1> QED
  BY <1>1, <1>3, <1>5 DEF Setting

LEMMA PopFacts ==
  ASSUME TypeOK, Len(stack) > 0
  PROVE  /\ Pop \in Seq(Frames) /\ Len(Pop) = Len(stack) - 1 /\ Len(stack) \in Nat
         /\ \A n \in 1..Len(Pop) : Pop[n] = stack[n]
<1>1. Len(stack) \in Nat /\ \A i \in 1..(Len(stack) - 1) : stack[i] \in Frames
  BY ElementOfSeq, LenProperties DEF TypeOK
<1>2. /\ SubSeq(stack, 1, Len(stack) - 1) \in Seq(Frames)
      /\ Len(SubSeq(stack, 1, Len(stack) - 1)) = Len(stack) - 1
      /\ \A i \in 1..(Len(stack) - 1) : SubSeq(stack, 1, Len(stack) - 1)[i] = stack[i]
  <2> DEFINE m == Len(stack) - 1
  <2>1. m \in Int /\ 1 \in Int /\ \A i \in 1..m : stack[i] \in Frames
    BY <1>1
  <2>2. /\ SubSeq(stack, 1, m) \in Seq(Frames)
        /\ Len(SubSeq(stack, 1, m)) = IF 1 <= m THEN m - 1 + 1 ELSE 0
        /\ \A i \in 1..(m - 1 + 1) : SubSeq(stack, 1, m)[i] = stack[1 + i - 1]
    <3> HIDE DEF m
    <3> QED BY <2>1, SubSeqProperties
  <2>3. m \in Nat
    BY <1>1
  <2>4. /\ Len(SubSeq(stack, 1, m)) = m
        /\ \A i \in 1..m : SubSeq(stack, 1, m)[i] = stack[i]
    <3> HIDE DEF m
    <3>1. m - 1 + 1 = m
      BY <2>3
    <3>2. (1 <= m) \/ m = 0
      BY <2>3
    <3>3. Len(SubSeq(stack, 1, m)) = m
      BY <2>2, <3>1, <3>2
    <3>4. \A i \in 1..m : 1 + i - 1 = i
      BY <2>3
    <3> QED
      BY <2>2, <3>1, <3>3, <3>4
  <2> QED
    BY <2>2, <2>4
<1> QED
  BY <1>1, <1>2 DEF Pop, Front

LEMMA PushFacts ==
  ASSUME NEW s \in Seq(Frames), NEW k \in AllKinds
  PROVE  /\ Scope(k) \in Frames /\ Scope(k).kind = k /\ ~Scope(k).deferred
         /\ Append(s, Scope(k)) \in Seq(Frames)
         /\ Len(s) \in Nat /\ Len(Append(s, Scope(k))) = Len(s) + 1
         /\ Append(s, Scope(k))[Len(s) + 1] = Scope(k)
         /\ \A n \in 1..Len(s) : Append(s, Scope(k))[n] = s[n]
<1>1. Scope(k) \in Frames /\ Scope(k).kind = k /\ ~Scope(k).deferred
  BY DEF Scope, Frames
<1> QED
  BY <1>1, AppendProperties, LenProperties

LEMMA SingleFacts ==
  ASSUME NEW k \in AllKinds
  PROVE  /\ <<Scope(k)>> \in Seq(Frames) /\ Len(<<Scope(k)>>) = 1
         /\ <<Scope(k)>>[1].kind = k /\ ~<<Scope(k)>>[1].deferred
  BY DEF Scope, Frames

\* In the cleanup everything is blocked.
LEMMA CleanupBlocks ==
  ASSUME TypeOK, Shape, at = "busy", stack[1].kind = "cleanup"
  PROVE  Handler = "block"
<1>1. Owner \in 1..Len(stack) /\ Len(stack) \in Nat
  BY OwnerFacts, LenProperties DEF TypeOK
<1>2. stack[Owner].kind \in {"block", "cleanup"}
  BY <1>1 DEF Shape
<1> QED
  BY <1>2 DEF Handler

\* A pending signal is going to be raised where it may be.
LEMMA Raisable ==
  ASSUME IInv, Orderly, pending
  PROVE  /\ at = "busy" /\ exc = "none" /\ state = 0 /\ Handler = "enable"
         /\ stack[1].kind # "cleanup"
<1>1. at = "busy"
  BY DEF IInv, Lasting, Orderly
<1>2. exc = "none" /\ state = 0 /\ Handler = "enable"
  <2>1. CASE "block" \notin Hit
    BY <2>1 DEF IInv, Undeferred, Orderly
  <2>2. CASE "block" \in Hit
    BY <1>1, <2>2, OwnerFacts DEF IInv, OneBlock, Handler
  <2> QED
    BY <2>1, <2>2
<1>3. stack[1].kind # "cleanup"
  BY <1>1, <1>2, CleanupBlocks DEF IInv
<1> QED
  BY <1>1, <1>2, <1>3

\* In circumstances without rules, an enabled handler means that nothing is blocked.
LEMMA FreeOfBlocks ==
  ASSUME IInv, Orderly, "block" \in Hit, at = "busy", Handler = "enable"
  PROVE  \A n \in 1..Len(stack) : stack[n].kind \notin {"block", "cleanup"}
<1>1. Len(stack) \in Nat /\ Len(stack) > 0
  BY LenProperties DEF IInv, TypeOK, Shape
<1>2. stack[Owner].kind \notin {"block", "cleanup"} /\ Owner \in 1..Len(stack)
      /\ \A n \in 1..Len(stack) : stack[n].kind \notin {"eval", "rollback"} => n <= Owner
  BY OwnerFacts DEF Handler, IInv
<1>3. stack[1].kind # "cleanup"
  BY CleanupBlocks DEF IInv
<1>4. \A n \in 1..Len(stack) : n # 1 => stack[n].kind \in {"block", "eval"}
  BY <1>1, Scopes DEF IInv, Shape, TypeOK, Kinds, Orderly
<1>5. \A n \in 1..Len(stack) : stack[n].kind # "block"
  <2> SUFFICES ASSUME NEW n \in 1..Len(stack), stack[n].kind = "block" PROVE FALSE
    OBVIOUS
  <2>1. n <= Owner /\ n # 1
    BY <1>1, <1>2 DEF IInv, Shape
  <2>2. stack[Owner].kind \in {"block", "eval"}
    BY <1>1, <1>2, <1>4, <2>1
  <2> QED
    BY <1>1, <1>2, <2>2, OwnerFacts DEF IInv
<1> QED
  BY <1>1, <1>3, <1>4, <1>5

-----------------------------------------------------------------------------
(* The invariant holds initially and is preserved *)

LEMMA InitIInv == Init => IInv
<1> SUFFICES ASSUME Init PROVE IInv
  OBVIOUS
<1>1. TypeOK /\ Len(stack) = 0
  BY EmptySeq DEF Init, TypeOK, Exceptions
<1> QED
  BY <1>1 DEF Init, IInv, Shape, Lasting, Undeferred, OneBlock, OnItsWay

\* A signal deferred leaves the scopes as they are.
LEMMA DeferFacts ==
  ASSUME TypeOK, Shape, at = "busy"
  PROVE  LET s == [stack EXCEPT ![Owner].deferred = TRUE]
         IN  /\ s \in Seq(Frames) /\ Len(s) = Len(stack)
             /\ \A n \in 1..Len(stack) :
                  s[n].kind = stack[n].kind /\ (s[n].deferred <=> n = Owner \/ stack[n].deferred)
<1> DEFINE s == [stack EXCEPT ![Owner].deferred = TRUE]
           f == [stack[Owner] EXCEPT !.deferred = TRUE]
<1>1. Owner \in 1..Len(stack)
  BY OwnerFacts
<1>2. \A n \in 1..Len(stack) : stack[n] \in Frames
  BY ElementOfSeq DEF TypeOK
<1>3. f \in Frames /\ f.kind = stack[Owner].kind /\ f.deferred
  BY <1>1, <1>2 DEF Frames
<1>4. s = [stack EXCEPT ![Owner] = f]
  OBVIOUS
<1>5. /\ s \in Seq(Frames) /\ Len(s) = Len(stack)
      /\ \A n \in 1..Len(stack) : s[n] = IF n = Owner THEN f ELSE stack[n]
  <2> HIDE DEF f, s
  <2>1. stack \in Seq(Frames)
    BY DEF TypeOK
  <2>2. /\ [stack EXCEPT ![Owner] = f] \in Seq(Frames) /\ Len([stack EXCEPT ![Owner] = f]) = Len(stack)
        /\ \A n \in 1..Len(stack) : [stack EXCEPT ![Owner] = f][n] = IF n = Owner THEN f ELSE stack[n]
    BY <1>1, <1>3, <2>1, ExceptSeq
  <2> QED
    BY <1>4, <2>2
<1> QED
  BY <1>1, <1>2, <1>3, <1>5 DEF Frames

LEMMA SignalDeferred ==
  ASSUME IInv, Signal, stack' # stack
  PROVE  IInv'
<1>1. /\ at = "busy" /\ Handler = "block" /\ Place \in Hit /\ state = 0
      /\ stack' = [stack EXCEPT ![Owner].deferred = TRUE] /\ (Prompt => exc = "none")
      /\ UNCHANGED <<at, pending, state, exc, err, input_interrupted, world>>
      /\ signals' = signals + 1
  BY DEF Signal, Handler
<1>2. stack[Owner].kind \in {"block", "cleanup"} /\ stack[Owner].kind \in Hit
  BY <1>1 DEF Handler, Place
<1>3. /\ stack' \in Seq(Frames) /\ Len(stack') = Len(stack)
      /\ \A n \in 1..Len(stack) : /\ stack'[n].kind = stack[n].kind
                                 /\ stack'[n].deferred <=> n = Owner \/ stack[n].deferred
  BY <1>1, DeferFacts DEF IInv
<1>4. Owner \in 1..Len(stack) /\ Len(stack) \in Nat
  BY <1>1, OwnerFacts, LenProperties DEF IInv, TypeOK
<1>5. /\ Hit' = Hit /\ Kinds' = Kinds /\ Prompt' = Prompt /\ Orderly' = Orderly
  BY <1>1 DEF Hit, Kinds, Prompt, Orderly, Nesting, Errors
<1>6. TypeOK'
  BY <1>1, <1>3 DEF IInv, TypeOK
<1>7. Shape'
  BY <1>1, <1>3, <1>4, <1>5 DEF IInv, Shape
<1>8. Lasting'
  BY <1>1, <1>2, <1>3, <1>5 DEF IInv, Lasting
<1>9. Undeferred'
  BY <1>1, <1>2, <1>5 DEF IInv, Undeferred
<1>10. OneBlock'
  <2> SUFFICES ASSUME Orderly, "block" \in Hit
               PROVE  OneBlock'
    BY <1>5 DEF OneBlock
  <2>1. ~pending
    BY <1>1, Raisable
  <2>2. "cleanup" \notin Hit
    BY DEF Orderly
  <2> QED
    BY <1>1, <1>2, <1>3, <1>4, <1>5, <2>1, <2>2 DEF IInv, OneBlock, Orderly
<1>11. OnItsWay'
  BY <1>1, <1>3, <1>4, <1>5 DEF IInv, OnItsWay
<1> QED
  BY <1>6, <1>7, <1>8, <1>9, <1>10, <1>11 DEF IInv

LEMMA SignalElse ==
  ASSUME IInv, Signal, stack' = stack
  PROVE  IInv'
<1>1. /\ UNCHANGED <<at, stack, state, exc, err, world>> /\ signals' = signals + 1
      /\ Place \in Hit /\ state = 0 /\ (Prompt => exc = "none")
  BY DEF Signal
<1>2. /\ Hit' = Hit /\ Kinds' = Kinds /\ Prompt' = Prompt /\ Orderly' = Orderly
      /\ Owner' = Owner /\ Handler' = Handler
  BY <1>1 DEF Hit, Kinds, Prompt, Orderly, Nesting, Errors, Owner, Handler, Setting
<1>3. pending' \in BOOLEAN /\ (pending' = pending \/ (pending' /\ Handler = "enable"))
  BY DEF Signal, IInv, TypeOK
<1>4. input_interrupted' \in BOOLEAN /\ ("input" \notin Hit => input_interrupted' = input_interrupted)
  BY DEF Signal, IInv, TypeOK, Handler, Place
<1>5. Handler = "enable" => at = "busy"
  BY DEF Handler
<1>6. TypeOK'
  BY <1>1, <1>3, <1>4 DEF IInv, TypeOK
<1>7. Shape'
  BY <1>1, <1>2 DEF IInv, Shape
<1>8. Lasting'
  BY <1>1, <1>2, <1>3, <1>5 DEF IInv, Lasting
<1>9. Undeferred'
  BY <1>1, <1>2, <1>3 DEF IInv, Undeferred
<1>10. OneBlock'
  <2> SUFFICES ASSUME Orderly, "block" \in Hit
               PROVE  OneBlock'
    BY <1>2 DEF OneBlock
  <2>1. CASE pending' = pending
    BY <1>1, <1>2, <2>1 DEF IInv, OneBlock
  <2>2. CASE Handler = "enable"
    <3>1. \A n \in 1..Len(stack) : stack[n].kind \notin {"block", "cleanup"}
      BY <2>2, <1>5, FreeOfBlocks
    <3> QED
      BY <1>1, <1>2, <2>2, <3>1 DEF IInv, OneBlock, Orderly
  <2> QED
    BY <1>3, <2>1, <2>2
<1>11. OnItsWay'
  BY <1>1, <1>2, <1>4 DEF IInv, OnItsWay
<1> QED
  BY <1>6, <1>7, <1>8, <1>9, <1>10, <1>11 DEF IInv

LEMMA ReadLineStep ==
  ASSUME IInv, ReadLine \/ Canceled
  PROVE  IInv'
<1>1. /\ at = "input" /\ at' = "busy" /\ UNCHANGED <<pending, state, exc, input_interrupted, signals, world>>
      /\ err' \in Exceptions
  BY DEF ReadLine, Canceled, IInv, TypeOK, Exceptions
<1>2. \E k \in {"command", "cleanup"} : stack' = <<Scope(k)>> /\ (k = "cleanup" => input_interrupted)
  BY DEF ReadLine, Canceled
<1>3. /\ stack' \in Seq(Frames) /\ Len(stack') = 1 /\ ~stack'[1].deferred
      /\ stack'[1].kind \in {"command", "cleanup"} /\ (stack'[1].kind = "cleanup" => input_interrupted)
  BY <1>2, SingleFacts DEF AllKinds
<1>4. /\ Hit' = Hit /\ Kinds' = Kinds /\ Prompt' = Prompt /\ Orderly' = Orderly
  BY <1>1 DEF Hit, Kinds, Prompt, Orderly, Nesting, Errors
<1>5. exc = "none" /\ (Prompt /\ "cleanup" \notin Hit => ~pending)
  BY <1>1 DEF IInv, Shape, Lasting
<1>6. TypeOK'
  BY <1>1, <1>3 DEF IInv, TypeOK
<1>7. Shape'
  BY <1>1, <1>3, <1>5 DEF Shape
<1>8. Lasting'
  BY <1>1, <1>3, <1>4 DEF Lasting
<1>9. Undeferred'
  BY <1>1, <1>3, <1>4, <1>5 DEF Undeferred
<1>10. OneBlock'
  BY <1>1, <1>3, <1>4, <1>5 DEF OneBlock, Orderly
<1>11. OnItsWay'
  BY <1>1, <1>3, <1>4, <1>5 DEF OnItsWay, IInv, TypeOK
<1> QED
  BY <1>6, <1>7, <1>8, <1>9, <1>10, <1>11 DEF IInv

LEMMA EnterStep ==
  ASSUME IInv, NEW k \in Kinds, Enter(k)
  PROVE  IInv'
<1>1. /\ at = "busy" /\ exc = "none" /\ (Prompt => ~pending) /\ stack' = Append(stack, Scope(k))
      /\ UNCHANGED <<at, pending, state, exc, err, input_interrupted, signals, world>>
      /\ (k = "block" => Handler = "enable" \/ Nesting) /\ (Cleaning => k = "block")
  BY DEF Enter, Running
<1>2. k \in {"block", "rule", "eval"}
  BY Scopes DEF IInv, TypeOK, Kinds
<1>3. /\ stack' \in Seq(Frames) /\ Len(stack) \in Nat /\ Len(stack') = Len(stack) + 1
      /\ stack'[Len(stack) + 1].kind = k /\ ~stack'[Len(stack) + 1].deferred
      /\ \A n \in 1..Len(stack) : stack'[n] = stack[n]
  BY <1>1, <1>2, PushFacts DEF IInv, TypeOK, AllKinds
<1>4. Len(stack) > 0
  BY <1>1 DEF IInv, Shape
<1>5. /\ Hit' = Hit /\ Kinds' = Kinds /\ Prompt' = Prompt /\ Orderly' = Orderly
  BY <1>1 DEF Hit, Kinds, Prompt, Orderly, Nesting, Errors
<1>6. stack[1].kind = "cleanup" => k = "block"
  BY <1>1, <1>3, <1>4, LenProperties DEF Cleaning, ToSet, IInv, TypeOK
<1>7. TypeOK'
  BY <1>1, <1>3 DEF IInv, TypeOK
<1>8. Shape'
  BY <1>1, <1>2, <1>3, <1>4, <1>5, <1>6 DEF IInv, Shape
<1>9. Lasting'
  BY <1>1, <1>3, <1>4, <1>5 DEF IInv, Lasting
<1>10. Undeferred'
  BY <1>1, <1>3, <1>4, <1>5 DEF IInv, Undeferred
<1>11. OneBlock'
  <2> SUFFICES ASSUME Orderly, "block" \in Hit
               PROVE  OneBlock'
    BY <1>5 DEF OneBlock
  <2>1. ~pending /\ exc = "none"
    BY <1>1 DEF Orderly
  <2>2. k = "block" => \A n \in 1..Len(stack) : stack[n].kind \notin {"block", "cleanup"}
    BY <1>1, FreeOfBlocks DEF Orderly
  <2>3. stack[1].kind # "cleanup"
    BY <1>3, <1>4, <1>6, <2>2
  <2> QED
    BY <1>1, <1>3, <1>4, <1>5, <2>1, <2>2, <2>3 DEF IInv, OneBlock
<1>12. OnItsWay'
  BY <1>1, <1>3, <1>4, <1>5 DEF IInv, OnItsWay
<1> QED
  BY <1>7, <1>8, <1>9, <1>10, <1>11, <1>12 DEF IInv

LEMMA FailStep ==
  ASSUME IInv, Fail
  PROVE  IInv'
<1>1. /\ Errors /\ at = "busy" /\ exc = "none" /\ (Prompt => ~pending) /\ ~Cleaning /\ exc' = "error"
      /\ UNCHANGED <<at, stack, pending, state, err, input_interrupted, signals, world>>
  BY DEF Fail, Running
<1>2. Len(stack) \in Nat /\ Len(stack) > 0 /\ DOMAIN stack = 1..Len(stack)
  BY <1>1, LenProperties DEF IInv, TypeOK, Shape
<1>3. \A n \in 1..Len(stack) : stack[n].kind \notin {"rollback", "cleanup"}
  BY <1>1, <1>2 DEF Cleaning, ToSet
<1>4. /\ Hit' = Hit /\ Kinds' = Kinds /\ Prompt' = Prompt /\ Orderly' = Orderly
  BY <1>1 DEF Hit, Kinds, Prompt, Orderly, Nesting, Errors
<1>5. TypeOK'
  BY <1>1 DEF IInv, TypeOK, Exceptions
<1>6. Shape'
  BY <1>1, <1>2, <1>3, <1>4 DEF IInv, Shape
<1>7. Lasting'
  BY <1>1, <1>4 DEF IInv, Lasting
<1>8. Undeferred'
  BY <1>1, <1>4 DEF IInv, Undeferred
<1>9. OneBlock'
  BY <1>1, <1>4 DEF OneBlock, Orderly
<1>10. OnItsWay'
  BY <1>1, <1>2, <1>3, <1>4 DEF IInv, OnItsWay, TypeOK
<1> QED
  BY <1>5, <1>6, <1>7, <1>8, <1>9, <1>10 DEF IInv

LEMMA DispatchStep ==
  ASSUME IInv, Dispatch
  PROVE  IInv'
<1>1. /\ pending /\ ~pending' /\ pending' \in BOOLEAN /\ at # "over" /\ exc = "none" /\ state' = 1
      /\ UNCHANGED <<input_interrupted, signals, world>>
  BY DEF Dispatch
<1>2. /\ Hit' = Hit /\ Kinds' = Kinds /\ Prompt' = Prompt /\ Orderly' = Orderly
  BY <1>1 DEF Hit, Kinds, Prompt, Orderly, Nesting, Errors
<1>3. CASE at = "busy"
  <2>1. exc' = "Interrupted" /\ UNCHANGED <<at, stack, err>>
    BY <1>3 DEF Dispatch
  <2>2. TypeOK'
    BY <1>1, <2>1 DEF IInv, TypeOK, Exceptions
  <2>3. Shape'
    BY <1>1, <1>2, <1>3, <2>1 DEF IInv, Shape
  <2>4. Lasting'
    BY <1>1, <1>2, <2>1 DEF IInv, Lasting
  <2>5. Undeferred'
    BY <1>1, <1>2, <2>1 DEF IInv, Undeferred
  <2>6. OneBlock'
    BY <1>1, <1>2, <2>1 DEF IInv, OneBlock
  <2>7. OnItsWay'
    BY <1>1, <1>2, <1>3, <2>1, Raisable DEF IInv, OnItsWay
  <2> QED
    BY <2>2, <2>3, <2>4, <2>5, <2>6, <2>7 DEF IInv
<1>4. CASE at # "busy"
  <2>1. ~(Prompt /\ "cleanup" \notin Hit)
    BY <1>1, <1>4 DEF IInv, Lasting
  <2>2. \/ at' = "over" /\ UNCHANGED <<stack, exc, err>>
        \/ at' = "busy" /\ stack' = <<Scope("cleanup")>> /\ err' = "Interrupted" /\ exc' = exc
    BY <1>4 DEF Dispatch
  <2>3. TypeOK' /\ Shape'
    <3>1. CASE at' = "over" /\ UNCHANGED <<stack, exc, err>>
      BY <1>1, <1>2, <1>4, <3>1 DEF IInv, TypeOK, Shape
    <3>2. CASE at' = "busy" /\ stack' = <<Scope("cleanup")>> /\ err' = "Interrupted" /\ exc' = exc
      <4>1. /\ stack' \in Seq(Frames) /\ Len(stack') = 1 /\ stack'[1].kind = "cleanup"
        BY <3>2, SingleFacts DEF AllKinds
      <4> QED
        BY <1>1, <1>2, <3>2, <4>1 DEF IInv, TypeOK, Shape, Exceptions
    <3> QED
      BY <2>2, <3>1, <3>2
  <2> QED
    BY <1>2, <2>1, <2>3 DEF IInv, Lasting, Undeferred, OneBlock, OnItsWay, Orderly
<1> QED
  BY <1>3, <1>4

LEMMA LookStep ==
  ASSUME IInv, Look
  PROVE  IInv'
<1>1. /\ at = "between" /\ at' = "input" /\ err' = "none"
      /\ input_interrupted' = (input_interrupted /\ err = "none")
      /\ state' = IF err # "none" /\ ~input_interrupted THEN 0 ELSE state
      /\ UNCHANGED <<stack, pending, exc, signals, world>>
  BY DEF Look
<1>2. /\ Hit' = Hit /\ Kinds' = Kinds /\ Prompt' = Prompt /\ Orderly' = Orderly
  BY <1>1 DEF Hit, Kinds, Prompt, Orderly, Nesting, Errors
<1>3. /\ exc = "none" /\ Len(stack) \in Nat /\ ~(Len(stack) > 0)
      /\ (Prompt /\ "cleanup" \notin Hit => ~pending)
  BY <1>1, LenProperties DEF IInv, TypeOK, Shape, Lasting
<1>4. TypeOK'
  BY <1>1 DEF IInv, TypeOK, Exceptions
<1>5. Shape' /\ Lasting' /\ Undeferred' /\ OneBlock'
  BY <1>1, <1>2, <1>3 DEF Shape, Lasting, Undeferred, OneBlock, Orderly
<1>6. OnItsWay'
  BY <1>1, <1>2, <1>3 DEF IInv, OnItsWay, TypeOK
<1> QED
  BY <1>4, <1>5, <1>6 DEF IInv

\* A scope other than the outermost one is left.
LEMMA PopInner ==
  ASSUME IInv, at = "busy", Top \notin {"command", "cleanup"}
  PROVE  /\ Len(stack) \in Nat /\ Len(stack) >= 2
         /\ Pop \in Seq(Frames) /\ Len(Pop) = Len(stack) - 1 /\ Pop[1] = stack[1]
         /\ \A n \in 1..Len(Pop) : n \in 1..Len(stack) /\ Pop[n] = stack[n]
         /\ \A n \in 2..Len(Pop) : n \in 2..Len(stack) /\ Pop[n] = stack[n]
         /\ Len(stack) \in 1..Len(stack) /\ Len(stack) \in 2..Len(stack)
<1>1. Len(stack) > 0 /\ Len(stack) \in Nat
  BY LenProperties DEF IInv, Shape, TypeOK
<1>2. Len(stack) # 1
  BY <1>1 DEF IInv, Shape, Top
<1> QED
  BY <1>1, <1>2, PopFacts DEF IInv

\* Only the outermost scope is that of the command or of its cleanup.
LEMMA Outermost ==
  ASSUME IInv, at = "busy", Top \in {"command", "cleanup"}
  PROVE  Len(stack) = 1 /\ stack[1].kind = Top
<1>1. Len(stack) > 0 /\ Len(stack) \in Nat
  BY LenProperties DEF IInv, Shape, TypeOK
<1>2. world.kinds \subseteq {"block", "rule", "eval"}
  BY Scopes DEF IInv, TypeOK
<1>3. Len(stack) = 1
  <2> SUFFICES ASSUME Len(stack) # 1 PROVE FALSE
    OBVIOUS
  <2>1. Len(stack) \in 2..Len(stack)
    BY <1>1
  <2>2. Top \in Kinds \cup {"rollback"}
    BY <2>1 DEF IInv, Shape, Top
  <2> QED
    BY <1>2, <2>2 DEF Kinds
<1> QED
  BY <1>3 DEF Top

LEMMA Same ==
  ASSUME world' = world
  PROVE  Hit' = Hit /\ Kinds' = Kinds /\ Prompt' = Prompt /\ Orderly' = Orderly
  BY DEF Hit, Kinds, Prompt, Orderly, Nesting, Errors

LEMMA PopShape ==
  ASSUME IInv, at = "busy", Top \notin {"command", "cleanup"}, stack' = Pop,
         at' = at, world' = world, exc' \in Exceptions, pending' \in BOOLEAN,
         UNCHANGED <<state, err, input_interrupted, signals>>
  PROVE  TypeOK' /\ Shape'
<1>1. TypeOK'
  BY PopInner DEF IInv, TypeOK
<1>2. Shape'
  BY PopInner, Same DEF IInv, Shape
<1> QED
  BY <1>1, <1>2

LEMMA LeaveStep ==
  ASSUME IInv, Leave
  PROVE  IInv'
<1>1. /\ at = "busy" /\ exc = "none" /\ (Prompt => ~pending)
      /\ UNCHANGED <<state, input_interrupted, signals, world>>
  BY DEF Leave, Running
<1>2. /\ Hit' = Hit /\ Kinds' = Kinds /\ Prompt' = Prompt /\ Orderly' = Orderly
  BY <1>1, Same
<1>3. Len(stack) > 0 /\ Len(stack) \in Nat
  BY <1>1, LenProperties DEF IInv, Shape, TypeOK
<1>4. CASE Top \in {"block", "rule", "eval"}
  <2>1. stack' = Pop /\ pending' = (pending \/ stack[Len(stack)].deferred) /\ UNCHANGED <<at, exc, err>>
    BY <1>4 DEF Leave, Deferred
  <2>2. pending' \in BOOLEAN /\ exc' \in Exceptions /\ Top \notin {"command", "cleanup"}
    BY <1>1, <1>4, <2>1 DEF Exceptions
  <2>3. TypeOK' /\ Shape'
    BY <1>1, <2>1, <2>2, PopShape
  <2>4. Lasting'
    BY <1>1, <1>2, <2>1, <2>2, PopInner DEF IInv, Lasting
  <2>5. Undeferred'
    BY <1>1, <1>2, <2>1, <2>2, PopInner DEF IInv, Undeferred, Orderly
  <2>6. OneBlock'
    <3> SUFFICES ASSUME Orderly, "block" \in Hit
                 PROVE  OneBlock'
      BY <1>2 DEF OneBlock
    <3>1. ~pending
      BY <1>1 DEF Orderly
    <3>2. pending' => /\ \A n \in 1..Len(stack') : stack'[n].kind \notin {"block", "cleanup"}
                      /\ state = 0
      <4> SUFFICES ASSUME stack[Len(stack)].deferred
                   PROVE  /\ \A n \in 1..Len(stack') : stack'[n].kind \notin {"block", "cleanup"}
                          /\ state = 0
        BY <2>1, <3>1
      <4>1. stack[Len(stack)].kind = "block" /\ state = 0
        BY <1>1, <2>2, PopInner DEF IInv, OneBlock
      <4>2. \A n \in 2..Len(stack') : stack'[n].kind # "block"
        BY <1>1, <2>1, <2>2, <4>1, PopInner DEF IInv, OneBlock
      <4>3. \A n \in 2..Len(stack') : stack'[n].kind # "cleanup"
        BY <1>1, <2>1, <2>2, PopInner, Scopes DEF IInv, Shape, TypeOK, Kinds
      <4>4. stack'[1].kind = "command"
        BY <1>1, <2>1, <2>2, PopInner DEF IInv, OneBlock, Shape
      <4> QED
        BY <1>3, <2>1, <2>2, <4>1, <4>2, <4>3, <4>4, <1>1, PopInner
    <3> QED
      BY <1>1, <1>2, <2>1, <2>2, <3>1, <3>2, PopInner DEF IInv, OneBlock
  <2>7. OnItsWay'
    <3> SUFFICES ASSUME Orderly, "eval" \notin Kinds, "input" \notin Hit
                 PROVE  OnItsWay'
      BY <1>2 DEF OnItsWay
    <3>1. \A n \in 2..Len(stack) : stack[n].kind = "rollback" => n \in 2..Len(stack')
      BY <1>1, <1>3, <1>4, <2>1, <2>2, PopInner DEF Top
    <3> QED
      BY <1>1, <1>2, <2>1, <2>2, <3>1, PopInner DEF IInv, OnItsWay
  <2> QED
    BY <2>3, <2>4, <2>5, <2>6, <2>7 DEF IInv
<1>5. CASE Top = "rollback"
  <2>1. stack' = Pop /\ exc' = "Interrupted" /\ UNCHANGED <<at, pending, err>>
    BY <1>5 DEF Leave
  <2>2. pending' \in BOOLEAN /\ exc' \in Exceptions /\ Top \notin {"command", "cleanup"}
    BY <1>5, <2>1 DEF Exceptions, IInv, TypeOK
  <2>3. TypeOK' /\ Shape'
    BY <1>1, <2>1, <2>2, PopShape
  <2>4. Lasting'
    BY <1>1, <1>2, <2>1, <2>2, PopInner DEF IInv, Lasting
  <2>5. Undeferred'
    BY <1>1, <1>2, <2>1, <2>2, PopInner DEF IInv, Undeferred
  <2>6. "rule" \in Kinds /\ stack[1].kind # "cleanup"
    BY <1>1, <1>5, <2>2, PopInner DEF IInv, Shape, Top
  <2>7. OneBlock'
    BY <1>2, <2>6 DEF OneBlock, Orderly
  <2>8. OnItsWay'
    BY <1>1, <1>2, <2>1, <2>2, <2>6, PopInner DEF IInv, OnItsWay
  <2> QED
    BY <2>3, <2>4, <2>5, <2>7, <2>8 DEF IInv
<1>6. CASE Top = "command"
  <2>1. stack' = <<Scope("cleanup")>> /\ err' = "none" /\ exc' = "none" /\ UNCHANGED <<at, pending>>
    BY <1>6 DEF Leave, Finish
  <2>2. Len(stack) = 1
    BY <1>1, <1>6, Outermost
  <2>3. /\ stack' \in Seq(Frames) /\ Len(stack') = 1 /\ ~stack'[1].deferred /\ stack'[1].kind = "cleanup"
    BY <2>1, SingleFacts DEF AllKinds
  <2>4. TypeOK' /\ Shape'
    BY <1>1, <1>2, <2>1, <2>3 DEF IInv, TypeOK, Shape, Exceptions
  <2>5. Lasting' /\ Undeferred' /\ OneBlock'
    BY <1>1, <1>2, <2>1, <2>3 DEF IInv, Lasting, Undeferred, OneBlock, Orderly
  <2>6. OnItsWay'
    BY <1>1, <1>2, <1>3, <1>6, <2>1, <2>2, <2>3 DEF IInv, OnItsWay, TypeOK, Top
  <2> QED
    BY <2>4, <2>5, <2>6 DEF IInv
<1>7. CASE Top = "cleanup"
  <2>1. /\ stack' = Pop /\ pending' = (pending \/ stack[Len(stack)].deferred)
        /\ at' = (IF Len(stack) = 1 THEN "between" ELSE at) /\ UNCHANGED <<exc, err>>
    BY <1>7 DEF Leave, Deferred
  <2>2. Len(stack) = 1
    BY <1>1, <1>7, Outermost
  <2>3. stack' \in Seq(Frames) /\ Len(stack') = 0 /\ stack[1].kind = "cleanup"
    BY <1>3, <1>7, <2>1, <2>2, PopFacts DEF IInv, Top
  <2>4. Prompt /\ "cleanup" \notin Hit => ~pending'
    <3>1. Prompt /\ "cleanup" \notin Hit => ~stack[1].deferred
      BY <2>2, <2>3 DEF IInv, Lasting
    <3> QED
      BY <1>1, <2>1, <2>2, <3>1
  <2>5. TypeOK' /\ Shape'
    BY <1>1, <1>2, <2>1, <2>2, <2>3 DEF IInv, TypeOK, Shape
  <2>6. Lasting' /\ Undeferred' /\ OneBlock'
    BY <1>1, <1>2, <2>1, <2>2, <2>3, <2>4 DEF IInv, Lasting, Undeferred, OneBlock, Orderly
  <2>7. OnItsWay'
    BY <1>1, <1>2, <1>3, <2>1, <2>2, <2>3 DEF IInv, OnItsWay
  <2> QED
    BY <2>5, <2>6, <2>7 DEF IInv
<1> QED
  BY <1>4, <1>5, <1>6, <1>7 DEF Leave

LEMMA UnwindStep ==
  ASSUME IInv, Unwind
  PROVE  IInv'
<1>1. at = "busy" /\ exc # "none" /\ UNCHANGED <<at, state, input_interrupted, signals, world>>
  BY DEF Unwind
<1>2. /\ Hit' = Hit /\ Kinds' = Kinds /\ Prompt' = Prompt /\ Orderly' = Orderly
  BY <1>1, Same
<1>3. Len(stack) > 0 /\ Len(stack) \in Nat
  BY <1>1, LenProperties DEF IInv, Shape, TypeOK
<1>4. Orderly => ~pending
  BY <1>1, Raisable
<1>5. CASE Top \in {"block", "rollback"}
  <2>1. stack' = Pop /\ pending' = (pending \/ stack[Len(stack)].deferred) /\ UNCHANGED <<exc, err>>
    BY <1>5 DEF Unwind, Deferred
  <2>2. pending' \in BOOLEAN /\ exc' \in Exceptions /\ Top \notin {"command", "cleanup"}
    BY <1>5, <2>1 DEF IInv, TypeOK
  <2>3. TypeOK' /\ Shape'
    BY <1>1, <2>1, <2>2, PopShape
  <2>4. Lasting'
    BY <1>1, <1>2, <2>1, <2>2, PopInner DEF IInv, Lasting
  <2>5. Undeferred'
    <3> SUFFICES ASSUME Prompt, "cleanup" \notin Hit, "block" \notin Hit
                 PROVE  Undeferred'
      BY <1>2 DEF Undeferred
    <3>1. ~pending
      BY <1>4 DEF Orderly
    <3> QED
      BY <1>1, <1>2, <2>1, <2>2, <3>1, PopInner DEF IInv, Undeferred
  <2>6. OneBlock'
    <3>1. Orderly /\ "block" \in Hit => Top # "block" /\ Top # "rollback"
      BY <1>1, <2>2, PopInner DEF IInv, OneBlock, Shape, Top, Orderly
    <3> QED
      BY <1>2, <1>5, <3>1 DEF OneBlock
  <2>7. OnItsWay'
    BY <1>1, <1>2, <2>1, <2>2, PopInner DEF IInv, OnItsWay
  <2> QED
    BY <2>3, <2>4, <2>5, <2>6, <2>7 DEF IInv
<1>6. CASE Top = "rule"
  <2>1. /\ exc' = "none" /\ UNCHANGED <<pending, err>> /\ Top \notin {"command", "cleanup"}
        /\ stack' = IF exc = "error" THEN Pop ELSE Append(Pop, Scope("rollback"))
    BY <1>6 DEF Unwind
  <2>2. /\ "rule" \in Kinds /\ stack[1].kind # "cleanup"
    BY <1>1, <1>6, <2>1, PopInner, Scopes DEF IInv, Shape, Top
  <2>3. OneBlock'
    BY <1>2, <2>2 DEF OneBlock, Orderly
  <2>4. CASE exc = "error"
    <3>1. stack' = Pop /\ exc' \in Exceptions /\ pending' \in BOOLEAN
      BY <2>1, <2>4 DEF Exceptions, IInv, TypeOK
    <3>2. TypeOK' /\ Shape'
      BY <1>1, <2>1, <3>1, PopShape
    <3>3. Lasting'
      BY <1>1, <1>2, <2>1, <3>1, PopInner DEF IInv, Lasting
    <3>4. Undeferred'
      BY <1>1, <1>2, <1>4, <2>1, <3>1, PopInner DEF IInv, Undeferred, Orderly
    <3>5. OnItsWay'
      BY <1>1, <1>2, <2>1, <2>4, <3>1, PopInner DEF IInv, OnItsWay
    <3> QED
      BY <2>3, <3>2, <3>3, <3>4, <3>5 DEF IInv
  <2>5. CASE exc # "error"
    <3>1. stack' = Append(Pop, Scope("rollback"))
      BY <2>1, <2>5
    <3>2. /\ stack' \in Seq(Frames) /\ Len(stack') = Len(stack)
          /\ stack'[Len(stack)].kind = "rollback" /\ ~stack'[Len(stack)].deferred
          /\ \A n \in 1..(Len(stack) - 1) : stack'[n] = stack[n]
      BY <1>1, <1>3, <2>1, <3>1, PopInner, PushFacts DEF AllKinds
    <3>3. Len(stack) >= 2
      BY <1>1, <2>1, PopInner
    <3>4. TypeOK'
      BY <1>1, <2>1, <3>2 DEF IInv, TypeOK, Exceptions
    <3>5. Shape'
      BY <1>1, <1>2, <1>3, <2>1, <2>2, <3>2, <3>3 DEF IInv, Shape
    <3>6. Lasting'
      BY <1>1, <1>2, <1>3, <2>1, <3>2 DEF IInv, Lasting
    <3>7. Undeferred'
      BY <1>1, <1>2, <1>3, <1>4, <2>1, <3>2 DEF IInv, Undeferred, Orderly
    <3>8. OnItsWay'
      BY <1>1, <1>2, <1>3, <2>1, <3>2, <3>3 DEF IInv, OnItsWay
    <3> QED
      BY <2>3, <3>4, <3>5, <3>6, <3>7, <3>8 DEF IInv
  <2> QED
    BY <2>4, <2>5
<1>7. CASE Top = "eval"
  <2>1. stack' = Pop /\ exc' = "none" /\ UNCHANGED <<pending, err>> /\ Top \notin {"command", "cleanup"}
    BY <1>7 DEF Unwind
  <2>2. exc' \in Exceptions /\ pending' \in BOOLEAN
    BY <2>1 DEF Exceptions, IInv, TypeOK
  <2>3. TypeOK' /\ Shape'
    BY <1>1, <2>1, <2>2, PopShape
  <2>4. Lasting'
    BY <1>1, <1>2, <2>1, PopInner DEF IInv, Lasting
  <2>5. Undeferred'
    BY <1>1, <1>2, <1>4, <2>1, PopInner DEF IInv, Undeferred, Orderly
  <2>6. OneBlock'
    BY <1>1, <1>2, <1>4, <2>1, PopInner DEF IInv, OneBlock
  <2>7. "eval" \in Kinds
    BY <1>1, <1>7, <2>1, PopInner DEF IInv, Shape, Top
  <2>8. OnItsWay'
    BY <1>2, <2>7 DEF OnItsWay
  <2> QED
    BY <2>3, <2>4, <2>5, <2>6, <2>8 DEF IInv
<1>8. CASE Top = "command"
  <2>1. stack' = <<Scope("cleanup")>> /\ err' = exc /\ exc' = "none" /\ UNCHANGED pending
    BY <1>8 DEF Unwind, Finish
  <2>2. /\ stack' \in Seq(Frames) /\ Len(stack') = 1 /\ ~stack'[1].deferred /\ stack'[1].kind = "cleanup"
    BY <2>1, SingleFacts DEF AllKinds
  <2>3. TypeOK' /\ Shape'
    BY <1>1, <1>2, <2>1, <2>2 DEF IInv, TypeOK, Shape, Exceptions
  <2>4. Lasting' /\ Undeferred' /\ OneBlock'
    BY <1>1, <1>2, <1>4, <2>1, <2>2 DEF IInv, Lasting, Undeferred, OneBlock, Orderly
  <2>5. OnItsWay'
    BY <1>1, <1>2, <2>1, <2>2 DEF IInv, OnItsWay
  <2> QED
    BY <2>3, <2>4, <2>5 DEF IInv
<1>9. CASE Top = "cleanup"
  <2>1. exc' = "none" /\ UNCHANGED <<stack, pending, err>>
    BY <1>9 DEF Unwind
  <2>2. stack[1].kind = "cleanup"
    BY <1>1, <1>9, Outermost
  <2>3. TypeOK' /\ Shape'
    BY <1>1, <1>2, <2>1 DEF IInv, TypeOK, Shape, Exceptions
  <2>4. Lasting' /\ Undeferred' /\ OneBlock'
    BY <1>1, <1>2, <1>4, <2>1 DEF IInv, Lasting, Undeferred, OneBlock, Orderly
  <2>5. OnItsWay'
    BY <1>1, <1>2, <2>2 DEF IInv, OnItsWay
  <2> QED
    BY <2>3, <2>4, <2>5 DEF IInv
<1> QED
  BY <1>5, <1>6, <1>7, <1>8, <1>9 DEF Unwind

LEMMA NextIInv == IInv /\ [Next]_vars => IInv'
<1> SUFFICES ASSUME IInv, [Next]_vars PROVE IInv'
  OBVIOUS
<1>1. CASE Signal
  BY <1>1, SignalDeferred, SignalElse
<1>2. CASE ReadLine \/ Canceled
  BY <1>2, ReadLineStep
<1>3. CASE \E k \in Kinds : Enter(k)
  BY <1>3, EnterStep
<1>4. CASE Leave
  BY <1>4, LeaveStep
<1>5. CASE Fail
  BY <1>5, FailStep
<1>6. CASE Dispatch
  BY <1>6, DispatchStep
<1>7. CASE Unwind
  BY <1>7, UnwindStep
<1>8. CASE Look
  BY <1>8, LookStep
<1>9. CASE Done \/ UNCHANGED vars
  <2>1. UNCHANGED vars
    BY <1>9 DEF Done
  <2>2. TypeOK' /\ Shape' /\ Lasting' /\ OneBlock' /\ OnItsWay'
    BY <2>1, Same DEF vars, IInv, TypeOK, Shape, Lasting, OneBlock, OnItsWay
  <2>3. Undeferred'
    BY <2>1, Same DEF vars, IInv, Undeferred, Handler, Owner, Setting
  <2> QED
    BY <2>2, <2>3 DEF IInv
<1> QED
  BY <1>1, <1>2, <1>3, <1>4, <1>5, <1>6, <1>7, <1>8, <1>9 DEF Next

LEMMA Invariance == Spec => []IInv
  BY InitIInv, NextIInv, PTL DEF Spec

-----------------------------------------------------------------------------
(* The theorems *)

\* The session outlives the interrupts: when none arrives during the cleanup of a command or
\* after the last operation of a scope, there is always a command to catch the exception
\* (interrupts.xxs, Shell.pm), whatever scopes are opened and whichever of them are hit.
THEOREM ShellGoesOn == Spec => []SessionSurvives
<1>1. IInv => SessionSurvives
  BY DEF IInv, Lasting, SessionSurvives
<1> QED
  BY <1>1, Invariance, PTL

\* In orderly circumstances nothing is broken off in a blocked scope, so that commits and
\* rollbacks are whole, and no interrupt is raised while another is being handled
\* (interrupts.xxs, Rule.pm).
THEOREM BlockedUndisturbed == Spec => RaisedInTurn
<1>1. IInv /\ [Next]_vars => [Orderly /\ pending /\ ~pending' => state = 0 /\ Handler # "block"]_vars
  <2> SUFFICES ASSUME IInv, Orderly, pending PROVE state = 0 /\ Handler # "block"
    OBVIOUS
  <2> QED
    BY Raisable
<1> QED
  BY <1>1, Invariance, PTL DEF Spec, RaisedInTurn

\* In orderly circumstances the shell hears signals again when it reads the next command, unless
\* the code catches the exception or the line was canceled (Shell.pm).
THEOREM NextOneHeard == Spec => []Heard
<1>1. IInv => Heard
  BY DEF IInv, OnItsWay, TypeOK, Heard
<1> QED
  BY <1>1, Invariance, PTL

(***************************************************************************)
(* The actions at the end of a session, for any set of names and any       *)
(* relations, given in any order.                                          *)
(***************************************************************************)
\* Both sides of every relation are recorded, until the END block starts to use up one of them.
Mutual ==
  /\ \A x, y \in Names : phase = "session" => (y \in before[x] <=> x \in after[y])
  /\ \A x, y \in Names : phase # "session" => (y \in before[x] <=> x \in prior[y])

\* What is still to be observed is what was prior, restricted to the actions still waiting.
Remaining ==
  phase # "session" => action \subseteq due /\ after = [x \in Names |-> prior[x] \cap action]

\* An action the loop has passed was delayed or, after a change, possibly not seen blocked;
\* without a change in this pass it is still blocked.
Passed ==
  phase = "passing" =>
    /\ \A j \in 1..Len(names) : j < position /\ names[j] \in action =>
         delayed /\ (~succeeded => after[names[j]] # {})
    /\ delayed /\ ~succeeded => action # {}

(***************************************************************************)
(* The inductive invariant: the properties themselves say nothing of the   *)
(* relations while these are collected, nor of a pass under way.           *)
(***************************************************************************)
AtEndInv ==
  AtEndTypeOK /\ Mutual /\ Remaining /\ Passed /\ OrderObserved /\ GivenUpOnlyInCircles

-----------------------------------------------------------------------------
LEMMA KnownType ==
  ASSUME NEW ns \in Seq(Names), NEW n \in Names
  PROVE  Known(ns, n) \in Seq(Names) /\ ToSet(ns) \cup {n} \subseteq ToSet(Known(ns, n))
<1>1. CASE n \in ToSet(ns)
  BY <1>1 DEF Known
<1>2. CASE n \notin ToSet(ns)
  <2>1. Known(ns, n) = Append(ns, n)
    BY <1>2 DEF Known
  <2>2. /\ Append(ns, n) \in Seq(Names) /\ Len(Append(ns, n)) = Len(ns) + 1
        /\ \A k \in 1..Len(ns) : Append(ns, n)[k] = ns[k]
        /\ Append(ns, n)[Len(ns) + 1] = n
    OBVIOUS
  <2>3. Len(ns) \in Nat /\ DOMAIN ns = 1..Len(ns) /\ DOMAIN Append(ns, n) = 1..Len(ns) + 1
    BY <2>2
  <2>4. \A x \in ToSet(ns) \cup {n} : \E k \in 1..Len(ns) + 1 : Append(ns, n)[k] = x
    BY <2>2, <2>3 DEF ToSet
  <2> QED
    BY <2>1, <2>2, <2>3, <2>4 DEF ToSet
<1> QED
  BY <1>1, <1>2

LEMMA AtEndInitHolds == AtEndInit => AtEndInv
<1> SUFFICES ASSUME AtEndInit PROVE AtEndInv
  OBVIOUS
<1>1. names \in Seq(Names) /\ Len(names) = 0 /\ todo \in [before : Seq(Names), after : Seq(Names)]
  BY DEF AtEndInit, Nothing
<1>2. AtEndTypeOK
  <2>1. action \subseteq ToSet(names) /\ due \subseteq Names /\ adding \in Names
    BY DEF AtEndInit
  <2>2. before \in [Names -> SUBSET Names] /\ after \in [Names -> SUBSET Names] /\ prior \in [Names -> SUBSET Names]
    BY DEF AtEndInit
  <2>3. position \in 1..Len(names) + 1
    BY <1>1 DEF AtEndInit
  <2> QED
    BY <1>1, <2>1, <2>2, <2>3 DEF AtEndInit, AtEndTypeOK
<1> QED
  BY <1>1, <1>2 DEF AtEndInit, AtEndInv, Mutual, Remaining, Passed, OrderObserved, GivenUpOnlyInCircles

LEMMA Grows ==
  ASSUME NEW f \in [Names -> SUBSET Names], NEW x \in Names, NEW y \in Names
  PROVE  [f EXCEPT ![x] = @ \cup {y}] \in [Names -> SUBSET Names]
OBVIOUS

\* A step of the session.
LEMMA SessionStep ==
  ASSUME AtEndInv, phase = "session", UNCHANGED <<phase, loop, history>>,
         names' \in Seq(Names), action' \subseteq ToSet(names'),
         position' \in 1..Len(names') + 1, adding' \in Names,
         todo' \in [before : Seq(Names), after : Seq(Names)],
         \/ UNCHANGED <<before, after>>
         \/ \E x, y \in Names : /\ before' = [before EXCEPT ![x] = @ \cup {y}]
                                /\ after' = [after EXCEPT ![y] = @ \cup {x}]
  PROVE  AtEndInv'
<1>0. /\ before \in [Names -> SUBSET Names] /\ after \in [Names -> SUBSET Names]
      /\ prior \in [Names -> SUBSET Names] /\ phase' = "session"
      /\ delayed' = delayed /\ succeeded' = succeeded /\ due' = due /\ prior' = prior
  BY DEF AtEndInv, AtEndTypeOK, loop, history
<1>1. /\ before' \in [Names -> SUBSET Names] /\ after' \in [Names -> SUBSET Names]
      /\ \A x, y \in Names : y \in before'[x] <=> x \in after'[y]
  <2>1. CASE UNCHANGED <<before, after>>
    BY <2>1, <1>0 DEF AtEndInv, Mutual
  <2>2. CASE \E x, y \in Names : /\ before' = [before EXCEPT ![x] = @ \cup {y}]
                                 /\ after' = [after EXCEPT ![y] = @ \cup {x}]
    <3>1. PICK x \in Names, y \in Names : /\ before' = [before EXCEPT ![x] = @ \cup {y}]
                                          /\ after' = [after EXCEPT ![y] = @ \cup {x}]
      BY <2>2
    <3>2. before' \in [Names -> SUBSET Names] /\ after' \in [Names -> SUBSET Names]
      BY <3>1, <1>0, Grows
    <3>3. \A u, v \in Names : v \in before'[u] <=> u \in after'[v]
      BY <3>1, <1>0 DEF AtEndInv, Mutual
    <3> QED
      BY <3>2, <3>3
  <2> QED
    BY <2>1, <2>2
<1>2. AtEndTypeOK'
  BY <1>0, <1>1 DEF AtEndInv, AtEndTypeOK
<1> QED
  BY <1>0, <1>1, <1>2 DEF AtEndInv, Mutual, Remaining, Passed, OrderObserved, GivenUpOnlyInCircles

LEMMA ListsType ==
  ASSUME NEW n \in Names, NEW l \in Lists(n)
  PROVE  l \in Seq(Names)
<1>1. CASE l = <<>>
  BY <1>1
<1>2. CASE l \in {<<x>> : x \in Names \ {n}}
  <2>1. PICK x \in Names : l = <<x>>
    BY <1>2
  <2> QED
    BY <2>1
<1>3. CASE l \in {<<x, y>> : x, y \in Names \ {n}}
  <2>1. PICK x \in Names, y \in Names : l = <<x, y>>
    BY <1>3
  <2> QED
    BY <2>1
<1> QED
  BY <1>1, <1>2, <1>3 DEF Lists

LEMMA AddStep ==
  ASSUME AtEndInv, NEW n \in Names, NEW bs \in Lists(n), NEW as \in Lists(n), Add(n, bs, as)
  PROVE  AtEndInv'
<1>1. names \in Seq(Names) /\ action \subseteq ToSet(names) /\ position \in 1..Len(names) + 1
  BY DEF AtEndInv, AtEndTypeOK
<1>2. names' \in Seq(Names) /\ ToSet(names) \cup {n} \subseteq ToSet(names') /\ Len(names') >= Len(names)
  BY <1>1, KnownType DEF Add, Known
<1>3. action' \subseteq ToSet(names') /\ adding' \in Names
  BY <1>1, <1>2 DEF Add
<1>4. todo' \in [before : Seq(Names), after : Seq(Names)]
  BY ListsType DEF Add
<1>5. position' \in 1..Len(names') + 1
  BY <1>1, <1>2 DEF Add, loop
<1> QED
  BY <1>2, <1>3, <1>4, <1>5, SessionStep DEF Add

\* What the two halves of the loops over the relations have in common.
LEMMA RelationStep ==
  ASSUME AtEndInv, phase = "session", NEW x \in Names, NEW y \in Names, NEW n \in Names,
         NEW opposite, NEW rest \in [before : Seq(Names), after : Seq(Names)],
         names' = Known(names, n), Relate(x, y, opposite, rest),
         UNCHANGED <<adding, action, phase, loop, history>>
  PROVE  AtEndInv'
<1>1. names \in Seq(Names) /\ action \subseteq ToSet(names) /\ position \in 1..Len(names) + 1 /\ adding \in Names
  BY DEF AtEndInv, AtEndTypeOK
<1>2. names' \in Seq(Names) /\ ToSet(names) \cup {n} \subseteq ToSet(names') /\ Len(names') >= Len(names)
  BY <1>1, KnownType DEF Known
<1>3. todo' \in [before : Seq(Names), after : Seq(Names)]
  <2>1. Nothing \in [before : Seq(Names), after : Seq(Names)]
    BY DEF Nothing
  <2>2. todo' = Nothing \/ todo' = rest
    BY DEF Relate
  <2> QED
    BY <2>1, <2>2
<1>4. \/ UNCHANGED <<before, after>>
      \/ \E u, v \in Names : /\ before' = [before EXCEPT ![u] = @ \cup {v}]
                             /\ after' = [after EXCEPT ![v] = @ \cup {u}]
  BY DEF Relate
<1>5. position' \in 1..Len(names') + 1 /\ action' \subseteq ToSet(names') /\ adding' \in Names
  BY <1>1, <1>2 DEF loop
<1> QED
  BY <1>2, <1>3, <1>4, <1>5, SessionStep

LEMMA AddBeforeStep ==
  ASSUME AtEndInv, AddBefore
  PROVE  AtEndInv'
<1>1. todo \in [before : Seq(Names), after : Seq(Names)] /\ adding \in Names /\ todo.before # <<>>
  BY DEF AtEndInv, AtEndTypeOK, AddBefore
<1>2. Head(todo.before) \in Names /\ Tail(todo.before) \in Seq(Names)
  BY <1>1
<1>3. [todo EXCEPT !.before = Tail(@)] \in [before : Seq(Names), after : Seq(Names)]
  BY <1>1, <1>2
<1> QED
  BY <1>1, <1>2, <1>3, RelationStep DEF AddBefore

LEMMA AddAfterStep ==
  ASSUME AtEndInv, AddAfter
  PROVE  AtEndInv'
<1>1. todo \in [before : Seq(Names), after : Seq(Names)] /\ adding \in Names /\ todo.after # <<>>
  BY DEF AtEndInv, AtEndTypeOK, AddAfter
<1>2. Head(todo.after) \in Names /\ Tail(todo.after) \in Seq(Names)
  BY <1>1
<1>3. [todo EXCEPT !.after = Tail(@)] \in [before : Seq(Names), after : Seq(Names)]
  BY <1>1, <1>2
<1> QED
  BY <1>1, <1>2, <1>3, RelationStep DEF AddAfter

LEMMA ForgetStep ==
  ASSUME AtEndInv, NEW n \in Names, Forget(n)
  PROVE  AtEndInv'
<1>1. /\ names' \in Seq(Names) /\ action' \subseteq ToSet(names') /\ position' \in 1..Len(names') + 1
      /\ adding' \in Names /\ todo' \in [before : Seq(Names), after : Seq(Names)]
  BY DEF AtEndInv, AtEndTypeOK, Forget, request, loop
<1> QED
  BY <1>1, SessionStep DEF Forget

LEMMA EndSessionStep ==
  ASSUME AtEndInv, EndSession
  PROVE  AtEndInv'
<1>1. /\ names \in Seq(Names) /\ action \subseteq ToSet(names) /\ after \in [Names -> SUBSET Names]
      /\ \A x, y \in Names : y \in before[x] <=> x \in after[y]
  BY DEF AtEndInv, AtEndTypeOK, Mutual, EndSession
<1>2. action \subseteq Names
  BY <1>1 DEF ToSet
<1>3. after' = [x \in Names |-> prior'[x] \cap action'] /\ action' = due'
  BY <1>1 DEF EndSession, Dropped
<1>4. AtEndTypeOK'
  <2>1. after' \in [Names -> SUBSET Names] /\ prior' \in [Names -> SUBSET Names] /\ due' \subseteq Names
    BY <1>1, <1>2, <1>3 DEF EndSession
  <2>2. position' \in 1..Len(names') + 1
    BY <1>1 DEF EndSession, Pass
  <2> QED
    BY <2>1, <2>2 DEF AtEndInv, AtEndTypeOK, EndSession, Pass, request
<1>5. Mutual'
  BY <1>1 DEF Mutual, EndSession, Pass
<1> QED
  BY <1>3, <1>4, <1>5 DEF AtEndInv, Remaining, Passed, OrderObserved, GivenUpOnlyInCircles, EndSession, Pass

LEMMA RunStep ==
  ASSUME AtEndInv, NEW n \in Names, Run(n)
  PROVE  AtEndInv'
<1>0. /\ names \in Seq(Names) /\ position \in 1..Len(names) /\ phase = "passing" /\ phase' = "passing"
      /\ after \in [Names -> SUBSET Names] /\ prior \in [Names -> SUBSET Names]
      /\ names' = names /\ before' = before /\ prior' = prior /\ due' = due
  BY DEF AtEndInv, AtEndTypeOK, Run, history
<1>1. after' \in [Names -> SUBSET Names]
  <2>1. \A x \in Names : after'[x] \in SUBSET Names
    BY <1>0 DEF Run
  <2> QED
    BY <2>1 DEF Run
<1>2. AtEndTypeOK'
  BY <1>0, <1>1 DEF AtEndInv, AtEndTypeOK, Run, request, history
<1>3. Mutual'
  BY <1>0 DEF AtEndInv, Mutual
<1>4. Remaining'
  <2>1. \A x \in Names : after[x] = prior[x] \cap action /\ (n \in prior[x] <=> x \in before[n])
    BY <1>0 DEF AtEndInv, Remaining, Mutual
  <2>2. \A x \in Names : after'[x] = prior[x] \cap (action \ {n})
    BY <2>1 DEF Run
  <2> QED
    BY <2>2, <1>0 DEF AtEndInv, Remaining, Run
<1>5. Passed'
  <2>1. \A j \in 1..Len(names) : j < position /\ names[j] \in action => delayed
    BY <1>0 DEF AtEndInv, Passed
  <2>2. \A j \in 1..Len(names) : j < position + 1 /\ names[j] \in action \ {n} => delayed
    BY <2>1, <1>0 DEF Run
  <2> QED
    BY <2>2, <1>0 DEF Passed, Run
<1>6. OrderObserved'
  <2>1. prior[n] \cap action = {}
    BY <1>0 DEF AtEndInv, Remaining, Run
  <2> QED
    BY <2>1, <1>0 DEF AtEndInv, OrderObserved, Run
<1> QED
  BY <1>0, <1>2, <1>3, <1>4, <1>5, <1>6 DEF AtEndInv, GivenUpOnlyInCircles

\* The loop moves on: only its own variables change.
LEMMA RestTyped ==
  ASSUME AtEndTypeOK, UNCHANGED <<names, action, before, after, adding, todo, due, prior>>,
         phase' \in {"session", "passing", "ended", "deadlock"},
         position' \in 1..Len(names') + 1, delayed' \in BOOLEAN, succeeded' \in BOOLEAN
  PROVE  AtEndTypeOK'
<1>1. todo' \in [before : Seq(Names), after : Seq(Names)] /\ adding' \in Names
  BY DEF AtEndTypeOK
<1>2. before' \in [Names -> SUBSET Names] /\ after' \in [Names -> SUBSET Names]
      /\ prior' \in [Names -> SUBSET Names]
  BY DEF AtEndTypeOK
<1>3. names' \in Seq(Names) /\ action' \subseteq ToSet(names') /\ due' \subseteq Names
  BY DEF AtEndTypeOK
<1> QED
  BY <1>1, <1>2, <1>3 DEF AtEndTypeOK

\* The loop goes on without running anything.
LEMMA PassByStep ==
  ASSUME AtEndInv, NEW n \in Names, Delay(n) \/ Skip(n)
  PROVE  AtEndInv'
<1>0. /\ names \in Seq(Names) /\ position \in 1..Len(names) /\ phase = "passing" /\ n = names[position]
      /\ position' = position + 1 /\ delayed \in BOOLEAN /\ succeeded \in BOOLEAN /\ AtEndTypeOK
      /\ UNCHANGED <<names, action, before, after, request, phase, succeeded, history>>
  BY DEF AtEndInv, AtEndTypeOK, Delay, Skip, history
<1>1. AtEndTypeOK'
  <2>1. AtEndTypeOK /\ phase' \in {"session", "passing", "ended", "deadlock"}
    BY <1>0
  <2>3. position' \in 1..Len(names') + 1
    BY <1>0
  <2>4. delayed' \in BOOLEAN /\ succeeded' \in BOOLEAN
    BY <1>0 DEF Delay, Skip
  <2>2. UNCHANGED <<names, action, before, after, adding, todo, phase, succeeded, due, prior>>
    BY <1>0 DEF request, history
  <2> QED
    BY <2>1, <2>2, <2>3, <2>4, RestTyped
<1>2. Passed'
  <2>1. CASE Delay(n)
    BY <2>1, <1>0 DEF AtEndInv, Passed, Delay
  <2>2. CASE Skip(n)
    BY <2>2, <1>0 DEF AtEndInv, Passed, Skip
  <2> QED
    BY <2>1, <2>2
<1> QED
  BY <1>0, <1>1, <1>2 DEF AtEndInv, Mutual, Remaining, OrderObserved, GivenUpOnlyInCircles, history

LEMMA EndPassStep ==
  ASSUME AtEndInv, EndPass
  PROVE  AtEndInv'
<1>0. /\ names \in Seq(Names) /\ phase = "passing" /\ phase' \in {"ended", "passing", "deadlock"}
      /\ position \in 1..Len(names) + 1 /\ position > Len(names) /\ action \subseteq ToSet(names) /\ AtEndTypeOK
      /\ UNCHANGED <<names, action, before, after, request, history>>
  BY DEF AtEndInv, AtEndTypeOK, EndPass, Pass
<1>1. \A n \in action : \E j \in 1..Len(names) : j < position /\ names[j] = n
  BY <1>0 DEF ToSet
<1>2. phase' = "ended" => action = {}
  BY <1>0, <1>1 DEF AtEndInv, Passed, EndPass, Pass
<1>3. phase' = "deadlock" => action # {} /\ \A n \in action : after[n] # {}
  BY <1>0, <1>1 DEF AtEndInv, Passed, EndPass, Pass
<1>4. GivenUpOnlyInCircles'
  <2>1. \A n \in action : n \in Names /\ after[n] = prior[n] \cap action
    BY <1>0 DEF AtEndInv, Remaining, ToSet
  <2> QED
    BY <2>1, <1>0, <1>2, <1>3 DEF GivenUpOnlyInCircles, history
<1>5. AtEndTypeOK'
  <2>1. AtEndTypeOK /\ phase' \in {"session", "passing", "ended", "deadlock"}
    BY <1>0
  <2>3. position' \in 1..Len(names') + 1
    BY <1>0 DEF EndPass, Pass
  <2>4. delayed' \in BOOLEAN /\ succeeded' \in BOOLEAN
    BY <1>0 DEF EndPass, Pass
  <2>2. UNCHANGED <<names, action, before, after, adding, todo, due, prior>>
    BY <1>0 DEF request, history
  <2> QED
    BY <2>1, <2>2, <2>3, <2>4, <1>0, RestTyped
<1>6. Passed'
  BY <1>0 DEF Passed, EndPass, Pass
<1> QED
  BY <1>0, <1>4, <1>5, <1>6 DEF AtEndInv, Mutual, Remaining, OrderObserved, history

LEMMA Stutter ==
  ASSUME AtEndInv, UNCHANGED atEndVars
  PROVE  AtEndInv'
BY DEF atEndVars, AtEndInv, AtEndTypeOK, Mutual, Remaining, Passed, OrderObserved, GivenUpOnlyInCircles,
       loop, history, request

\* Every step preserves the invariant.
LEMMA Step == AtEndInv /\ [AtEndNext]_atEndVars => AtEndInv'
<1> SUFFICES ASSUME AtEndInv, [AtEndNext]_atEndVars PROVE AtEndInv'
  OBVIOUS
<1>1. ASSUME NEW n \in Names, NEW bs \in Lists(n), NEW as \in Lists(n), Add(n, bs, as) PROVE AtEndInv'
  BY <1>1, AddStep
<1>2. CASE AddBefore
  BY <1>2, AddBeforeStep
<1>3. CASE AddAfter
  BY <1>3, AddAfterStep
<1>4. ASSUME NEW n \in Names, Forget(n) PROVE AtEndInv'
  BY <1>4, ForgetStep
<1>5. CASE EndSession
  BY <1>5, EndSessionStep
<1>6. CASE Visit
  BY <1>6, RunStep, PassByStep DEF Visit
<1>7. CASE EndPass
  BY <1>7, EndPassStep
<1>8. CASE AtEndDone \/ UNCHANGED atEndVars
  BY <1>8, Stutter DEF AtEndDone
<1> QED
  BY <1>1, <1>2, <1>3, <1>4, <1>5, <1>6, <1>7, <1>8 DEF AtEndNext

LEMMA AtEndInvariance == AtEndSpec => []AtEndInv
<1> QED
  BY AtEndInitHolds, Step, PTL DEF AtEndSpec

-----------------------------------------------------------------------------
(* Every variable keeps its type, whatever is registered in whatever order.             *)
THEOREM Typed == AtEndSpec => []AtEndTypeOK
<1>1. AtEndInv => AtEndTypeOK
  BY DEF AtEndInv
<1> QED
  BY <1>1, AtEndInvariance, PTL

(* No action is run before one it was declared to come after, for any number of names   *)
(* and any relations among them, the circular ones included.                            *)
THEOREM OrderKept == AtEndSpec => []OrderObserved
<1>1. AtEndInv => OrderObserved
  BY DEF AtEndInv
<1> QED
  BY <1>1, AtEndInvariance, PTL

(* The END block runs every action unless those left wait for each other.               *)
THEOREM NothingForgotten == AtEndSpec => []GivenUpOnlyInCircles
<1>1. AtEndInv => GivenUpOnlyInCircles
  BY DEF AtEndInv
<1> QED
  BY <1>1, AtEndInvariance, PTL

(***************************************************************************)
(* Settings, for any items, values, machines and users.                    *)
(*                                                                         *)
(***************************************************************************)
AllArchs == UNION {u.archs : u \in Users}
AllKeys == Items \X (AllArchs \cup {"any"})
All == Values \cup {Default}
Stores == UNION {[K -> All] : K \in SUBSET AllKeys}
Valuations == UNION {[I -> All] : I \in SUBSET Items}

Records ==
  [phase : {"off", "on", "written"}, arch : AllArchs \cup {"any"}, source : Stores, temp : Stores,
   value : Valuations,
   custom : SUBSET Items, changed : SUBSET Items, touched : SUBSET Items, dirty : BOOLEAN]

SettingsTypeOK ==
  /\ user \in Users /\ file \in Stores /\ session \in [Sessions -> Records]
  /\ \A s \in Sessions : Active(s) =>
       /\ session[s].arch \in Archs
       /\ session[s].custom \cup session[s].changed \subseteq DOMAIN session[s].value

\* A key of before the by_arch flag changed is there only without the present one, and only if
\* nobody but a session that takes the value over could miss it: there is no other
\* architecture, and the item is not dropped with an extension.
Clean(f, u) ==
  \A a \in u.archs, i \in Items : OldKey(i, a) \in DOMAIN f =>
    Key(i, a) \notin DOMAIN f /\ i \notin u.extension /\ \A b \in u.archs : b = a

\* Users whose settings come through for certain.
Settled(u) == ~u.overlap => Clean(u.file, u)

\* What a session under way knows: what it has read and not changed is what was saved; what it
\* has taken over, too; what it has reset has the value it will be found to have.
Sound(r, u, w) ==
  /\ Clean(r.source, u)
  /\ r.touched \subseteq r.changed
  /\ \A i \in DOMAIN r.value : OldKey(i, r.arch) \notin DOMAIN r.source
  /\ \A i \in r.changed \ r.touched : i \in r.custom /\ \A b \in u.archs : r.value[i] = w[b][i]
  /\ \A i \in r.changed \ r.custom : r.value[i] = ResetTo(i)
  /\ \A b \in u.archs, i \in Items :
       i \in u.extension \/ i \notin r.changed \/ b # r.arch => Value(r.source, b, i) = w[b][i]

OneSession == \A s, t \in Sessions : Active(s) /\ Active(t) => s = t

SessionsSound ==
  \A s \in Sessions : Active(s) =>
    /\ Sound(session[s], user, wanted)
    /\ session[s].phase = "written" => session[s].temp = Output(session[s])

Found == \A a \in Archs, i \in Items : Value(file, a, i) = wanted[a][i]

(***************************************************************************)
(* The inductive invariant: Persisted says nothing of the copies in memory *)
(* that a session is going to write.                                       *)
(***************************************************************************)
Alone == ~Overlap /\ Settled(user)
SettingsInv == SettingsTypeOK /\ (Alone => Found /\ Clean(file, user) /\ OneSession /\ SessionsSound)

-----------------------------------------------------------------------------
(* Keys and stores *)

LEMMA StoreFacts ==
  /\ \A f \in Stores : f \in [DOMAIN f -> All] /\ DOMAIN f \subseteq AllKeys
  /\ \A K \in SUBSET AllKeys : [K -> All] \subseteq Stores
BY DEF Stores

LEMMA ValuationFacts ==
  /\ \A f \in Valuations : f \in [DOMAIN f -> All] /\ DOMAIN f \subseteq Items
  /\ \A I \in SUBSET Items : [I -> All] \subseteq Valuations
BY DEF Valuations

LEMMA ArchFacts == \A u \in Users : u.archs \subseteq AllArchs /\ "any" \notin u.archs
BY UsersAssumption DEF AllArchs

\* The present keys and the former ones of all items are told apart.
LEMMA KeyFacts ==
  ASSUME NEW i \in Items, NEW j \in Items, NEW a \in AllArchs, NEW b \in AllArchs
  PROVE  /\ Key(i, a) \in AllKeys /\ OldKey(i, a) \in AllKeys
         /\ Key(i, a) # OldKey(j, b)
         /\ Key(i, a) = Key(j, b) => i = j /\ (i \in ByArch => a = b)
         /\ OldKey(i, a) = OldKey(j, b) => i = j /\ (i \notin ByArch => a = b)
         /\ i \in ByArch => OldKey(i, a) = OldKey(i, b)
         /\ i \notin ByArch => Key(i, a) = Key(i, b)
<1>1. a # "any" /\ b # "any"
  BY UsersAssumption DEF AllArchs
<1> QED
  BY <1>1 DEF Key, OldKey, AllKeys

LEMMA ResetValue == \A i \in Items : ResetTo(i) \in All
BY ValuesAssumption DEF ResetTo, All

LEMMA ValueType ==
  ASSUME NEW f \in Stores, NEW a, NEW i \in Items
  PROVE  Value(f, a, i) \in All
BY StoreFacts, ResetValue DEF Value, Moves

LEMMA WholeStore == \A f \in Stores : f # Truncated
<1>1. <<"damaged", "any">> \notin AllKeys
  BY UsersAssumption DEF AllKeys
<1> QED
  BY <1>1, StoreFacts DEF Truncated

LEMMA LeftFacts ==
  ASSUME NEW f \in Stores, NEW a \in AllArchs, NEW i \in Items
  PROVE  /\ Left(f, a, i) \in Stores
         /\ DOMAIN Left(f, a, i) = IF Moves(f, a, i) THEN DOMAIN f \ {OldKey(i, a)} ELSE DOMAIN f
         /\ \A k \in DOMAIN Left(f, a, i) : Left(f, a, i)[k] = f[k]
<1>1. CASE Moves(f, a, i)
  <2> DEFINE g == [k \in DOMAIN f \ {OldKey(i, a)} |-> f[k]]
  <2>1. Left(f, a, i) = g
    BY <1>1 DEF Left, Without, Restrict
  <2>2. g \in [DOMAIN f \ {OldKey(i, a)} -> All] /\ DOMAIN f \ {OldKey(i, a)} \in SUBSET AllKeys
    BY StoreFacts
  <2> QED
    BY <1>1, <2>1, <2>2, StoreFacts
<1>2. CASE ~Moves(f, a, i)
  BY <1>2 DEF Left
<1> QED
  BY <1>1, <1>2

-----------------------------------------------------------------------------
(* What is written *)

LEMMA OutputFacts ==
  ASSUME NEW r \in Records, r.changed \subseteq DOMAIN r.value
  PROVE  /\ Output(r) \in Stores
         /\ DOMAIN Output(r) = {Key(i, r.arch) : i \in r.changed \cap r.custom}
                                 \cup (DOMAIN r.source \ {Key(i, r.arch) : i \in r.changed})
         /\ \A i \in r.changed \cap r.custom : Output(r)[Key(i, r.arch)] = r.value[i]
         /\ \A k \in DOMAIN r.source \ {Key(i, r.arch) : i \in r.changed} : Output(r)[k] = r.source[k]
<1> DEFINE all == {Key(i, r.arch) : i \in r.changed}
           mine == {Key(i, r.arch) : i \in r.changed \cap r.custom}
           D == mine \cup (DOMAIN r.source \ all)
           v(k) == IF k \in mine THEN r.value[k[1]] ELSE r.source[k]
<1>1. Output(r) = [k \in D |-> v(k)]
  BY DEF Output
<1>2. /\ r.source \in Stores /\ r.changed \subseteq Items /\ r.arch \in AllArchs \cup {"any"}
      /\ r.value \in Valuations
  BY DEF Records
<1>3. \A i \in Items : Key(i, r.arch) \in AllKeys /\ Key(i, r.arch)[1] = i
  BY <1>2 DEF Key, AllKeys
<1>4. mine \subseteq all /\ mine \subseteq AllKeys /\ DOMAIN r.source \subseteq AllKeys
  BY <1>2, <1>3, StoreFacts
<1>5. \A i \in r.changed \cap r.custom : Key(i, r.arch) \in mine /\ v(Key(i, r.arch)) = r.value[i] /\ r.value[i] \in All
  BY <1>2, <1>3, ValuationFacts
<1>6. \A k \in D : v(k) \in All
  <2>1. \A k \in mine : v(k) \in All
    BY <1>5
  <2>2. \A k \in DOMAIN r.source \ all : v(k) = r.source[k] /\ r.source[k] \in All
    BY <1>2, <1>4, StoreFacts
  <2> QED
    BY <2>1, <2>2
<1>7. Output(r) \in [D -> All] /\ D \in SUBSET AllKeys
  BY <1>1, <1>4, <1>6
<1>8. \A k \in DOMAIN r.source \ all : Output(r)[k] = r.source[k]
  BY <1>1, <1>4
<1>9. \A i \in r.changed \cap r.custom : Output(r)[Key(i, r.arch)] = r.value[i]
  <2> SUFFICES ASSUME NEW i \in r.changed \cap r.custom PROVE Output(r)[Key(i, r.arch)] = r.value[i]
    OBVIOUS
  <2>1. Key(i, r.arch) \in D
    OBVIOUS
  <2> QED
    BY <1>1, <1>5, <2>1
<1> QED
  BY <1>1, <1>7, <1>8, <1>9, StoreFacts

\* What a session writes will be found: by itself and by those on other architectures.
LEMMA OutputRight ==
  ASSUME NEW u \in Users, NEW w, NEW r \in Records, r.arch \in u.archs, Sound(r, u, w),
         r.changed \subseteq DOMAIN r.value
  PROVE  /\ Clean(Output(r), u)
         /\ \A b \in u.archs, i \in Items :
              Value(Output(r), b, i) =
                IF i \in r.touched /\ (i \notin ByArch \/ b = r.arch) THEN r.value[i] ELSE w[b][i]
<1> DEFINE all == {Key(i, r.arch) : i \in r.changed}
           mine == {Key(i, r.arch) : i \in r.changed \cap r.custom}
           out == Output(r)
           D == DOMAIN out
<1>0. /\ D = mine \cup (DOMAIN r.source \ all) /\ mine \subseteq all
      /\ \A i \in r.changed \cap r.custom : Key(i, r.arch) \in mine /\ out[Key(i, r.arch)] = r.value[i]
      /\ \A k \in DOMAIN r.source \ all : out[k] = r.source[k]
  <2>1. D = mine \cup (DOMAIN r.source \ all)
    BY OutputFacts
  <2>2. \A i \in r.changed \cap r.custom : out[Key(i, r.arch)] = r.value[i]
    BY OutputFacts
  <2>3. \A k \in DOMAIN r.source \ all : out[k] = r.source[k]
    BY OutputFacts
  <2> HIDE DEF out, D
  <2> QED
    BY <2>1, <2>2, <2>3
<1>1. r.changed \subseteq Items /\ u.archs \subseteq AllArchs /\ r.arch \in AllArchs
  BY ArchFacts DEF Records
<1>2. \A a \in u.archs, i \in Items : OldKey(i, a) \in D <=> OldKey(i, a) \in DOMAIN r.source
  <2> SUFFICES ASSUME NEW a \in u.archs, NEW i \in Items
               PROVE  OldKey(i, a) \in D <=> OldKey(i, a) \in DOMAIN r.source
    OBVIOUS
  <2>1. OldKey(i, a) \notin all
    BY <1>1, KeyFacts
  <2> QED
    BY <1>0, <2>1
<1>3. \A a \in u.archs, i \in Items : OldKey(i, a) \in DOMAIN r.source =>
        i \notin r.changed /\ Key(i, a) \notin DOMAIN r.source /\ i \notin u.extension /\ \A b \in u.archs : b = a
  BY DEF Sound, Clean
<1>4. \A a \in u.archs, i \in Items : (i \in r.changed /\ (i \notin ByArch \/ a = r.arch)) <=> Key(i, a) \in all
  BY <1>1, KeyFacts
<1>5. Clean(out, u)
  <2> SUFFICES ASSUME NEW a \in u.archs, NEW i \in Items, OldKey(i, a) \in D
               PROVE  Key(i, a) \notin D /\ i \notin u.extension /\ \A b \in u.archs : b = a
    BY DEF Clean
  <2>1. i \notin r.changed /\ Key(i, a) \notin DOMAIN r.source /\ i \notin u.extension /\ \A b \in u.archs : b = a
    BY <1>2, <1>3
  <2>2. Key(i, a) \notin all
    BY <1>4, <2>1
  <2> QED
    BY <1>0, <2>1, <2>2
<1>6. ASSUME NEW b \in u.archs, NEW i \in Items
      PROVE  Value(out, b, i) =
               IF i \in r.touched /\ (i \notin ByArch \/ b = r.arch) THEN r.value[i] ELSE w[b][i]
  <2>1. CASE Key(i, b) \in all
    <3>1. i \in r.changed /\ (i \notin ByArch \/ b = r.arch) /\ Key(i, b) = Key(i, r.arch)
      BY <1>1, <1>4, <2>1, KeyFacts
    <3>2. CASE i \in r.custom
      <4>1. Key(i, b) \in D /\ out[Key(i, b)] = r.value[i]
        BY <1>0, <3>1, <3>2
      <4>2. i \notin r.touched => r.value[i] = w[b][i]
        BY <3>1 DEF Sound
      <4> QED
        BY <3>1, <4>1, <4>2 DEF Value
    <3>3. CASE i \notin r.custom
      <4>1. i \in r.touched /\ r.value[i] = ResetTo(i)
        BY <3>1, <3>3 DEF Sound
      <4>2. Key(i, b) \notin D
        <5>1. Key(i, b) \notin mine
          BY <1>1, <3>3, KeyFacts
        <5> QED
          BY <1>0, <2>1, <5>1
      <4>3. OldKey(i, b) \notin D
        BY <1>2, <1>3, <3>1
      <4> QED
        BY <3>1, <4>1, <4>2, <4>3 DEF Value, Moves
    <3> QED
      BY <3>2, <3>3
  <2>2. CASE Key(i, b) \notin all
    <3>1. i \notin r.changed \/ (i \in ByArch /\ b # r.arch)
      BY <1>4, <2>2
    <3>2. Key(i, b) \in D <=> Key(i, b) \in DOMAIN r.source
      BY <1>0, <2>2
    <3>3. Key(i, b) \in DOMAIN r.source => out[Key(i, b)] = r.source[Key(i, b)]
      BY <1>0, <2>2
    <3>4. OldKey(i, b) \in DOMAIN r.source => out[OldKey(i, b)] = r.source[OldKey(i, b)]
      <4>1. OldKey(i, b) \notin all
        BY <1>1, KeyFacts
      <4> QED
        BY <1>0, <4>1
    <3>5. Value(out, b, i) = Value(r.source, b, i)
      BY <1>2, <3>2, <3>3, <3>4 DEF Value, Moves
    <3>6. Value(r.source, b, i) = w[b][i]
      BY <3>1 DEF Sound
    <3>7. ~(i \in r.touched /\ (i \notin ByArch \/ b = r.arch))
      BY <3>1 DEF Sound
    <3> QED
      BY <3>5, <3>6, <3>7
  <2> QED
    BY <2>1, <2>2
<1> QED
  BY <1>5, <1>6

-----------------------------------------------------------------------------
(* Steps *)

LEMMA EmptyFacts ==
  /\ Empty \in Stores /\ Empty \in Valuations /\ DOMAIN Empty = {}
  /\ Idle \in Records /\ Idle.phase = "off"
<1>1. Empty \in [{} -> All] /\ DOMAIN Empty = {}
  BY DEF Empty
<1>2. Empty \in Stores /\ Empty \in Valuations
  BY <1>1, StoreFacts, ValuationFacts
<1> HIDE DEF Empty
<1> QED
  BY <1>1, <1>2 DEF Idle, Records

LEMMA WithFacts ==
  ASSUME NEW f \in Valuations, NEW i \in Items, NEW v \in All
  PROVE  /\ With(f, i, v) \in Valuations
         /\ DOMAIN With(f, i, v) = DOMAIN f \cup {i}
         /\ With(f, i, v)[i] = v
         /\ \A j \in DOMAIN f \ {i} : With(f, i, v)[j] = f[j]
<1>1. With(f, i, v) \in [DOMAIN f \cup {i} -> All]
  BY ValuationFacts DEF With
<1>2. DOMAIN f \cup {i} \in SUBSET Items
  BY ValuationFacts
<1> QED
  BY <1>1, <1>2, ValuationFacts DEF With

LEMMA WithoutFacts ==
  ASSUME NEW f \in Valuations, NEW i \in Items
  PROVE  /\ Without(f, i) \in Valuations
         /\ DOMAIN Without(f, i) = DOMAIN f \ {i}
         /\ \A j \in DOMAIN f \ {i} : Without(f, i)[j] = f[j]
<1>1. Without(f, i) \in [DOMAIN f \ {i} -> All]
  BY ValuationFacts DEF Without, Restrict
<1>2. DOMAIN f \ {i} \in SUBSET Items
  BY ValuationFacts
<1> QED
  BY <1>1, <1>2, ValuationFacts DEF Without, Restrict

LEMMA SettingsInitHolds == SettingsInit => SettingsInv
<1> SUFFICES ASSUME SettingsInit PROVE SettingsInv
  OBVIOUS
<1>1. user \in Users /\ file = user.file /\ session = [s \in Sessions |-> Idle]
  BY DEF SettingsInit
<1>2. file \in Stores
  <2>1. DOMAIN file \subseteq AllKeys /\ file \in [DOMAIN file -> All]
    BY <1>1, UsersAssumption DEF AllKeys, AllArchs, All
  <2> QED
    BY <2>1, StoreFacts
<1>3. \A s \in Sessions : ~Active(s)
  BY <1>1, EmptyFacts DEF Active
<1>4. SettingsTypeOK
  BY <1>1, <1>2, <1>3, EmptyFacts DEF SettingsTypeOK
<1>5. Alone => Clean(file, user)
  BY <1>1 DEF Alone, Settled, Overlap
<1>6. Found
  BY DEF SettingsInit, Found
<1> QED
  BY <1>3, <1>4, <1>5, <1>6 DEF SettingsInv, OneSession, SessionsSound

\* A step that concerns the record of one session only.
LEMMA RecordStep ==
  ASSUME SettingsInv, NEW s \in Sessions, NEW n \in Records,
         session' = [session EXCEPT ![s] = n], UNCHANGED <<file, wanted, user>>,
         n.phase # "off" => n.arch \in Archs /\ n.custom \cup n.changed \subseteq DOMAIN n.value,
         Alone /\ n.phase # "off" =>
           /\ Sound(n, user, wanted)
           /\ n.phase = "written" => n.temp = Output(n)
           /\ \A t \in Sessions : Active(t) => t = s
  PROVE  SettingsInv'
<1>1. /\ user \in Users /\ file \in Stores /\ session \in [Sessions -> Records]
      /\ \A t \in Sessions : Active(t) =>
           /\ session[t].arch \in Archs
           /\ session[t].custom \cup session[t].changed \subseteq DOMAIN session[t].value
  BY DEF SettingsInv, SettingsTypeOK
<1>2. session'[s] = n /\ \A t \in Sessions \ {s} : session'[t] = session[t]
  BY <1>1
<1>3. /\ (n.phase # "off" <=> Active(s)') /\ Archs' = Archs
      /\ \A t \in Sessions \ {s} : Active(t)' <=> Active(t)
  BY <1>2 DEF Active, Archs
<1>4. SettingsTypeOK'
  <2>1. (user \in Users /\ file \in Stores)' /\ session' \in [Sessions -> Records]
    BY <1>1
  <2>2. ASSUME NEW t \in Sessions, Active(t)'
        PROVE  /\ session'[t].arch \in Archs'
               /\ session'[t].custom \cup session'[t].changed \subseteq DOMAIN session'[t].value
    BY <1>1, <1>2, <1>3, <2>2
  <2> QED
    BY <2>1, <2>2 DEF SettingsTypeOK
<1>5. ASSUME Alone'
      PROVE  (Found /\ Clean(file, user) /\ OneSession /\ SessionsSound)'
  <2>1. Alone /\ Found /\ Clean(file, user) /\ OneSession /\ SessionsSound
    BY <1>5 DEF Alone, Overlap, SettingsInv
  <2>2. Found' /\ Clean(file, user)'
    BY <2>1 DEF Found, Archs
  <2>3. OneSession'
    <3> SUFFICES ASSUME NEW t1 \in Sessions, NEW t2 \in Sessions, Active(t1)', Active(t2)' PROVE t1 = t2
      BY DEF OneSession
    <3> QED
      BY <1>3, <2>1 DEF OneSession
  <2>4. SessionsSound'
    <3> SUFFICES ASSUME NEW t \in Sessions, Active(t)'
                 PROVE  /\ Sound(session'[t], user, wanted)
                        /\ session'[t].phase = "written" => session'[t].temp = Output(session'[t])
      BY DEF SessionsSound
    <3> QED
      BY <1>2, <1>3, <2>1 DEF SessionsSound
  <2> QED
    BY <2>2, <2>3, <2>4
<1> QED
  BY <1>4, <1>5 DEF SettingsInv

\* What the invariant says of the record of a session under way.
LEMMA UnderWay ==
  ASSUME SettingsInv, NEW s \in Sessions, Active(s)
  PROVE  /\ user \in Users /\ file \in Stores /\ session[s] \in Records
         /\ session[s].arch \in Archs /\ Archs \subseteq AllArchs
         /\ session[s].custom \cup session[s].changed \subseteq DOMAIN session[s].value
         /\ DOMAIN session[s].value \subseteq Items
         /\ Alone => /\ Sound(session[s], user, wanted)
                     /\ session[s].phase = "written" => session[s].temp = Output(session[s])
                     /\ \A t \in Sessions : Active(t) => t = s
<1>1. user \in Users /\ file \in Stores /\ session[s] \in Records /\ session[s].arch \in Archs
      /\ session[s].custom \cup session[s].changed \subseteq DOMAIN session[s].value
  BY DEF SettingsInv, SettingsTypeOK
<1>2. session[s].value \in Valuations
  BY <1>1 DEF Records
<1>3. Archs \subseteq AllArchs
  BY <1>1, ArchFacts DEF Archs
<1>4. Alone => /\ Sound(session[s], user, wanted)
               /\ session[s].phase = "written" => session[s].temp = Output(session[s])
               /\ \A t \in Sessions : Active(t) => t = s
  BY DEF SettingsInv, SessionsSound, OneSession
<1> QED
  BY <1>1, <1>2, <1>3, <1>4, ValuationFacts

LEMMA StartStep ==
  ASSUME SettingsInv, NEW s \in Sessions, NEW a \in Archs, Start(s, a)
  PROVE  SettingsInv'
<1>1. PICK other \in BOOLEAN :
        session' = [session EXCEPT ![s] =
          [Idle EXCEPT !.phase = "on", !.arch = a, !.source = file, !.dirty = other]]
  BY DEF Start
<1> DEFINE n == [Idle EXCEPT !.phase = "on", !.arch = a, !.source = file, !.dirty = other]
<1>2. user \in Users /\ file \in Stores /\ Archs \subseteq AllArchs
  BY ArchFacts DEF SettingsInv, SettingsTypeOK, Archs
<1>3. n \in Records /\ n.phase = "on" /\ n.arch = a /\ n.source = file /\ n.value = Empty
      /\ n.custom = {} /\ n.changed = {} /\ n.touched = {}
  BY <1>2, EmptyFacts DEF Idle, Records
<1>4. Alone => Sound(n, user, wanted) /\ \A t \in Sessions : Active(t) => t = s
  <2> SUFFICES ASSUME Alone PROVE Sound(n, user, wanted) /\ \A t \in Sessions : Active(t) => t = s
    OBVIOUS
  <2>1. Clean(file, user) /\ Found
    BY DEF SettingsInv
  <2>2. \A t \in Sessions : ~Active(t)
    BY DEF Alone, Start
  <2> HIDE DEF n
  <2>3. Sound(n, user, wanted)
    BY <1>3, <2>1, EmptyFacts DEF Sound, Found, Archs
  <2> QED
    BY <2>2, <2>3
<1>5. session' = [session EXCEPT ![s] = n] /\ UNCHANGED <<file, wanted, user>>
  BY <1>1 DEF Start
<1> HIDE DEF n
<1> QED
  BY <1>3, <1>4, <1>5, RecordStep, EmptyFacts

LEMMA AddItemStep ==
  ASSUME SettingsInv, NEW s \in Sessions, NEW i \in Items, AddItem(s, i)
  PROVE  SettingsInv'
<1> DEFINE r == session[s]
           moves == Moves(r.source, r.arch, i)
           own == moves \/ Key(i, r.arch) \in DOMAIN r.source
           v == Value(r.source, r.arch, i)
           n == [r EXCEPT !.value = With(@, i, v), !.source = Left(@, r.arch, i),
                          !.custom = IF own THEN @ \cup {i} ELSE @,
                          !.changed = IF moves THEN @ \cup {i} ELSE @,
                          !.dirty = @ \/ moves]
<1>1. r.phase = "on" /\ i \notin DOMAIN r.value /\ Active(s)
  BY DEF AddItem, Active
<1>2. session' = [session EXCEPT ![s] = n] /\ UNCHANGED <<file, wanted, user>>
  BY DEF AddItem
<1>3. r \in Records /\ r.source \in Stores /\ r.value \in Valuations
      /\ r.custom \cup r.changed \subseteq DOMAIN r.value /\ DOMAIN r.value \subseteq Items
      /\ user \in Users /\ r.arch \in Archs /\ Archs \subseteq AllArchs
  BY <1>1, UnderWay DEF Records
<1> HIDE DEF r
<1>4. v \in All /\ Left(r.source, r.arch, i) \in Stores
  BY <1>3, ValueType, LeftFacts
<1> HIDE DEF moves, own, v
<1>5. /\ n.phase = "on" /\ n.arch = r.arch /\ n.temp = r.temp /\ n.touched = r.touched
      /\ n.value = With(r.value, i, v) /\ n.source = Left(r.source, r.arch, i)
      /\ n.custom = (IF own THEN r.custom \cup {i} ELSE r.custom)
      /\ n.changed = (IF moves THEN r.changed \cup {i} ELSE r.changed)
  BY <1>1, <1>3 DEF Records
<1>6. With(r.value, i, v) \in Valuations
      /\ DOMAIN With(r.value, i, v) = DOMAIN r.value \cup {i} /\ With(r.value, i, v)[i] = v
      /\ \A j \in DOMAIN r.value \ {i} : With(r.value, i, v)[j] = r.value[j]
  BY ZenonT(30), <1>3, <1>4, WithFacts
<1>7. n \in Records
  <2>1. (IF own THEN r.custom \cup {i} ELSE r.custom) \in SUBSET Items
        /\ (IF moves THEN r.changed \cup {i} ELSE r.changed) \in SUBSET Items /\ (r.dirty \/ moves) \in BOOLEAN
    BY <1>3
  <2> QED
    BY <1>3, <1>4, <1>6, <2>1 DEF Records
<1> HIDE DEF n
<1>8. n.custom \cup n.changed \subseteq DOMAIN n.value
  BY <1>3, <1>5, <1>6
<1>9. ASSUME Alone PROVE Sound(n, user, wanted) /\ \A t \in Sessions : Active(t) => t = s
  <2>1. Sound(r, user, wanted) /\ \A t \in Sessions : Active(t) => t = s
    BY <1>1, <1>9, UnderWay DEF r
  <2>2. /\ DOMAIN n.source = (IF moves THEN DOMAIN r.source \ {OldKey(i, r.arch)} ELSE DOMAIN r.source)
        /\ \A k \in DOMAIN n.source : n.source[k] = r.source[k]
    <3>1. r.source \in Stores /\ r.arch \in AllArchs /\ n.source = Left(r.source, r.arch, i)
      BY <1>3, <1>5
    <3>2. /\ DOMAIN Left(r.source, r.arch, i) =
               IF moves THEN DOMAIN r.source \ {OldKey(i, r.arch)} ELSE DOMAIN r.source
          /\ \A k \in DOMAIN Left(r.source, r.arch, i) : Left(r.source, r.arch, i)[k] = r.source[k]
      BY <3>1, LeftFacts DEF moves
    <3> QED
      BY <3>1, <3>2
  <2>3. Clean(n.source, user)
    BY <2>1, <2>2 DEF Sound, Clean
  <2>4. i \notin r.changed /\ i \notin r.touched
    BY <1>1, <1>3, <2>1 DEF Sound
  <2>5. n.touched \subseteq n.changed
    BY <1>5, <2>1 DEF Sound
  <2>6. moves => i \notin user.extension /\ \A b \in user.archs : b = r.arch
    BY <1>3, <2>1 DEF Sound, Clean, moves, Moves, Archs
  <2>7. ASSUME NEW j \in DOMAIN n.value PROVE OldKey(j, n.arch) \notin DOMAIN n.source
    <3>1. CASE j = i
      <4>1. OldKey(i, r.arch) \in DOMAIN r.source => moves
        BY <1>3, <2>1 DEF Sound, Clean, moves, Moves, Archs
      <4> QED
        BY <1>5, <2>2, <3>1, <4>1
    <3>2. CASE j # i
      BY <1>5, <1>6, <2>1, <2>2, <2>7, <3>2 DEF Sound
    <3> QED
      BY <3>1, <3>2
  <2>8. ASSUME NEW j \in n.changed \ n.touched
        PROVE  j \in n.custom /\ \A b \in user.archs : n.value[j] = wanted[b][j]
    <3>1. CASE j = i
      <4>1. moves /\ own
        BY <1>5, <2>4, <2>8, <3>1 DEF own
      <4>2. v = wanted[r.arch][i]
        BY <1>3, <2>1, <2>4 DEF Sound, v, Archs
      <4> QED
        BY <1>5, <1>6, <2>6, <3>1, <4>1, <4>2
    <3>2. CASE j # i
      <4>1. j \in r.changed \ r.touched
        BY <1>5, <2>8, <3>2
      <4>2. j \in DOMAIN r.value \ {i}
        BY <1>3, <3>2, <4>1
      <4> QED
        BY <1>5, <1>6, <2>1, <4>1, <4>2 DEF Sound
    <3> QED
      BY <3>1, <3>2
  <2>9. ASSUME NEW j \in n.changed \ n.custom PROVE n.value[j] = ResetTo(j)
    <3>1. j # i
      BY <1>5, <2>4, <2>9 DEF own
    <3>2. j \in r.changed \ r.custom
      BY <1>5, <2>9, <3>1
    <3>3. j \in DOMAIN r.value \ {i}
      BY <1>3, <3>1, <3>2
    <3> QED
      BY <1>5, <1>6, <2>1, <3>2, <3>3 DEF Sound
  <2>10. ASSUME NEW b \in user.archs, NEW j \in Items, j \in user.extension \/ j \notin n.changed \/ b # n.arch
         PROVE  Value(n.source, b, j) = wanted[b][j]
    <3>1. Value(r.source, b, j) = wanted[b][j]
      BY <1>5, <2>1, <2>10 DEF Sound
    <3>2. b \in AllArchs /\ r.arch \in AllArchs
      BY <1>3 DEF Archs
    <3>3. moves => j # i
      BY <1>5, <2>6, <2>10
    <3>4. moves => Key(j, b) # OldKey(i, r.arch) /\ OldKey(j, b) # OldKey(i, r.arch)
      BY <3>2, <3>3, KeyFacts
    <3>5. /\ Key(j, b) \in DOMAIN n.source <=> Key(j, b) \in DOMAIN r.source
          /\ OldKey(j, b) \in DOMAIN n.source <=> OldKey(j, b) \in DOMAIN r.source
      BY <2>2, <3>4
    <3> QED
      BY <2>2, <3>1, <3>5 DEF Value, Moves
  <2> QED
    BY <2>1, <2>3, <2>5, <2>7, <2>8, <2>9, <2>10 DEF Sound
<1> QED
  BY <1>2, <1>3, <1>5, <1>7, <1>8, <1>9, RecordStep

LEMMA SetStep ==
  ASSUME SettingsInv, NEW s \in Sessions, NEW i \in Items, NEW v \in Values, Set(s, i, v)
  PROVE  SettingsInv'
<1> DEFINE r == session[s]
           n == [r EXCEPT !.value[i] = v, !.custom = @ \cup {i}, !.changed = @ \cup {i},
                          !.touched = @ \cup {i}, !.dirty = TRUE]
<1>1. r.phase = "on" /\ i \in DOMAIN r.value /\ Active(s)
  BY DEF Set, Active
<1>2. session' = [session EXCEPT ![s] = n] /\ UNCHANGED <<file, wanted, user>>
  BY DEF Set
<1>3. r \in Records /\ r.value \in Valuations /\ r.arch \in Archs
      /\ r.custom \cup r.changed \subseteq DOMAIN r.value /\ DOMAIN r.value \subseteq Items
  BY <1>1, UnderWay DEF Records
<1> HIDE DEF r
<1>4. /\ n.phase = "on" /\ n.arch = r.arch /\ n.temp = r.temp /\ n.source = r.source
      /\ n.touched = r.touched \cup {i} /\ n.custom = r.custom \cup {i} /\ n.changed = r.changed \cup {i}
      /\ n.value = [r.value EXCEPT ![i] = v]
  BY <1>1, <1>3 DEF Records
<1>5. [r.value EXCEPT ![i] = v] \in Valuations /\ DOMAIN [r.value EXCEPT ![i] = v] = DOMAIN r.value
      /\ \A j \in DOMAIN r.value \ {i} : [r.value EXCEPT ![i] = v][j] = r.value[j]
  <2>1. [r.value EXCEPT ![i] = v] \in [DOMAIN r.value -> All] /\ DOMAIN r.value \in SUBSET Items
    BY <1>3, ValuationFacts DEF All
  <2> QED
    BY <2>1, ValuationFacts
<1>6. n \in Records
  BY <1>3, <1>4, <1>5 DEF Records
<1> HIDE DEF n
<1>7. n.custom \cup n.changed \subseteq DOMAIN n.value
  BY <1>1, <1>3, <1>4, <1>5
<1>8. ASSUME Alone PROVE Sound(n, user, wanted) /\ \A t \in Sessions : Active(t) => t = s
  <2>1. Sound(r, user, wanted) /\ \A t \in Sessions : Active(t) => t = s
    BY <1>1, <1>8, UnderWay DEF r
  <2>2. \A j \in n.changed \ n.touched : j \in r.changed \ r.touched /\ j \in DOMAIN r.value \ {i}
    BY <1>3, <1>4
  <2>3. \A j \in n.changed \ n.custom : j \in r.changed \ r.custom /\ j \in DOMAIN r.value \ {i}
    BY <1>3, <1>4
  <2>4. \A j \in n.changed \ n.touched : j \in n.custom /\ \A b \in user.archs : n.value[j] = wanted[b][j]
    BY <1>4, <1>5, <2>1, <2>2 DEF Sound
  <2>5. \A j \in n.changed \ n.custom : n.value[j] = ResetTo(j)
    BY <1>4, <1>5, <2>1, <2>3 DEF Sound
  <2> QED
    BY <1>4, <1>5, <2>1, <2>4, <2>5 DEF Sound
<1> QED
  BY <1>2, <1>3, <1>4, <1>6, <1>7, <1>8, RecordStep

LEMMA ResetStep ==
  ASSUME SettingsInv, NEW s \in Sessions, NEW i \in Items, Reset(s, i)
  PROVE  SettingsInv'
<1> DEFINE r == session[s]
           n == [r EXCEPT !.value[i] = ResetTo(i), !.custom = @ \ {i}, !.changed = @ \cup {i},
                          !.touched = @ \cup {i}, !.dirty = TRUE]
<1>1. r.phase = "on" /\ i \in r.custom /\ Active(s)
  BY DEF Reset, Active
<1>2. session' = [session EXCEPT ![s] = n] /\ UNCHANGED <<file, wanted, user>>
  BY DEF Reset
<1>3. r \in Records /\ r.value \in Valuations /\ r.arch \in Archs /\ i \in DOMAIN r.value
      /\ r.custom \cup r.changed \subseteq DOMAIN r.value /\ DOMAIN r.value \subseteq Items
  BY <1>1, UnderWay DEF Records
<1> HIDE DEF r
<1>4. /\ n.phase = "on" /\ n.arch = r.arch /\ n.temp = r.temp /\ n.source = r.source
      /\ n.touched = r.touched \cup {i} /\ n.custom = r.custom \ {i} /\ n.changed = r.changed \cup {i}
      /\ n.value = [r.value EXCEPT ![i] = ResetTo(i)]
  BY <1>1, <1>3 DEF Records
<1>5. [r.value EXCEPT ![i] = ResetTo(i)] \in Valuations
      /\ DOMAIN [r.value EXCEPT ![i] = ResetTo(i)] = DOMAIN r.value
      /\ [r.value EXCEPT ![i] = ResetTo(i)][i] = ResetTo(i)
      /\ \A j \in DOMAIN r.value \ {i} : [r.value EXCEPT ![i] = ResetTo(i)][j] = r.value[j]
  <2>1. [r.value EXCEPT ![i] = ResetTo(i)] \in [DOMAIN r.value -> All] /\ DOMAIN r.value \in SUBSET Items
    BY <1>3, ValuationFacts, ResetValue
  <2> QED
    BY <1>3, <2>1, ValuationFacts
<1>6. n \in Records
  BY <1>3, <1>4, <1>5 DEF Records
<1> HIDE DEF n
<1>7. n.custom \cup n.changed \subseteq DOMAIN n.value
  BY <1>3, <1>4, <1>5
<1>8. ASSUME Alone PROVE Sound(n, user, wanted) /\ \A t \in Sessions : Active(t) => t = s
  <2>1. Sound(r, user, wanted) /\ \A t \in Sessions : Active(t) => t = s
    BY <1>1, <1>8, UnderWay DEF r
  <2>2. \A j \in n.changed \ n.touched : j \in r.changed \ r.touched /\ j \in DOMAIN r.value \ {i}
    BY <1>3, <1>4
  <2>3. \A j \in n.changed \ n.custom : j = i \/ (j \in r.changed \ r.custom /\ j \in DOMAIN r.value \ {i})
    BY <1>3, <1>4
  <2>4. \A j \in n.changed \ n.touched : j \in n.custom /\ \A b \in user.archs : n.value[j] = wanted[b][j]
    BY <1>4, <1>5, <2>1, <2>2 DEF Sound
  <2>5. \A j \in n.changed \ n.custom : n.value[j] = ResetTo(j)
    BY <1>4, <1>5, <2>1, <2>3 DEF Sound
  <2> QED
    BY <1>4, <1>5, <2>1, <2>4, <2>5 DEF Sound
<1> QED
  BY <1>2, <1>3, <1>4, <1>6, <1>7, <1>8, RecordStep

LEMMA ObliterateStep ==
  ASSUME SettingsInv, NEW s \in Sessions, NEW i \in Items, Obliterate(s, i)
  PROVE  SettingsInv'
<1> DEFINE r == session[s]
           n == [r EXCEPT !.value = Without(@, i), !.custom = @ \ {i}, !.changed = @ \ {i},
                          !.touched = @ \ {i}, !.dirty = TRUE]
<1>1. r.phase = "on" /\ i \in user.extension /\ Active(s)
  BY DEF Obliterate, Active, Extension
<1>2. session' = [session EXCEPT ![s] = n] /\ UNCHANGED <<file, wanted, user>>
  BY DEF Obliterate
<1>3. r \in Records /\ r.value \in Valuations /\ r.arch \in Archs
      /\ r.custom \cup r.changed \subseteq DOMAIN r.value /\ DOMAIN r.value \subseteq Items
  BY <1>1, UnderWay DEF Records
<1> HIDE DEF r
<1>4. /\ n.phase = "on" /\ n.arch = r.arch /\ n.temp = r.temp /\ n.source = r.source
      /\ n.touched = r.touched \ {i} /\ n.custom = r.custom \ {i} /\ n.changed = r.changed \ {i}
      /\ n.value = Without(r.value, i)
  BY <1>1, <1>3 DEF Records
<1>5. Without(r.value, i) \in Valuations /\ DOMAIN Without(r.value, i) = DOMAIN r.value \ {i}
      /\ \A j \in DOMAIN r.value \ {i} : Without(r.value, i)[j] = r.value[j]
  BY <1>3, WithoutFacts
<1>6. n \in Records
  BY <1>3, <1>4, <1>5 DEF Records
<1> HIDE DEF n
<1>7. n.custom \cup n.changed \subseteq DOMAIN n.value
  BY <1>3, <1>4, <1>5
<1>8. ASSUME Alone PROVE Sound(n, user, wanted) /\ \A t \in Sessions : Active(t) => t = s
  <2>1. Sound(r, user, wanted) /\ \A t \in Sessions : Active(t) => t = s
    BY <1>1, <1>8, UnderWay DEF r
  <2>2. \A j \in n.changed \ n.touched : j \in r.changed \ r.touched /\ j \in DOMAIN r.value \ {i}
    BY <1>3, <1>4
  <2>3. \A j \in n.changed \ n.custom : j \in r.changed \ r.custom /\ j \in DOMAIN r.value \ {i}
    BY <1>3, <1>4
  <2>4. \A j \in n.changed \ n.touched : j \in n.custom /\ \A b \in user.archs : n.value[j] = wanted[b][j]
    BY <1>4, <1>5, <2>1, <2>2 DEF Sound
  <2>5. \A j \in n.changed \ n.custom : n.value[j] = ResetTo(j)
    BY <1>4, <1>5, <2>1, <2>3 DEF Sound
  <2>6. \A b \in user.archs, j \in Items :
          j \in user.extension \/ j \notin n.changed \/ b # n.arch => Value(n.source, b, j) = wanted[b][j]
    BY <1>1, <1>4, <2>1 DEF Sound
  <2> QED
    BY <1>4, <1>5, <2>1, <2>4, <2>5, <2>6 DEF Sound
<1> QED
  BY <1>2, <1>3, <1>4, <1>6, <1>7, <1>8, RecordStep

LEMMA EndStep ==
  ASSUME SettingsInv, ~Fails, NEW s \in Sessions, End(s)
  PROVE  SettingsInv'
<1> DEFINE r == session[s]
           out == Output(r)
           n == [r EXCEPT !.phase = "written", !.temp = out]
<1>1. r.phase = "on" /\ Active(s) /\ UNCHANGED <<file, wanted, user>>
  BY DEF End, Active
<1>2. session' = [session EXCEPT ![s] = IF r.dirty THEN n ELSE Idle]
  BY DEF End
<1>3. r \in Records /\ r.arch \in Archs /\ r.custom \cup r.changed \subseteq DOMAIN r.value
  BY <1>1, UnderWay
<1>4. CASE r.dirty
  <2>1. out \in Stores
    BY <1>3, OutputFacts
  <2> HIDE DEF out, r
  <2>2. /\ n.phase = "written" /\ n.temp = out /\ n.arch = r.arch /\ n.source = r.source /\ n.value = r.value
        /\ n.custom = r.custom /\ n.changed = r.changed /\ n.touched = r.touched
    BY <1>3 DEF Records
  <2>3. n \in Records
    BY <1>3, <2>1 DEF Records
  <2>4. Output(n) = out
    BY <2>2 DEF Output, out
  <2> HIDE DEF n
  <2>5. ASSUME Alone PROVE Sound(n, user, wanted) /\ \A t \in Sessions : Active(t) => t = s
    <3>1. Sound(r, user, wanted) /\ \A t \in Sessions : Active(t) => t = s
      BY <1>1, <2>5, UnderWay DEF r
    <3> QED
      BY <2>2, <3>1 DEF Sound
  <2>6. session' = [session EXCEPT ![s] = n]
    BY <1>2, <1>4
  <2> QED
    BY <1>1, <1>3, <2>2, <2>3, <2>4, <2>5, <2>6, RecordStep
<1>5. CASE ~r.dirty
  <2>1. session' = [session EXCEPT ![s] = Idle]
    BY <1>2, <1>5
  <2> QED
    BY <1>1, <2>1, EmptyFacts, RecordStep
<1> QED
  BY <1>4, <1>5

LEMMA CrashStep ==
  ASSUME SettingsInv, NEW s \in Sessions, Crash(s)
  PROVE  SettingsInv'
BY EmptyFacts, RecordStep DEF Crash

LEMMA ReplaceStep ==
  ASSUME SettingsInv, NEW s \in Sessions, Replace(s)
  PROVE  SettingsInv'
<1> DEFINE r == session[s]
<1>1. r.phase = "written" /\ Active(s) /\ file' = r.temp /\ user' = user
      /\ session' = [session EXCEPT ![s] = Idle]
  BY DEF Replace, Active
<1>2. r \in Records /\ r.arch \in Archs /\ r.custom \cup r.changed \subseteq DOMAIN r.value
      /\ user \in Users /\ session \in [Sessions -> Records]
  BY <1>1, UnderWay DEF SettingsInv, SettingsTypeOK
<1>3. session'[s] = Idle /\ \A t \in Sessions \ {s} : session'[t] = session[t]
  BY <1>1, <1>2
<1>4. Archs' = Archs /\ ~Active(s)' /\ \A t \in Sessions \ {s} : Active(t)' <=> Active(t)
  BY <1>1, <1>3, EmptyFacts DEF Archs, Active
<1>5. SettingsTypeOK'
  <2>1. r.temp \in Stores /\ session' \in [Sessions -> Records]
    BY <1>1, <1>2, EmptyFacts DEF Records
  <2>2. ASSUME NEW t \in Sessions, Active(t)'
        PROVE  /\ session'[t].arch \in Archs'
               /\ session'[t].custom \cup session'[t].changed \subseteq DOMAIN session'[t].value
    BY <1>3, <1>4, <2>2 DEF SettingsInv, SettingsTypeOK
  <2> QED
    BY <1>1, <1>2, <2>1, <2>2 DEF SettingsTypeOK
<1>6. ASSUME Alone'
      PROVE  (Found /\ Clean(file, user) /\ OneSession /\ SessionsSound)'
  <2>1. Alone
    BY <1>1, <1>6 DEF Alone, Overlap
  <2>2. Sound(r, user, wanted) /\ r.temp = Output(r) /\ \A t \in Sessions : Active(t) => t = s
    BY <1>1, <2>1, UnderWay
  <2>3. wanted' = [a \in Archs |-> [i \in Items |->
          IF i \in r.touched /\ (i \notin ByArch \/ a = r.arch) THEN r.value[i] ELSE wanted[a][i]]]
    BY DEF Replace
  <2> HIDE DEF r
  <2>4. /\ Clean(Output(r), user)
        /\ \A b \in user.archs, i \in Items :
             Value(Output(r), b, i) =
               IF i \in r.touched /\ (i \notin ByArch \/ b = r.arch) THEN r.value[i] ELSE wanted[b][i]
    BY <1>2, <2>2, OutputRight DEF Archs
  <2>5. Found'
    <3> SUFFICES ASSUME NEW a \in Archs, NEW i \in Items PROVE Value(r.temp, a, i) = wanted'[a][i]
      BY <1>1, <1>4 DEF Found
    <3> QED
      BY <2>2, <2>3, <2>4 DEF Archs
  <2>6. \A t \in Sessions : ~Active(t)'
    BY <1>4, <2>2
  <2> QED
    BY <1>1, <2>2, <2>4, <2>5, <2>6 DEF OneSession, SessionsSound
<1> QED
  BY <1>5, <1>6 DEF SettingsInv

LEMMA StepHolds == ASSUME ~Fails, SettingsInv, [SettingsNext]_settingsVars PROVE SettingsInv'
<1>1. ASSUME NEW s \in Sessions, NEW a \in Archs, Start(s, a) PROVE SettingsInv'
  BY <1>1, StartStep
<1>2. ASSUME NEW s \in Sessions, NEW i \in Items, AddItem(s, i) PROVE SettingsInv'
  BY <1>2, AddItemStep
<1>3. ASSUME NEW s \in Sessions, NEW i \in Items, Reset(s, i) PROVE SettingsInv'
  BY <1>3, ResetStep
<1>4. ASSUME NEW s \in Sessions, NEW i \in Items, Obliterate(s, i) PROVE SettingsInv'
  BY <1>4, ObliterateStep
<1>5. ASSUME NEW s \in Sessions, NEW i \in Items, NEW v \in Values, Set(s, i, v) PROVE SettingsInv'
  BY <1>5, SetStep
<1>6. ASSUME NEW s \in Sessions, End(s) PROVE SettingsInv'
  BY <1>6, EndStep
<1>7. ASSUME NEW s \in Sessions, Replace(s) PROVE SettingsInv'
  BY <1>7, ReplaceStep
<1>8. ASSUME NEW s \in Sessions, Crash(s) PROVE SettingsInv'
  BY <1>8, CrashStep
<1>9. ASSUME UNCHANGED settingsVars PROVE SettingsInv'
  BY <1>9 DEF settingsVars, SettingsInv, SettingsTypeOK, Alone, Overlap, Found, Archs, OneSession, SessionsSound, Active
<1> QED
  BY <1>1, <1>2, <1>3, <1>4, <1>5, <1>6, <1>7, <1>8, <1>9 DEF SettingsNext

LEMMA SettingsInvariance == ASSUME ~Fails PROVE SettingsSpec => []SettingsInv
<1>1. SettingsInv /\ [SettingsNext]_settingsVars => SettingsInv'
  BY StepHolds
<1> QED
  BY <1>1, SettingsInitHolds, PTL DEF SettingsSpec

\* The settings are at all times those of some session, complete: whatever crashes, whoever
\* the users are and however many sessions run at the same time (OverwriteFile.pm), as long
\* as writing itself does not fail unnoticed.
THEOREM AlwaysWhole == ASSUME ~Fails PROVE SettingsSpec => []Whole
<1>1. SettingsInv => Whole
  BY WholeStore DEF SettingsInv, SettingsTypeOK, Whole
<1> QED
  BY <1>1, SettingsInvariance, PTL

\* Every session finds each item as it was last saved, for any number of items, architectures
\* and sessions, crashes included: if sessions do not overlap, and keys of before a change of
\* the by_arch flag are left only where nobody else needs them (UserSettings.pm).
THEOREM NothingLost ==
  ASSUME ~Fails, \A u \in Users : Settled(u)
  PROVE  SettingsSpec => []Persisted
<1>1. SettingsInv => Persisted
  <2> SUFFICES ASSUME SettingsInv, ~Overlap, NEW a \in Archs, NEW i \in Items
               PROVE  Value(Contents(file), a, i) = wanted[a][i]
    BY DEF Persisted
  <2>1. Found
    BY DEF SettingsInv, SettingsTypeOK, Alone
  <2>2. Contents(file) = file
    BY WholeStore DEF SettingsInv, SettingsTypeOK, Contents
  <2> QED
    BY <2>1, <2>2 DEF Found
<1> QED
  BY <1>1, SettingsInvariance, PTL
=============================================================================
