--------------------------- MODULE MCInterrupts ----------------------------
(* Circumstances for Interrupts: rules without evals, signals while they run; signals   *)
(* in blocked sections, also while a line is read; and signals anywhere.                *)
EXTENDS Interrupts

Calm == [kinds |-> {"block", "rule"}, hit |-> {"command", "rule", "between"},
         nesting |-> TRUE, prompt |-> TRUE, errors |-> TRUE, depth |-> 6]

Deferring == [kinds |-> {"block", "eval"}, hit |-> {"command", "block", "input", "between"},
              nesting |-> FALSE, prompt |-> TRUE, errors |-> FALSE, depth |-> 5]

Plain == [Deferring EXCEPT !.kinds = {"block"}, !.hit = @ \ {"input"}]

Anywhere == [kinds |-> {"block", "rule", "eval"},
             hit |-> {"input", "between", "command", "block", "rule", "cleanup"},
             nesting |-> TRUE, prompt |-> FALSE, errors |-> TRUE, depth |-> 5]

All == {Calm, Deferring, Plain, Anywhere}
=============================================================================
