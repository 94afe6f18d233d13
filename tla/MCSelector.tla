----------------------------- MODULE MCSelector -----------------------------
(* Circumstances for Selector: two viewers with drawings that do not fit into a channel *)
(* and with feedback that is answered, viewers that are closed, and one viewer whose    *)
(* lines are cut, to which much is printed at once, or which is closed meanwhile.       *)
EXTENDS Selector

CONSTANTS v1, v2

Busy     == [viewers |-> {v1, v2}, prints |-> 2, told |-> 1, cut |-> FALSE, answers |-> TRUE,
             burst |-> FALSE, closes |-> FALSE, lines |-> 2]
Leaving  == [Busy EXCEPT !.prints = 0, !.told = 2, !.closes = TRUE]
Cutting  == [Busy EXCEPT !.viewers = {v1}, !.cut = TRUE, !.told = 2]
Bursting == [Busy EXCEPT !.viewers = {v1}, !.burst = TRUE, !.prints = 3, !.told = 2]
Dying    == [Busy EXCEPT !.viewers = {v1}, !.closes = TRUE]

All == {Busy, Leaving, Cutting, Bursting, Dying}
=============================================================================
