-------------------------- MODULE SnapshotStack --------------------------
(* What transactions promise: a stack of snapshots of the whole tree of objects.  Work  *)
(* changes the tree; a transaction that is given up restores the snapshot taken at its  *)
(* start, subobjects included; a rule that succeeds adds what did not exist before and  *)
(* leaves the rest alone.                                                               *)
EXTENDS Naturals, Sequences

VARIABLES view,   \* object => property => value
          saved   \* the open transactions: the snapshot, and whether a rule works in it

vars == <<view, saved>>

Init == saved = <<>>

(* The snapshot is taken before the work of the step (a rule's outputs hide what was    *)
(* there) or after it.                                                                  *)
Begin == \E now \in {view, view'}, rule \in BOOLEAN : saved' = Append(saved, [view |-> now, rule |-> rule])

Work == UNCHANGED saved

Commit ==
  /\ saved # <<>> /\ (saved[Len(saved)].rule => Len(saved) > 1)
  /\ saved' = SubSeq(saved, 1, Len(saved) - 1)
  /\ UNCHANGED view

PartOf(v, w) ==
  \A o \in DOMAIN v : o \in DOMAIN w /\ \A k \in DOMAIN v[o] : k \in DOMAIN w[o] /\ v[o][k] = w[o][k]

(* Committed and saved: temporary properties go, the others stay as they are.           *)
CommitAndSave ==
  /\ Len(saved) = 1 /\ ~saved[1].rule
  /\ saved' = <<>>
  /\ PartOf(view', view)

(* The outermost rule succeeds: every property keeps its value from before.             *)
CommitRule ==
  /\ Len(saved) = 1 /\ saved[1].rule
  /\ saved' = <<>>
  /\ PartOf(saved[1].view, view')

(* The transactions from the i-th on are given up.                                      *)
Abort(i) ==
  /\ view' = saved[i].view
  /\ saved' = SubSeq(saved, 1, i - 1)

Next == Begin \/ Work \/ Commit \/ CommitAndSave \/ CommitRule \/ \E i \in DOMAIN saved : Abort(i)

Spec == Init /\ [][Next]_vars
=============================================================================
