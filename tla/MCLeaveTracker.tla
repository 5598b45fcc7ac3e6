--------------------------- MODULE MCLeaveTracker ---------------------------
(* Small instances of the leave tracker.                                   *)
EXTENDS LeaveTracker, TLC

CONSTANTS root, reply, other, d1, d2, earned, wfh

Ignore  == [intent |-> "ignore",  marks |-> NoPlan, clean |-> TRUE]
Clarify == [intent |-> "clarify", marks |-> NoPlan, clean |-> TRUE]
Mark(marks) == [intent |-> "mark", marks |-> marks, clean |-> TRUE]
MarkSome(marks) == [intent |-> "mark", marks |-> marks, clean |-> FALSE]

AllDays(t) == [d \in Days |-> t]

(* The classifier is a language model: it may read one message in several  *)
(* ways, a different one on each attempt.                                  *)
Wavering == [m \in Messages |-> {Ignore, Clarify, Mark(d1 :> earned @@ d2 :> None),
                     MarkSome(AllDays(wfh))}]

TwoReadings == root :> {Mark(AllDays(earned)), Mark(AllDays(wfh))}

OneWay == reply :> {Mark(AllDays(wfh))}

(* The processes are interchangeable.                                      *)
Symmetry == Permutations(Workers)

=============================================================================
