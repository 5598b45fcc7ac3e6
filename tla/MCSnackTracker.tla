--------------------------- MODULE MCSnackTracker ---------------------------
(* Small instances of the snack tracker.                                   *)
EXTENDS SnackTracker, TLC

CONSTANTS m1, ana

AllSure == [m \in Messages |-> {TRUE}]
Unsure == [m \in Messages |-> BOOLEAN]
Author == [m \in Messages |-> ana]
=============================================================================
