----------------------------- MODULE PledgeBook -----------------------------
(***************************************************************************)
(* What the snacks ledger promises: a pledge is recorded once, then owed   *)
(* until it is settled, and settled for good.                              *)
(***************************************************************************)
CONSTANT Pledges

VARIABLES owed, settled     \* sets of pledges

bookVars == <<owed, settled>>

BookInit == owed = {} /\ settled = {}

Owe(p) ==
    /\ p \notin owed \cup settled
    /\ owed' = owed \cup {p}
    /\ UNCHANGED settled

Settle(p) ==
    /\ p \in owed
    /\ owed' = owed \ {p}
    /\ settled' = settled \cup {p}

BookNext == \E p \in Pledges : Owe(p) \/ Settle(p)

BookSpec == BookInit /\ [][BookNext]_bookVars
=============================================================================
