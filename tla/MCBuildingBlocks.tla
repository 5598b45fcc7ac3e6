-------------------------- MODULE MCBuildingBlocks --------------------------
(***************************************************************************)
(* The parts the processors are built from, each on its own: a queue, the  *)
(* plan of leave days, the ledger of snacks, the lookup of Form 9, the     *)
(* token of Zoho Desk and the bridge to Teleport.  They share no data, so  *)
(* that one behaviour exercises one of them, named by part.                *)
(***************************************************************************)
EXTENDS JobQueue, LeavePlan, SnacksLedger, Form9Mapping, ZohoToken,
        TeleportBridge, TLC

CONSTANTS MaxEntries,       \* bound: entries of one classification
          MaxRows,          \* bound: rows of a mapping
          p1, ana, bob, r1, r2, t1, t2

VARIABLE part               \* constant: which of them moves

(* The days around a Friday, from Wednesday to Tuesday.                    *)
MCCalendar == 2..8

(* Half days of WFH, the weakest entries, are left out.                    *)
MCEntries == {e \in Entry : e.leave \/ e.fullDay}

MCClassifications == UNION {[1..n -> MCEntries] : n \in 0..MaxEntries}

OneOwner == p1 :> ana

(* Two rails, one of them with a category and a leaf.                      *)
MCNodes == ({"rail1"} \X {"cat", "-"} \X {"leaf", "-"}) \cup {<<"rail2", "-", "-">>}
MCRows == [node : MCNodes, treatment : {"x", "y"}]
MCTables == UNION {[1..n -> MCRows] : n \in 1..MaxRows}

(* The calls of one kind are interchangeable.  Only the ledger, of which   *)
(* no liveness is checked, tells them apart.                               *)
Symmetry == Permutations({r1, r2}) \cup Permutations({t1, t2})

others == <<mappingVars, tokenVars, bridgeVars, part>>
vars == <<queueVars, planVars, ledgerVars, others>>

Init ==
    /\ part \in {"queue", "plan", "ledger", "mapping", "token", "bridge"}
    /\ QueueInit /\ LedgerInit /\ TokenInit /\ BridgeInit
    /\ IF part = "plan" THEN PlanInit
       ELSE /\ entries = <<>> /\ next = 1 /\ marks = [d \in Calendar |-> 0]
            /\ skipped = {} /\ invalidRanges = {}
    /\ IF part = "mapping" THEN MappingInit
       ELSE rows = <<>> /\ asked = <<Blank, Blank, Blank>> /\ found = Nothing

(* A step of one part leaves the others alone.                             *)
Queueing(A) == part = "queue" /\ A /\ UNCHANGED <<planVars, ledgerVars, others>>

(* The plan is finished: the one part that stops.                          *)
PlanDone == next > Len(entries) /\ UNCHANGED planVars

Next ==
    \/ Queueing(QueueNext)
    \/ /\ part = "plan" /\ (PlanEntry \/ PlanDone)
       /\ UNCHANGED <<queueVars, ledgerVars, others>>
    \/ /\ part = "ledger" /\ LedgerNext
       /\ UNCHANGED <<queueVars, planVars, others>>
    \/ /\ UNCHANGED <<queueVars, planVars, ledgerVars, part>>
       /\ \/ part = "mapping" /\ MappingNext /\ UNCHANGED <<tokenVars, bridgeVars>>
          \/ part = "token" /\ TokenNext /\ UNCHANGED <<mappingVars, bridgeVars>>
          \/ part = "bridge" /\ BridgeNext /\ UNCHANGED <<mappingVars, tokenVars>>

Fairness ==
    /\ WF_vars(Queueing(\E w \in Workers : Serve(w)))
    /\ \A id \in Jobs : WF_vars(Queueing(GoesOn(id)))

Spec == Init /\ [][Next]_vars /\ Fairness

(* The types of all parts.                                                 *)
TypesOK == QueueTypeOK /\ PlanTypeOK /\ LedgerTypeOK /\ TokenTypeOK /\ BridgeTypeOK
=============================================================================
