---------------------------- MODULE MCWebProcess ----------------------------
(***************************************************************************)
(* What the web process does for its webhooks: the sync of Kong routes     *)
(* (with the coding worker), customer support, and the assistant.  They    *)
(* share no data, so that one behaviour exercises one of them, named by    *)
(* part.                                                                   *)
(***************************************************************************)
EXTENDS KongRouteSync, ZohoPipeline, SlackAssistant, TLC

CONSTANTS d1, d2, d3, pr1, pr2,                     \* of Kong route sync
          ticket, mail1, mail2, mail3,          \* of customer support
          detector, syncer, notifier, drafter, filer

VARIABLE part       \* constant: which of them moves

(* pr1 is a merged change of routes, which two deliveries report; pr2 was  *)
(* closed without a merge.                                                 *)
MCPullOf == d1 :> pr1 @@ d2 :> pr1 @@ d3 :> pr2

(* One part is about a new ticket, with its first mail, another about mails *)
(* of a ticket that overlapping deliveries report; support wrote mail3.    *)
MCTicketOf == [m \in Mails |-> ticket]
MCBodies == {{TicketAdd(ticket)}, {ThreadAdd(mail1), ThreadAdd(mail3)},
             {ThreadAdd(mail1), ThreadAdd(mail2)}}

MCQueues == {DetectQueue, SyncQueue, NotifyQueue, DraftQueue, Form9Queue}
MCJobs == KongJobs \cup ZohoJobs
MCQueueOf ==
    [id \in MCJobs |-> IF id \in Deliveries THEN DetectQueue
                       ELSE IF id \in Pulls THEN SyncQueue
                       ELSE IF id \in Notices THEN NotifyQueue
                       ELSE IF id \in Drafts THEN DraftQueue ELSE Form9Queue]
MCServedBy == detector :> DetectQueue @@ syncer :> SyncQueue
              @@ notifier :> NotifyQueue @@ drafter :> DraftQueue
              @@ filer :> Form9Queue
MCPlaces == {"idle", "returned", "threw"} \cup KongAwaits \cup ZohoAwaits
MCAttemptsOf == [q \in MCQueues |-> IF q = SyncQueue THEN 1 ELSE 2]
MCKeepOf == [q \in MCQueues |-> 100]

procVars == <<queues, attempts, faults>>
vars == <<procVars, kongVars, zohoVars, assistantVars, part>>

Init ==
    /\ part \in {"kong", "ticket", "mails", "assistant"}
    /\ ProcessorsInit /\ KongInit /\ ZohoInit /\ AssistantInit

(* A bound: the larger parts have fewer faults.  Mails have one, a pull    *)
(* request another one in its second sync, after all that is delivered.    *)
Bounded ==
    /\ part = "mails" => faults' <= 1
    /\ part = "kong" => \/ faults' <= 1
                        \/ syncs[pr1] = 2 /\ Settled(d1) /\ Settled(d2)

(* A step of one part leaves the others alone.                             *)
Syncing(A)    == /\ part = "kong" /\ A /\ Bounded
                 /\ UNCHANGED <<zohoVars, assistantVars, part>>
Supporting(A) == /\ part \in {"ticket", "mails"} /\ A /\ Bounded
                 /\ IF part = "ticket" THEN mails' \subseteq {mail1} /\ told' \subseteq {TicketAdd(ticket)}
                                       ELSE TicketAdd(ticket) \notin told'
                 /\ UNCHANGED <<kongVars, assistantVars, part>>
Assisting(A)  == part = "assistant" /\ A /\ UNCHANGED <<procVars, kongVars, zohoVars, part>>

Next == Syncing(KongNext) \/ Supporting(ZohoNext) \/ Assisting(AssistantNext)

Progress ==
    Syncing(KongProgress) \/ Supporting(ZohoProgress) \/ Assisting(AssistantProgress)

Spec == Init /\ [][Next]_vars /\ WF_vars(Progress)

(* The types of all parts.                                                 *)
TypesOK == ProcessorsTypeOK /\ KongTypeOK /\ ZohoTypeOK /\ AssistantTypeOK

(* Whatever a webhook started comes to an end, unless an agent does not.   *)
EverythingSettles == EverySyncSettles /\ EveryTicketSettles /\ EveryMentionEnds
=============================================================================
