---------------------------- MODULE ZohoPipeline ----------------------------
(***************************************************************************)
(* Customer support: Zoho Desk reports tickets and mails by webhook; every *)
(* mail of a customer, and every new ticket, gets a draft of a reply as a  *)
(* private comment, and a new ticket its Form 9 fields.  The web process   *)
(* serves both queues, and answers the webhook.                            *)
(*                                                                         *)
(* After a restart its processors take jobs at once, before the agents are *)
(* registered, which waits for the MCP clients.                            *)
(***************************************************************************)
EXTENDS Processors

CONSTANTS
    Tickets, Mails, TicketOf,       \* mails and the ticket each belongs to
    Incoming,                       \* those that customers wrote
    Bodies,                         \* sets of events one delivery may report
    Treatments                      \* what lookupForm9 derives

TicketAdd(t) == <<"Ticket_Add", t>>
ThreadAdd(m) == <<"Ticket_Thread_Add", m>>

DraftQueue == "customer-support"
Form9Queue == "form9"

(* The job of a draft has the mail's id, or the ticket's; so has that of   *)
(* the classification, in a queue of its own.                              *)
Drafts == Mails \cup Tickets
Form9Job(t) == <<"form9", t>>
Form9Jobs == {Form9Job(t) : t \in Tickets}

(* What the attempts of the two processors await.                          *)
ZohoAwaits == {"reading", "drafting", "commenting", "classifying", "updating"}

ASSUME ZohoAssumption ==
    /\ TicketOf \in [Mails -> Tickets]
    /\ Mails \cap Tickets = {}          \* no two things in Zoho share an id
    /\ Incoming \subseteq Mails
    /\ Drafts \cup Form9Jobs \subseteq Jobs
    /\ ZohoAwaits \subseteq Places
    /\ \A id \in Drafts : QueueOf[id] = DraftQueue
    /\ \A id \in Form9Jobs : QueueOf[id] = Form9Queue
    /\ \A b \in Bodies : b \subseteq {TicketAdd(t) : t \in Tickets}
                                     \cup {ThreadAdd(m) : m \in Mails}
    /\ None \notin Treatments

VARIABLES
    ready,          \* the web process has registered its agents and listens
    mails,          \* the mails in Zoho
    told,           \* events the webhook accepted
    adds,           \* the jobs its listeners are adding
    seen,           \* the conversation each draft has in view
    found,          \* what the classification of each attempt derived
    comments,       \* comments each job has posted
    covered,        \* mails a comment was written about
    fields          \* the Form 9 fields of each ticket

zohoVars == <<ready, mails, told, adds, seen, found, comments, covered, fields>>

ZohoTypeOK ==
    /\ ready \in BOOLEAN
    /\ mails \subseteq Mails /\ covered \subseteq mails
    /\ told \subseteq UNION Bodies
    /\ adds \subseteq Drafts \cup Form9Jobs
    /\ seen \in [Workers -> SUBSET Mails]
    /\ found \in [Workers -> Treatments \cup {None}]
    /\ comments \in [Drafts -> Nat]
    /\ fields \in [Tickets -> Treatments \cup {None}]
    /\ \A w \in Workers : at[w] = "updating" => found[w] # None

ZohoInit ==
    /\ ready = TRUE
    /\ mails = {} /\ told = {} /\ adds = {} /\ covered = {}
    /\ seen = [w \in Workers |-> {}]
    /\ found = [w \in Workers |-> None]
    /\ comments = [id \in Drafts |-> 0]
    /\ fields = [t \in Tickets |-> None]

-----------------------------------------------------------------------------
(* A mail comes in, or support writes one.                                 *)
Arrive(m) ==
    /\ mails' = mails \cup {m}
    /\ UNCHANGED <<queues, attempts, faults, ready, told, adds, seen, found,
                   comments, covered, fields>>

Happened(e) ==
    IF e[1] = "Ticket_Add" THEN \E m \in mails : TicketOf[m] = e[2]
                           ELSE e[2] \in mails

(* Variants, each named for the slip it makes, stand before what they      *)
(* replace: the runs show that the properties tell them apart.             *)
JobsOfTicket(e) ==
    IF e[1] = "Ticket_Add" THEN {e[2], Form9Job(e[2])}
    ELSE IF e[2] \in Incoming THEN {TicketOf[e[2]]} ELSE {}

(* dispatch: what the listeners of the event it emits add.                 *)
JobsFor(e) ==
    IF e[1] = "Ticket_Add" THEN {e[2], Form9Job(e[2])}
    ELSE IF e[2] \in Incoming THEN {e[2]} ELSE {}

(* A delivery, possibly repeated.  One that cannot be verified, for want   *)
(* of Zoho's keys too, is answered as any other and forgotten.  The adds   *)
(* of another went to Redis before, on the same connection.                *)
HandleWebhook(b, o) ==
    /\ ready /\ adds = {} /\ o # "late"
    /\ \A e \in b : Happened(e)
    /\ Outcome(o)
    /\ IF o = "ok" THEN /\ told' = told \cup b
                        /\ adds' = adds \cup UNION {JobsFor(e) : e \in b}
                   ELSE UNCHANGED <<told, adds>>
    /\ UNCHANGED <<queues, attempts, ready, mails, seen, found, comments,
                   covered, fields>>

(* A listener's add: an error is only logged.                              *)
AddJob(id, o) ==
    /\ id \in adds
    /\ Outcome(o)
    /\ TryEnqueue(id, o)
    /\ adds' = adds \ {id}
    /\ UNCHANGED <<attempts, ready, mails, told, seen, found, comments,
                   covered, fields>>

-----------------------------------------------------------------------------
(* CustomerSupportProcessor and Form9Processor begin alike.                *)
TakeTicket(w, id) == Begin(w, id, "reading") /\ UNCHANGED zohoVars

TicketAt(w) ==
    IF cur[w] \in Tickets THEN cur[w]
    ELSE IF cur[w] \in Mails THEN TicketOf[cur[w]] ELSE cur[w][2]

(* getTicket and then getConversations; the agent is asked at once.  What  *)
(* is read is one page (zoho-desk.service.ts:86), which is taken to have   *)
(* all mails of the ticket.                                                *)
ReadTicket(w, o) ==
    /\ at[w] = "reading"
    /\ Outcome(o)
    /\ IF o # "ok" \/ ~ready THEN GoTo(w, "threw") /\ UNCHANGED seen
       ELSE IF cur[w] \in Form9Jobs THEN GoTo(w, "classifying") /\ UNCHANGED seen
       ELSE /\ GoTo(w, "drafting")
            /\ seen' = [seen EXCEPT ![w] = {m \in mails : TicketOf[m] = TicketAt(w)}]
    /\ UNCHANGED <<queues, cur, ready, mails, told, adds, found, comments,
                   covered, fields>>

(* A draft, a note that this is no request, or, where the agent's steps    *)
(* are used up, an empty text: all become a comment.  Or the agent errs.   *)
Draft(w, failed) ==
    /\ at[w] = "drafting"
    /\ IF failed THEN Mishap ELSE UNCHANGED faults
    /\ GoTo(w, IF failed THEN "threw" ELSE "commenting")
    /\ UNCHANGED <<queues, cur, zohoVars>>

CommentUnheard(w, o) ==
    /\ at[w] = "commenting"
    /\ Outcome(o)
    /\ IF o = "lost" THEN UNCHANGED <<comments, covered>>
       ELSE /\ comments' = [comments EXCEPT ![cur[w]] = @ + 1]
            /\ covered' = covered \cup seen[w]
    /\ GoTo(w, "returned")
    /\ UNCHANGED <<queues, cur, ready, mails, told, adds, seen, found, fields>>

AddPrivateComment(w, o) ==
    /\ at[w] = "commenting"
    /\ Outcome(o)
    /\ IF o = "lost" THEN UNCHANGED <<comments, covered>>
       ELSE /\ comments' = [comments EXCEPT ![cur[w]] = @ + 1]
            /\ covered' = covered \cup seen[w]
    /\ GoTo(w, IF o = "ok" THEN "returned" ELSE "threw")
    /\ UNCHANGED <<queues, cur, ready, mails, told, adds, seen, found, fields>>

ClassifyAnyhow(w, r, failed) ==
    /\ at[w] = "classifying"
    /\ IF failed THEN Mishap /\ r = None ELSE UNCHANGED faults
    /\ found' = [found EXCEPT ![w] = r]
    /\ GoTo(w, IF failed THEN "threw" ELSE "updating")
    /\ UNCHANGED <<queues, cur, ready, mails, told, adds, seen, comments,
                   covered, fields>>

(* The classifier names a node, which lookupForm9 may not find (None);    *)
(* or it errs.                                                             *)
Classify(w, r, failed) ==
    /\ at[w] = "classifying"
    /\ IF failed THEN Mishap /\ r = None ELSE UNCHANGED faults
    /\ found' = [found EXCEPT ![w] = r]
    /\ GoTo(w, IF failed THEN "threw"
               ELSE IF r = None THEN "returned" ELSE "updating")
    /\ UNCHANGED <<queues, cur, ready, mails, told, adds, seen, comments,
                   covered, fields>>

UpdateTicketCustomFields(w, o) ==
    /\ at[w] = "updating"
    /\ Outcome(o)
    /\ fields' = IF o = "lost" THEN fields
                 ELSE [fields EXCEPT ![TicketAt(w)] = found[w]]
    /\ GoTo(w, IF o = "ok" THEN "returned" ELSE "threw")
    /\ UNCHANGED <<queues, cur, ready, mails, told, adds, seen, found,
                   comments, covered>>

(* The completed and failed handlers only log.                             *)
EndTicket(w) ==
    /\ End(w)
    /\ seen' = [seen EXCEPT ![w] = {}]
    /\ found' = [found EXCEPT ![w] = None]
    /\ UNCHANGED <<ready, mails, told, adds, comments, covered, fields>>

(* The web process dies; the next one serves the queues right away, and    *)
(* is ready when it has been bootstrapped.                                 *)
CrashZoho ==
    /\ ready
    /\ Crash(Workers)
    /\ ready' = FALSE /\ adds' = {}
    /\ seen' = [w \in Workers |-> {}]
    /\ found' = [w \in Workers |-> None]
    /\ UNCHANGED <<mails, told, comments, covered, fields>>

Bootstrap ==
    /\ ~ready /\ ready' = TRUE
    /\ UNCHANGED <<queues, attempts, faults, mails, told, adds, seen, found,
                   comments, covered, fields>>

ZohoJobs == Drafts \cup Form9Jobs

ServeZoho(w) ==
    \E id \in ZohoJobs : \/ TakeTicket(w, id)
                         \/ GiveUp(w, id) /\ UNCHANGED zohoVars

(* What is sure to go on: everything but the agents' own work.             *)
AttendZoho(w) ==
    \/ \E o \in Outcomes : \/ ReadTicket(w, o)
                           \/ AddPrivateComment(w, o)
                           \/ UpdateTicketCustomFields(w, o)
    \/ EndTicket(w)

ZohoTimer(id) == Timer(id) /\ UNCHANGED zohoVars

ZohoNext ==
    \/ \E m \in Mails : Arrive(m)
    \/ \E b \in Bodies, o \in Outcomes : HandleWebhook(b, o)
    \/ \E id \in ZohoJobs : ZohoTimer(id) \/ \E o \in Outcomes : AddJob(id, o)
    \/ \E w \in Workers :
         \/ ServeZoho(w) \/ AttendZoho(w)
         \/ \E failed \in BOOLEAN :
              Draft(w, failed) \/ \E r \in Treatments \cup {None} : Classify(w, r, failed)
    \/ CrashZoho \/ Bootstrap

zoho == <<queues, attempts, faults, zohoVars>>

ZohoSpec == ProcessorsInit /\ ZohoInit /\ [][ZohoNext]_zoho

ZohoProgress ==
    \/ \E w \in Workers : ServeZoho(w) \/ AttendZoho(w)
    \/ \E id \in ZohoJobs : Overdue(id) /\ ZohoTimer(id)

ZohoFairness == WF_zoho(ZohoProgress)

-----------------------------------------------------------------------------
(* A job posts one comment, and one more at most for every call that       *)
(* errors, lock that is lost or restart: redelivered and overlapping       *)
(* events add none.                                                        *)
OneCommentPerJob == \A id \in Drafts : comments[id] <= 1 + faults

(* A job that completed has left a comment, on whichever of its attempts.  *)
CompletedIsCommented ==
    \A id \in Drafts : job[id].state = "completed" => comments[id] > 0

(* A job comments once, and not never.                                     *)
CommentsAreDue == OneCommentPerJob /\ CompletedIsCommented

(* When nothing is left to do and nothing went wrong, support has a        *)
(* comment that was written with each reported mail in view, in whatever   *)
(* order mails came, were reported and drafted.                            *)
NoMailLeftBehind ==
    faults = 0 /\ adds = {} /\ (\A id \in Drafts : ~Pending(id))
      => \A m \in Incoming : ThreadAdd(m) \in told => m \in covered

(* Fields once written, which support may rely on, are overwritten by a    *)
(* retry at most: no later event of the ticket classifies it again.        *)
FieldsAreFinal ==
    [][\A t \in Tickets : fields[t] # None /\ fields'[t] # fields[t]
          => job[Form9Job(t)].made + job[Form9Job(t)].stalls > 0]_zoho

(* The queues run dry again and again, unless an agent never returns.      *)
EveryTicketSettles ==
    \/ \E w \in Workers : <>[](at[w] \in {"drafting", "classifying"})
    \/ []<>(\A id \in ZohoJobs : ~Pending(id))
=============================================================================
