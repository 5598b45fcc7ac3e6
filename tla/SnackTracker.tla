---------------------------- MODULE SnackTracker ----------------------------
(***************************************************************************)
(* The snack tracker: a message in #bakar becomes a queued job; an attempt *)
(* at the job classifies the message, records a pledge in the ledger and   *)
(* confirms it in the thread.  The job queue and the ledger are the        *)
(* modules of those names; the attempts of a worker call the ledger under  *)
(* the worker's name.                                                      *)
(***************************************************************************)
EXTENDS Naturals, Sequences

CONSTANTS
    Messages, Eligible,     \* posts in the channel, those of people
    Verdicts,               \* what the classifier may make of each message
    Workers, None,
    Attempts, MaxStalls, KeepCompleted,     \* see JobQueue
    People, Owner, Faults, MaxFaults,       \* see SnacksLedger
    MaxDeliveries           \* bound: how often Slack delivers one message

ASSUME TrackerAssumption ==
    /\ Eligible \subseteq Messages
    /\ Verdicts \in [Messages -> SUBSET BOOLEAN]
    /\ Owner \in [Messages -> People]
    /\ None \notin Messages \cup Workers \cup People
    /\ None \notin {"fresh", "repeated", "not_found", "not_owner", "threw"}
    /\ Attempts \in Nat \ {0}
    /\ Faults \subseteq {"lost", "late"}
    /\ {MaxStalls, KeepCompleted, MaxFaults, MaxDeliveries} \subseteq Nat

VARIABLES
    job, waiting, kept,                     \* the snack-tracker queue
    gate, list, call, view, wasOpen, faults, lates,     \* the ledger
    deliveries,     \* deliveries of each message so far
    pc, cur,        \* where each worker is, and in which message
    posts           \* confirmations shown in each thread

queue   == <<job, waiting, kept>>
ledger  == <<gate, list, call, view, wasOpen, faults, lates>>
attempt == <<pc, cur>>
vars == <<queue, ledger, deliveries, attempt, posts>>

Q == INSTANCE JobQueue WITH Jobs <- Messages, NoWorker <- None
L == INSTANCE SnacksLedger WITH Pledges <- Messages, Recorders <- Workers,
                                Tools <- {}

PCs == {"idle", "classifying", "recording", "confirming", "returned", "threw"}

TypeOK ==
    /\ Q!QueueTypeOK
    /\ L!LedgerTypeOK
    /\ deliveries \in [Messages -> 0..MaxDeliveries]
    /\ pc \in [Workers -> PCs]
    /\ cur \in [Workers -> Messages \cup {None}]
    /\ posts \in [Messages -> Nat]

Init ==
    /\ Q!QueueInit
    /\ L!LedgerInit
    /\ deliveries = [m \in Messages |-> 0]
    /\ pc = [w \in Workers |-> "idle"]
    /\ cur = [w \in Workers |-> None]
    /\ posts = [m \in Messages |-> 0]

-----------------------------------------------------------------------------
OnBakarMessage(m) ==
    /\ deliveries[m] < MaxDeliveries
    /\ deliveries' = [deliveries EXCEPT ![m] = @ + 1]
    /\ \/ m \in Eligible /\ Q!Add(m)
       \/ UNCHANGED queue
    /\ UNCHANGED <<ledger, attempt, posts>>

GoTo(w, place) == pc' = [pc EXCEPT ![w] = place]

Take(w, m) ==
    /\ pc[w] = "idle"
    /\ Q!Take(w, m)
    /\ GoTo(w, "classifying")
    /\ cur' = [cur EXCEPT ![w] = m]
    /\ UNCHANGED <<ledger, deliveries, posts>>

GiveUp(w, m) ==
    /\ pc[w] = "idle"
    /\ Q!GiveUp(m)
    /\ UNCHANGED <<ledger, deliveries, attempt, posts>>

Classify(w, isSnacksPledge) ==
    /\ pc[w] = "classifying"
    /\ isSnacksPledge \in Verdicts[cur[w]]
    /\ IF isSnacksPledge THEN L!Record(w, cur[w]) /\ GoTo(w, "recording")
                         ELSE GoTo(w, "returned") /\ UNCHANGED ledger
    /\ UNCHANGED <<queue, deliveries, cur, posts>>

Throw(w) ==
    /\ pc[w] = "classifying"
    /\ GoTo(w, "threw")
    /\ UNCHANGED <<queue, ledger, deliveries, cur, posts>>

Ledger(w) ==
    /\ L!Proceed(w)
    /\ UNCHANGED <<queue, deliveries, attempt, posts>>

(* Variants, each named for the slip it makes, stand before what they      *)
(* replace: the runs show that the properties tell them apart.             *)
RecordedBefore(w) ==
    /\ pc[w] = "recording"
    /\ GoTo(w, IF call[w].result = "threw" THEN "threw" ELSE "confirming")
    /\ L!Return(w)
    /\ UNCHANGED <<queue, deliveries, cur, posts>>

(* Only a fresh pledge is confirmed.                                       *)
Recorded(w) ==
    /\ pc[w] = "recording"
    /\ GoTo(w, CASE call[w].result = "fresh"    -> "confirming"
                 [] call[w].result = "repeated" -> "returned"
                 [] OTHER                       -> "threw")
    /\ L!Return(w)
    /\ UNCHANGED <<queue, deliveries, cur, posts>>

(* The post may fail, also after Slack has shown it.                       *)
Confirm(w, shown, ok) ==
    /\ pc[w] = "confirming"
    /\ ok => shown
    /\ posts' = IF shown THEN [posts EXCEPT ![cur[w]] = @ + 1] ELSE posts
    /\ GoTo(w, IF ok THEN "returned" ELSE "threw")
    /\ UNCHANGED <<queue, ledger, deliveries, cur>>

Forget(w) ==
    /\ GoTo(w, "idle")
    /\ cur' = [cur EXCEPT ![w] = None]

(* The worker tells the queue, which refuses if the lock was lost.         *)
End(w) ==
    /\ \/ pc[w] = "returned" /\ Q!Complete(w, cur[w])
       \/ pc[w] = "threw" /\ Q!Fail(w, cur[w])
       \/ /\ pc[w] \in {"returned", "threw"}
          /\ ~Q!HoldsLock(w, cur[w])
          /\ UNCHANGED queue
    /\ Forget(w)
    /\ UNCHANGED <<ledger, deliveries, posts>>

QueueTimer(m) ==
    /\ Q!Promote(m) \/ Q!Stall(m)
    /\ UNCHANGED <<ledger, deliveries, attempt, posts>>

(* What is in Redis survives the process.                                  *)
Crash(w) ==
    /\ pc[w] # "idle"
    /\ IF pc[w] = "recording" THEN L!Die(w) ELSE UNCHANGED ledger
    /\ Forget(w)
    /\ UNCHANGED <<queue, deliveries, posts>>

Next ==
    \/ \E m \in Messages : OnBakarMessage(m) \/ QueueTimer(m)
    \/ \E w \in Workers :
         \/ \E m \in Messages : Take(w, m) \/ GiveUp(w, m)
         \/ \E isSnacksPledge \in BOOLEAN : Classify(w, isSnacksPledge)
         \/ Throw(w)
         \/ Ledger(w)
         \/ Recorded(w)
         \/ \E shown, ok \in BOOLEAN : Confirm(w, shown, ok)
         \/ End(w)
         \/ Crash(w)

Spec == Init /\ [][Next]_vars

-----------------------------------------------------------------------------
Pledged == L!Pledged

(* However often a message is delivered, retried, or run by two workers at *)
(* once, its author is told once that the round is noted, and owes one     *)
(* round, or one more for each executed append whose answer got lost.      *)
OneRoundPerMessage ==
    /\ L!ListedOnce
    /\ \A m \in Messages : posts[m] <= 1

(* "Noted" is said only of what the ledger really has.                     *)
NotedMeansPledged == \A m \in Messages : posts[m] > 0 => m \in Pledged

(* A message is noted once, and as what the ledger has.                    *)
NotedOnce == OneRoundPerMessage /\ NotedMeansPledged

(* What the rollback is for (snacks-ledger.service.ts:68): "so a retry can *)
(* re-append this pledge".  A job that completed, of a message that is     *)
(* plainly a pledge, has put it in the ledger.                             *)
RetryReappends ==
    \A m \in Messages :
      job[m].state = "completed" /\ Verdicts[m] = {TRUE} => m \in Pledged
=============================================================================
