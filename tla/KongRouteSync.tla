---------------------------- MODULE KongRouteSync ----------------------------
(***************************************************************************)
(* Kong route sync: a pull request merged to main, which GitHub reports by *)
(* webhook, is examined for changes of routes; the coding worker mirrors   *)
(* them in the repository of the gateway, and the author is told by a      *)
(* direct message.  Three queues lead from the webhook to the message.     *)
(***************************************************************************)
EXTENDS Processors

CONSTANTS
    Deliveries, PullOf,     \* webhook deliveries, the pull request of each
    Pulls,                  \* refs of pull requests that were closed
    Merged, FromSource,     \* merged to main; closed in SOURCE_REPO
    Denied,                 \* written by somebody on the author denylist
    TouchRoutes,            \* with a file isRoutesFile accepts
    AuthorFound,            \* with a commit under its author's account
    MaxSyncs                \* coding attempts at a pull: see OneSyncPerPull

DetectQueue == "kong-route-sync"
SyncQueue == "kong-route-sync-coding"
NotifyQueue == "kong-route-sync-notifications"

(* A notification has no id of its own; it is named for the attempt that   *)
(* adds it.                                                                *)
Notices == Pulls \X (1..MaxSyncs)

(* What the attempts of the three processors await.                        *)
KongAwaits == {"listing_files", "finding_author", "queueing_sync",
               "opening_sync", "syncing", "notifying", "stopping_done",
               "stopping_failed", "looking_up", "posting_dm"}

ASSUME KongAssumption ==
    /\ PullOf \in [Deliveries -> Pulls]
    /\ Deliveries \cup Pulls \cup Notices \subseteq Jobs
    /\ KongAwaits \subseteq Places
    /\ \A d \in Deliveries : QueueOf[d] = DetectQueue
    /\ \A p \in Pulls : QueueOf[p] = SyncQueue
    /\ \A n \in Notices : QueueOf[n] = NotifyQueue
    /\ AttemptsOf[SyncQueue] = 1        \* the job's own option
    /\ MaxSyncs = 1 + MaxStalls

VARIABLES
    syncs,          \* coding attempts begun for each pull request
    agents,         \* their harness sessions still running
    result,         \* what the agent submitted for each notification
    dms             \* direct messages about each pull request

kongVars == <<syncs, agents, result, dms>>

Results == {"no-route-changes", "pr-opened"}

KongTypeOK ==
    /\ syncs \in [Pulls -> 0..MaxSyncs]
    /\ agents \subseteq Notices
    /\ result \in [Notices -> Results \cup {None}]
    /\ dms \in [Pulls -> Nat]

KongInit ==
    /\ syncs = [p \in Pulls |-> 0]
    /\ agents = {}
    /\ result = [n \in Notices |-> None]
    /\ dms = [p \in Pulls |-> 0]

-----------------------------------------------------------------------------
(* What passes the handler of pull_request.closed and the listener.        *)
Wanted(p) == p \in (Merged \cap FromSource) \ Denied

(* A delivery, possibly repeated: answered, verified, filtered and queued, *)
(* or not, as an error is only logged.                                     *)
OnPullRequestClosed(d, o) ==
    /\ Outcome(o)
    /\ IF Wanted(PullOf[d]) THEN TryEnqueue(d, o) ELSE UNCHANGED queues
    /\ UNCHANGED <<attempts, kongVars>>

-----------------------------------------------------------------------------
(* KongRouteSyncProcessor                                                  *)
TakeDetect(w, d) == Begin(w, d, "listing_files") /\ UNCHANGED kongVars

ListFiles(w, o) ==
    /\ at[w] = "listing_files"
    /\ Outcome(o)
    /\ GoTo(w, IF o # "ok" THEN "threw"
               ELSE IF PullOf[cur[w]] \in TouchRoutes THEN "finding_author"
               ELSE "returned")
    /\ UNCHANGED <<queues, cur, kongVars>>

(* An author without a commit of their own in the list makes it throw.     *)
FindAuthor(w, o) ==
    /\ at[w] = "finding_author"
    /\ Outcome(o)
    /\ GoTo(w, IF o = "ok" /\ PullOf[cur[w]] \in AuthorFound THEN "queueing_sync"
                                                            ELSE "threw")
    /\ UNCHANGED <<queues, cur, kongVars>>

QueueSync(w, o) ==
    /\ at[w] = "queueing_sync"
    /\ Outcome(o)
    /\ TryEnqueue(PullOf[cur[w]], o)
    /\ GoTo(w, IF o = "ok" THEN "returned" ELSE "threw")
    /\ UNCHANGED <<cur, kongVars>>

-----------------------------------------------------------------------------
(* KongRouteSyncCodingProcessor; it never resumes a session.               *)
Notice(w) == <<cur[w], syncs[cur[w]]>>

TakeSync(w, p) ==
    /\ Begin(w, p, "opening_sync")
    /\ syncs' = [syncs EXCEPT ![p] = @ + 1]
    /\ UNCHANGED <<agents, result, dms>>

OpenSync(w, o) ==
    /\ at[w] = "opening_sync"
    /\ Outcome(o)
    /\ agents' = IF o = "lost" THEN agents ELSE agents \cup {Notice(w)}
    /\ GoTo(w, IF o = "ok" THEN "syncing" ELSE "threw")
    /\ UNCHANGED <<queues, cur, syncs, result, dms>>

(* The agent submits a result, or errs, or ends without a valid one.       *)
Sync(w, r) ==
    /\ at[w] = "syncing"
    /\ result' = [result EXCEPT ![Notice(w)] = r]
    /\ GoTo(w, IF r = None THEN "stopping_failed" ELSE "notifying")
    /\ UNCHANGED <<queues, cur, faults, syncs, agents, dms>>

(* Variants, each named for the slip it makes, stand before what they      *)
(* replace: the runs show that the properties tell them apart.             *)
QueueNoticeUnchecked(w, o) ==
    /\ at[w] = "notifying"
    /\ Outcome(o)
    /\ TryEnqueue(Notice(w), o)
    /\ GoTo(w, "stopping_done")
    /\ UNCHANGED <<cur, kongVars>>

QueueNotice(w, o) ==
    /\ at[w] = "notifying"
    /\ Outcome(o)
    /\ TryEnqueue(Notice(w), o)
    /\ GoTo(w, IF o = "ok" THEN "stopping_done" ELSE "stopping_failed")
    /\ UNCHANGED <<cur, kongVars>>

(* finally: an error of stop() makes the attempt throw, whatever it did.   *)
StopSync(w, o) ==
    /\ at[w] \in {"stopping_done", "stopping_failed"}
    /\ Outcome(o)
    /\ agents' = IF o = "lost" THEN agents ELSE agents \ {Notice(w)}
    /\ GoTo(w, IF o = "ok" /\ at[w] = "stopping_done" THEN "returned" ELSE "threw")
    /\ UNCHANGED <<queues, cur, syncs, result, dms>>

-----------------------------------------------------------------------------
(* KongRouteSyncNotificationProcessor and KongRouteSyncNotifierService     *)
TakeNotice(w, n) ==
    /\ Begin(w, n, IF result[n] = "no-route-changes" THEN "returned"
                                                     ELSE "looking_up")
    /\ UNCHANGED kongVars

LookUpUser(w, o) ==
    /\ at[w] = "looking_up"
    /\ Outcome(o)
    /\ GoTo(w, IF o = "ok" THEN "posting_dm" ELSE "threw")
    /\ UNCHANGED <<queues, cur, kongVars>>

PostDirectMessage(w, o) ==
    /\ at[w] = "posting_dm"
    /\ Outcome(o)
    /\ dms' = IF o = "lost" THEN dms ELSE [dms EXCEPT ![cur[w][1]] = @ + 1]
    /\ GoTo(w, IF o = "ok" THEN "returned" ELSE "threw")
    /\ UNCHANGED <<queues, cur, syncs, agents, result>>

(* The failed and stalled handlers of the processors only log.             *)
EndKong(w) == End(w) /\ UNCHANGED kongVars

(* The coding worker dies with its agents; the web process serves the      *)
(* other two queues.                                                       *)
CrashCodingWorker ==
    /\ \E w \in Workers : ServedBy[w] = SyncQueue /\ at[w] # "idle"
    /\ Crash({w \in Workers : ServedBy[w] = SyncQueue})
    /\ agents' = {}
    /\ UNCHANGED <<syncs, result, dms>>

CrashWeb ==
    /\ \E w \in Workers : ServedBy[w] # SyncQueue /\ at[w] # "idle"
    /\ Crash({w \in Workers : ServedBy[w] # SyncQueue})
    /\ UNCHANGED <<syncs, agents, result, dms>>

KongJobs == Deliveries \cup Pulls \cup Notices

ServeKong(w) ==
    \/ \E d \in Deliveries : TakeDetect(w, d)
    \/ \E p \in Pulls : TakeSync(w, p)
    \/ \E n \in Notices : TakeNotice(w, n)
    \/ \E id \in KongJobs : GiveUp(w, id) /\ UNCHANGED kongVars

(* What is sure to go on: everything but the agent's own work.             *)
AttendKong(w) ==
    \/ \E o \in Outcomes : \/ ListFiles(w, o) \/ FindAuthor(w, o)
                           \/ QueueSync(w, o) \/ OpenSync(w, o)
                           \/ QueueNotice(w, o) \/ StopSync(w, o)
                           \/ LookUpUser(w, o) \/ PostDirectMessage(w, o)
    \/ EndKong(w)

KongTimer(id) == Timer(id) /\ UNCHANGED kongVars

KongNext ==
    \/ \E d \in Deliveries, o \in Outcomes : OnPullRequestClosed(d, o)
    \/ \E id \in KongJobs : KongTimer(id)
    \/ CrashCodingWorker \/ CrashWeb
    \/ \E w \in Workers : \/ ServeKong(w) \/ AttendKong(w)
                          \/ \E r \in Results \cup {None} : Sync(w, r)

kong == <<queues, attempts, faults, kongVars>>

KongSpec == ProcessorsInit /\ KongInit /\ [][KongNext]_kong

(* As in the coding agent: while any of this can go on, some of it does.   *)
KongProgress ==
    \/ \E w \in Workers : ServeKong(w) \/ AttendKong(w)
    \/ \E id \in KongJobs : Overdue(id) /\ KongTimer(id)

KongFairness == WF_kong(KongProgress)

-----------------------------------------------------------------------------
(* However often and in whatever order GitHub delivers a merge, and        *)
(* whatever fails on the way, a pull request gets one coding job while it  *)
(* is retained, and only stalls make the agent work on it again.           *)
OneSyncPerPull ==
    \A p \in Pulls : syncs[p] <= 1 + job[p].stalls /\ syncs[p] <= MaxSyncs

(* Only the author of a merged change of routes hears of it, and only when *)
(* the agent opened a pull request for it.                                 *)
DMedAboutRoutes ==
    \A p \in Pulls : dms[p] > 0 =>
      /\ p \in (Merged \cap FromSource \cap TouchRoutes) \ Denied
      /\ \E n \in 1..syncs[p] : result[<<p, n>>] = "pr-opened"

(* A completed sync leads to the author: its notification was queued.  The *)
(* converse fails: see the README.                                         *)
SyncedIsNotified ==
    \A p \in Pulls : job[p].state = "completed" =>
      \E n \in 1..syncs[p] : job[<<p, n>>].state # "absent"

(* No agent is left running when its attempt ends, unless stopping it is   *)
(* what failed, or the call that opened it.                                *)
AgentsAreStopped ==
    faults = 0 => \A n \in agents : \E w \in Workers : cur[w] = n[1]

(* A merge is mirrored once and its author told, nobody else, and nothing  *)
(* is left running.                                                        *)
SyncIsRight == OneSyncPerPull /\ DMedAboutRoutes /\ SyncedIsNotified /\ AgentsAreStopped

(* The queues run dry again and again, unless an agent never returns.      *)
EverySyncSettles ==
    \/ \E w \in Workers : <>[](at[w] = "syncing")
    \/ []<>(\A id \in KongJobs : ~Pending(id))
=============================================================================
