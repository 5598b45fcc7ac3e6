-------------------------- MODULE PipelinesProofs --------------------------
(***************************************************************************)
(* What the web process and the coding worker guarantee: the sync of Kong  *)
(* routes, the drafts and fields of customer support, the tasks of the     *)
(* coding agent with the sandbox its commands run in, the start and the    *)
(* replies of the assistant, the file tools of the artifact builder, and   *)
(* the types of either process as a whole.                                 *)
(***************************************************************************)
EXTENDS ProcessorsProofs, MCWebProcess, MCCodingWorker, WellFoundedInduction

-----------------------------------------------------------------------------
(* A single processor that serves a queue, and a job whose                 *)
(* earlier attempt failed or lost its lock.                                *)
OneProcessor(q) ==
    \A v, w \in Workers : ServedBy[v] = q /\ ServedBy[w] = q => v = w

Tried(id) == job[id].made + job[id].stalls > 0

-----------------------------------------------------------------------------
(* Kong route sync.                                                        *)

(* The kinds of jobs that each place of a processor is about.              *)
KongPlaces ==
    \A w \in Workers :
      /\ cur[w] \in KongJobs \cup {None}
      /\ at[w] \in {"listing_files", "finding_author", "queueing_sync"}
            => cur[w] \in Deliveries
      /\ at[w] \in {"opening_sync", "syncing", "notifying",
                    "stopping_done", "stopping_failed"} => cur[w] \in Pulls
      /\ at[w] \in {"looking_up", "posting_dm"} => cur[w] \in Notices

KongValues ==
    /\ syncs \in [Pulls -> Nat] /\ dms \in [Pulls -> Nat]
    /\ result \in [Notices -> Results \cup {None}]
    /\ agents \subseteq Notices

(* Only stalls give a pull request another coding attempt.                 *)
SyncsCounted ==
    \A p \in Pulls :
      /\ job[p].state = "absent" => syncs[p] = 0
      /\ job[p].state \in {"waiting", "delayed"} => syncs[p] <= job[p].stalls
      /\ syncs[p] <= 1 + job[p].stalls /\ syncs[p] <= MaxSyncs
      /\ \A w \in Workers : cur[w] = p => syncs[p] > 0

(* What is queued, and begun, is a merge that the listener let pass, and   *)
(* what is synced a change of routes.                                      *)
Due == (Merged \cap FromSource \cap TouchRoutes) \ Denied

OnlyDue ==
    /\ \A d \in Deliveries : job[d].state # "absent" => Wanted(PullOf[d])
    /\ \A w \in Workers :
         /\ cur[w] \in Deliveries => Wanted(PullOf[cur[w]])
         /\ at[w] \in {"finding_author", "queueing_sync"}
               => PullOf[cur[w]] \in TouchRoutes
    /\ \A p \in Pulls : job[p].state # "absent" => p \in Due

(* A notification is queued after the last word of its attempt, which no   *)
(* agent takes back; an attempt ends well only after that.                 *)
NoticesFinal ==
    \A n \in Notices : job[n].state # "absent" =>
      n[2] <= syncs[n[1]] /\ result[n] # None

AttemptsInOrder ==
    \A w \in Workers :
      /\ cur[w] \in Notices => job[cur[w]].state # "absent"
      /\ at[w] \in {"opening_sync", "syncing"} => job[Notice(w)].state = "absent"
      /\ at[w] = "notifying" => result[Notice(w)] # None
      /\ at[w] \in {"stopping_done", "returned"} /\ cur[w] \in Pulls
            => job[Notice(w)].state # "absent"
      /\ at[w] \in {"looking_up", "posting_dm"} => result[cur[w]] = "pr-opened"

Told ==
    \A p \in Pulls :
      /\ dms[p] > 0 =>
           \E i \in 1..syncs[p] : /\ job[<<p, i>>].state # "absent"
                                  /\ result[<<p, i>>] = "pr-opened"
      /\ job[p].state = "completed" =>
           \E i \in 1..syncs[p] : job[<<p, i>>].state # "absent"

(* While no call failed, an agent runs only for an attempt that has yet to *)
(* stop it.                                                                *)
AgentsAttended ==
    faults = 0 => \A n \in agents : \E w \in Workers :
      /\ at[w] \in {"syncing", "notifying", "stopping_done", "stopping_failed"}
      /\ Notice(w) = n

KongInv ==
    /\ ProcessorsInv /\ KongPlaces /\ KongValues /\ SyncsCounted /\ OnlyDue
    /\ NoticesFinal /\ AttemptsInOrder /\ Told /\ AgentsAttended

(* Where the theorem speaks: the coding worker runs in one instance, as    *)
(* its disk is attached to one, and the queues that are asked whether a    *)
(* job was added before retain all jobs of the time considered.            *)
KongSetting ==
    /\ OneProcessor(SyncQueue)
    /\ KeepsAll(SyncQueue) /\ KeepsAll(NotifyQueue)

(* The ids of the three queues, and what they stand for.                   *)
LEMMA KongIds ==
  /\ KongJobs \subseteq Jobs
  /\ Deliveries \cap Pulls = {} /\ Deliveries \cap Notices = {}
  /\ Pulls \cap Notices = {}
  /\ \A d \in Deliveries : PullOf[d] \in Pulls
  /\ \A n \in Notices : n[1] \in Pulls /\ n[2] \in 1..MaxSyncs /\ n = <<n[1], n[2]>>
  /\ \A p \in Pulls : \A i \in 1..MaxSyncs :
       <<p, i>> \in Notices /\ <<p, i>>[1] = p /\ <<p, i>>[2] = i
  /\ MaxSyncs = 1 + MaxStalls /\ MaxStalls \in Nat
  /\ None \notin KongJobs
  <1>1. KongJobs \subseteq Jobs /\ None \notin Jobs
    BY KongAssumption, ProcessorsAssumption DEF KongJobs
  <1>2. DetectQueue # SyncQueue /\ DetectQueue # NotifyQueue /\ SyncQueue # NotifyQueue
    BY DEF DetectQueue, SyncQueue, NotifyQueue
  <1>3. /\ Deliveries \cap Pulls = {} /\ Deliveries \cap Notices = {}
        /\ Pulls \cap Notices = {}
    BY <1>2, KongAssumption
  <1>4. \A d \in Deliveries : PullOf[d] \in Pulls
    BY KongAssumption
  <1>5. MaxSyncs = 1 + MaxStalls /\ MaxStalls \in Nat
    BY KongAssumption, ProcessorsAssumption
  <1> QED BY <1>1, <1>3, <1>4, <1>5 DEF Notices

(* A processor in a sync, or a notification, is one of that queue's.       *)
LEMMA AtASync ==
  ASSUME KongInv, NEW w \in Workers, cur[w] \in Pulls
  PROVE  /\ at[w] # "idle" /\ ServedBy[w] = SyncQueue
         /\ Notice(w) \in Notices
         /\ Notice(w)[1] = cur[w] /\ Notice(w)[2] = syncs[cur[w]]
         /\ syncs[cur[w]] \in Nat /\ syncs[cur[w]] > 0 /\ syncs[cur[w]] <= MaxSyncs
  <1>1. at[w] # "idle" /\ ServedBy[w] = SyncQueue
    BY KongIds, KongAssumption DEF KongInv, ProcessorsInv, Busy, KongJobs
  <1>2. syncs[cur[w]] \in Nat /\ syncs[cur[w]] > 0 /\ syncs[cur[w]] <= MaxSyncs
    BY DEF KongInv, KongValues, SyncsCounted
  <1>3. syncs[cur[w]] \in 1..MaxSyncs
    BY <1>2, KongIds
  <1> QED BY <1>1, <1>2, <1>3, KongIds DEF Notice

(* Each attempt that began has a notification that may be queued.          *)
LEMMA AttemptIds ==
  ASSUME KongInv
  PROVE  \A p \in Pulls : /\ syncs[p] \in Nat /\ job[p].stalls \in Nat
                          /\ \A i \in 1..syncs[p] : <<p, i>> \in Notices
  <1>1. \A p \in Pulls : syncs[p] \in Nat /\ syncs[p] <= MaxSyncs
    BY DEF KongInv, KongValues, SyncsCounted
  <1>2. \A p \in Pulls : job[p].stalls \in Nat
    BY KongIds DEF KongInv, ProcessorsInv, QueuesInv, AnyRecord, KongJobs
  <1>3. \A p \in Pulls : 1..syncs[p] \subseteq 1..MaxSyncs
    BY <1>1, KongIds
  <1> QED BY <1>1, <1>2, <1>3, KongIds

(* Every step is one of the processors' in general.                        *)
LEMMA KongIsProcessors ==
  ASSUME KongInv, [KongNext]_kong
  PROVE  [ProcessorsNext]_<<queues, attempts, faults>>
  <1> DEFINE Step == ProcessorsNext \/ UNCHANGED <<queues, attempts, faults>>
             Awaits == KongAwaits \cup {"returned", "threw"}
  <1>0. Awaits \subseteq Places \ {"idle"}
    BY KongAssumption, ProcessorsAssumption DEF KongAwaits
  <1>1. CASE UNCHANGED kong
    BY <1>1 DEF kong
  <1>2. ASSUME NEW o, Outcome(o) PROVE FaultStep
    BY <1>2 DEF Outcome, FaultStep
  <1>3. ASSUME NEW o, NEW id \in Jobs, TryEnqueue(id, o) PROVE AddStep
    BY <1>3 DEF TryEnqueue, AddStep
  <1>4. ASSUME NEW d \in Deliveries, NEW o, OnPullRequestClosed(d, o)
        PROVE  Step
    <2>1. d \in Jobs
      BY KongIds DEF KongJobs
    <2>2. AddStep
      BY <1>3, <1>4, <2>1 DEF OnPullRequestClosed, AddStep
    <2> QED BY <1>2, <1>4, <2>2
        DEF OnPullRequestClosed, attempts, MoveStep, ProcessorsNext
  <1>5. ASSUME NEW id \in KongJobs, KongTimer(id) PROVE Step
    BY <1>5, KongIds DEF KongTimer, ProcessorsNext
  <1>6. ASSUME CrashCodingWorker \/ CrashWeb PROVE Step
    <2>1. \E ws \in SUBSET Workers : Crash(ws)
      BY <1>6 DEF CrashCodingWorker, CrashWeb
    <2> QED BY <2>1 DEF ProcessorsNext
  <1>7. ASSUME NEW w \in Workers, ServeKong(w) PROVE Step
    <2>1. ASSUME NEW id \in KongJobs, GiveUp(w, id) PROVE Step
      BY <2>1, KongIds DEF ProcessorsNext
    <2>2. ASSUME NEW id \in KongJobs, NEW place \in Awaits, Begin(w, id, place)
          PROVE Step
      BY <1>0, <2>2, KongIds DEF ProcessorsNext
    <2>3. Deliveries \cup Pulls \cup Notices = KongJobs
      BY DEF KongJobs
    <2> QED BY <1>7, <2>1, <2>2, <2>3
        DEF ServeKong, TakeDetect, TakeSync, TakeNotice, KongAwaits
  <1>8. ASSUME NEW w \in Workers, NEW place \in Awaits, GoTo(w, place),
               UNCHANGED cur, at[w] # "idle"
        PROVE  MoveStep
    BY <1>0, <1>8 DEF MoveStep
  <1>9. ASSUME NEW w \in Workers, AttendKong(w) PROVE Step
    <2>1. CASE EndKong(w)
      BY <2>1 DEF EndKong, ProcessorsNext
    <2>2. ASSUME NEW o, ListFiles(w, o) \/ FindAuthor(w, o)
          PROVE  Step
      <3>1. MoveStep
        BY <1>8, <2>2 DEF ListFiles, FindAuthor, KongAwaits
      <3>2. FaultStep /\ AddStep
        BY <1>2, <2>2 DEF ListFiles, FindAuthor, AddStep
      <3> QED BY <3>1, <3>2 DEF ProcessorsNext
    <2>3. ASSUME NEW o, QueueSync(w, o) PROVE Step
      <3>1. MoveStep /\ FaultStep
        BY <1>2, <1>8, <2>3 DEF QueueSync, KongAwaits
      <3>2. PullOf[cur[w]] \in Jobs
        BY <2>3, KongIds DEF QueueSync, KongInv, KongPlaces, KongJobs
      <3>3. AddStep
        BY <1>3, <2>3, <3>2 DEF QueueSync
      <3> QED BY <3>1, <3>3 DEF ProcessorsNext
    <2>4. ASSUME NEW o, OpenSync(w, o) \/ StopSync(w, o) PROVE Step
      <3>1. MoveStep
        BY <1>8, <2>4 DEF OpenSync, StopSync, KongAwaits
      <3>2. FaultStep /\ AddStep
        BY <1>2, <2>4 DEF OpenSync, StopSync, AddStep
      <3> QED BY <3>1, <3>2 DEF ProcessorsNext
    <2>5. ASSUME NEW o, QueueNotice(w, o) PROVE Step
      <3>1. MoveStep /\ FaultStep
        BY <1>2, <1>8, <2>5 DEF QueueNotice, KongAwaits
      <3>2. cur[w] \in Pulls
        BY <2>5 DEF QueueNotice, KongInv, KongPlaces
      <3>3. Notice(w) \in Jobs
        BY <3>2, AtASync, KongIds DEF KongJobs
      <3>4. AddStep
        BY <1>3, <2>5, <3>3 DEF QueueNotice
      <3> QED BY <3>1, <3>4 DEF ProcessorsNext
    <2>6. ASSUME NEW o, LookUpUser(w, o) \/ PostDirectMessage(w, o) PROVE Step
      <3>1. MoveStep
        BY <1>8, <2>6 DEF LookUpUser, PostDirectMessage, KongAwaits
      <3>2. FaultStep /\ AddStep
        BY <1>2, <2>6 DEF LookUpUser, PostDirectMessage, AddStep
      <3> QED BY <3>1, <3>2 DEF ProcessorsNext
    <2> QED BY <1>9, <2>1, <2>2, <2>3, <2>4, <2>5, <2>6 DEF AttendKong
  <1>10. ASSUME NEW w \in Workers, NEW r, Sync(w, r) PROVE Step
    <2>1. MoveStep
      BY <1>8, <1>10 DEF Sync, KongAwaits
    <2>2. FaultStep /\ AddStep
      BY <1>10 DEF Sync, AddStep, FaultStep
    <2> QED BY <2>1, <2>2 DEF ProcessorsNext
  <1> HIDE DEF Step
  <1>11. Step
    BY <1>1, <1>4, <1>5, <1>6, <1>7, <1>9, <1>10 DEF KongNext, Step
  <1> QED BY <1>11 DEF Step

(* What was added to the two queues stays: for the steps of every lemma    *)
(* below.                                                                  *)
LEMMA KongAdded ==
  ASSUME KongSetting, KongInv, [KongNext]_kong, NEW id \in Pulls \cup Notices,
         job[id].state # "absent"
  PROVE  job'[id].state # "absent"
  <1>1. id \in Jobs /\ KeepsAll(QueueOf[id])
    BY KongAssumption, KongIds DEF KongSetting, KongJobs
  <1> HIDE DEF KeepsAll
  <1> QED BY <1>1, KongIsProcessors, AddedStays DEF KongInv

KongParts ==
    /\ KongPlaces /\ KongValues /\ SyncsCounted /\ OnlyDue
    /\ NoticesFinal /\ AttemptsInOrder /\ Told /\ AgentsAttended

(* Steps of the queues alone: an added merge, a timer, a job given up.     *)
LEMMA QuietKeeps ==
  ASSUME KongSetting, KongInv, NEW id \in KongJobs,
         UNCHANGED kongVars, UNCHANGED attempts, UNCHANGED faults \/ Mishap,
         \A x \in KongJobs : x # id => job'[x] = job[x],
         job[id].state # "absent" => job'[id].state # "absent",
         job'[id].state = "completed" => job[id].state = "completed",
         job'[id].state # "absent" => \/ job[id].state # "absent"
                                      \/ id \in Deliveries /\ Wanted(PullOf[id]),
         job'[id].stalls >= job[id].stalls /\ job'[id].stalls \in Nat,
         job'[id].state \in {"waiting", "delayed"} =>
           \/ job[id].state \in {"waiting", "delayed"}
           \/ job'[id].stalls = job[id].stalls + 1
           \/ job[id].state = "absent"
  PROVE  KongParts'
  <1>1. /\ syncs' = syncs /\ agents' = agents /\ result' = result /\ dms' = dms
        /\ at' = at /\ cur' = cur
    BY DEF kongVars, attempts
  <1>2. /\ Deliveries \subseteq KongJobs /\ Pulls \subseteq KongJobs
        /\ Notices \subseteq KongJobs
    BY DEF KongJobs
  <1>4. \A w \in Workers : cur'[w] \in Pulls => Notice(w) \in Notices /\ Notice(w)' = Notice(w)
    BY <1>1, AtASync DEF Notice
  <1>5. \A x \in KongJobs : /\ job[x].state # "absent" => job'[x].state # "absent"
                            /\ job'[x].state = "completed" => job[x].state = "completed"
                            /\ job'[x].state # "absent" /\ x \notin Deliveries
                                 => job[x].state # "absent"
    BY KongIds
  <1>6. faults' = 0 => faults = 0
    BY DEF Mishap, KongInv, ProcessorsInv
  <1>10. KongPlaces'
    BY <1>1 DEF KongPlaces, KongInv
  <1>11. KongValues'
    BY <1>1 DEF KongValues, KongInv
  <1>12. SyncsCounted'
    <2> SUFFICES ASSUME NEW p \in Pulls
                 PROVE  /\ job'[p].state = "absent" => syncs[p] = 0
                        /\ job'[p].state \in {"waiting", "delayed"}
                              => syncs[p] <= job'[p].stalls
                        /\ syncs[p] <= 1 + job'[p].stalls /\ syncs[p] <= MaxSyncs
                        /\ \A w \in Workers : cur[w] = p => syncs[p] > 0
      BY <1>1 DEF SyncsCounted
    <2>1. /\ job[p].state = "absent" => syncs[p] = 0
          /\ job[p].state \in {"waiting", "delayed"} => syncs[p] <= job[p].stalls
          /\ syncs[p] <= 1 + job[p].stalls /\ syncs[p] <= MaxSyncs
          /\ \A w \in Workers : cur[w] = p => syncs[p] > 0
      BY DEF KongInv, SyncsCounted
    <2>2. syncs[p] \in Nat /\ job[p].stalls \in Nat
      BY AttemptIds
    <2>3. CASE p = id
      <3>1. job'[p].state # "absent" => job[p].state # "absent"
        BY <1>2, <1>5, KongIds
      <3> QED BY <2>1, <2>2, <2>3, <3>1
    <2>4. CASE p # id
      <3>1. job'[p] = job[p]
        BY <1>2, <2>4
      <3> QED BY <2>1, <2>2, <3>1
    <2> QED BY <2>3, <2>4
  <1>13. OnlyDue'
    BY <1>1, <1>2, KongIds DEF OnlyDue, KongInv
  <1>14. NoticesFinal'
    BY <1>1, <1>2, <1>5, KongIds DEF NoticesFinal, KongInv
  <1>17. AttemptsInOrder'
    BY <1>1, <1>2, <1>4, KongIds
    DEF AttemptsInOrder, KongInv, KongPlaces, Notice
  <1>15. Told'
    BY <1>1, <1>2, <1>4, <1>5, AttemptIds DEF Told, KongInv, Notice
  <1>16. AgentsAttended'
    BY <1>1, <1>6 DEF AgentsAttended, KongInv, Notice
  <1> QED BY <1>10, <1>11, <1>12, <1>13, <1>14, <1>15, <1>16, <1>17
      DEF KongParts

(* Moves of the web process's processors that change nothing else.         *)
LEMMA PlainMoveKeeps ==
  ASSUME KongSetting, KongInv, NEW w \in Workers, NEW o, NEW place,
         GoTo(w, place), Outcome(o), UNCHANGED <<queues, cur, kongVars>>,
         at[w] \in {"listing_files", "finding_author", "looking_up"},
         \/ place \in {"threw", "returned"}
         \/ /\ place \in {"finding_author", "queueing_sync"}
            /\ cur[w] \in Deliveries /\ PullOf[cur[w]] \in TouchRoutes
         \/ place = "posting_dm" /\ at[w] = "looking_up"
  PROVE  KongParts'
  <1>1. \A v \in Workers : at'[v] = IF v = w THEN place ELSE at[v]
    BY MoveEffect DEF KongInv, ProcessorsInv
  <1>2. /\ job' = job /\ cur' = cur
        /\ syncs' = syncs /\ agents' = agents /\ result' = result /\ dms' = dms
    BY DEF kongVars, queues
  <1>3. \A v \in Workers : Notice(v)' = Notice(v)
    BY <1>2 DEF Notice
  <1>4. cur[w] \in Deliveries \cup Notices /\ cur[w] \notin Pulls
    BY KongIds DEF KongInv, KongPlaces
  <1>5. faults' = 0 => faults = 0
    BY DEF Outcome, Mishap, KongInv, ProcessorsInv
  <1>10. KongPlaces'
    BY <1>1, <1>2, <1>3, <1>4 DEF KongPlaces, KongInv
  <1>11. KongValues'
    BY <1>2, <1>3, <1>4 DEF KongValues, KongInv
  <1>12. SyncsCounted'
    BY <1>2, <1>3, <1>4 DEF SyncsCounted, KongInv
  <1>13. OnlyDue'
    BY <1>1, <1>2, <1>3, <1>4 DEF OnlyDue, KongInv
  <1>14. NoticesFinal'
    BY <1>2, <1>3, <1>4 DEF NoticesFinal, KongInv
  <1>15. AttemptsInOrder'
    BY <1>1, <1>2, <1>3, <1>4 DEF AttemptsInOrder, KongInv, KongPlaces, Notice
  <1>16. Told'
    BY <1>1, <1>2, <1>3, <1>4 DEF Told, KongInv
  <1>17. AgentsAttended'
    BY <1>1, <1>2, <1>5 DEF AgentsAttended, KongInv, Notice
  <1> QED BY <1>10, <1>11, <1>12, <1>13, <1>14, <1>15, <1>16, <1>17
      DEF KongParts

LEMMA QueueSyncKeeps ==
  ASSUME KongSetting, KongInv, NEW w \in Workers, NEW o, QueueSync(w, o)
  PROVE  KongParts'
  <1>1. \A v \in Workers : at'[v] = IF v = w THEN (IF o = "ok" THEN "returned" ELSE "threw") 
                               ELSE at[v]
    BY MoveEffect DEF QueueSync, KongInv, ProcessorsInv
  <1>2. /\ cur' = cur
        /\ syncs' = syncs /\ agents' = agents /\ result' = result /\ dms' = dms
    BY DEF QueueSync, kongVars
  <1>3. /\ at[w] = "queueing_sync" /\ cur[w] \in Deliveries
        /\ PullOf[cur[w]] \in Pulls /\ PullOf[cur[w]] \in Due
    BY KongIds DEF QueueSync, KongInv, KongPlaces, OnlyDue, Due, Wanted
  <1>4. \A v \in Workers : Notice(v)' = Notice(v)
    BY <1>2 DEF Notice
  <1>5. \A x \in KongJobs :
          \/ job'[x] = job[x]
          \/ /\ x \in Pulls /\ x \in Due /\ job[x].state = "absent"
             /\ job'[x].state = "waiting" /\ job'[x].stalls = 0
    <2>1. TryEnqueue(PullOf[cur[w]], o) /\ PullOf[cur[w]] \in Jobs /\ QueuesInv
      BY <1>3, KongIds DEF QueueSync, KongInv, ProcessorsInv, KongJobs
    <2> QED BY <1>3, <2>1, KongIds, TryEnqueueEffect
  <1>6. faults' = 0 => faults = 0
    BY DEF QueueSync, Outcome, Mishap, KongInv, ProcessorsInv
  <1>7. /\ Deliveries \subseteq KongJobs /\ Pulls \subseteq KongJobs
        /\ Notices \subseteq KongJobs /\ cur[w] \notin Pulls /\ cur[w] \notin Notices
    BY <1>3, KongIds DEF KongJobs
  <1>8. \A v \in Workers : cur[v] \in Pulls => Notice(v) \in Notices
    BY AtASync
  <1>9. \A n \in Notices : job'[n] = job[n]
    BY <1>5, <1>7, KongIds
  <1>10. KongPlaces'
    BY <1>1, <1>2, <1>3 DEF KongPlaces, KongInv
  <1>11. KongValues'
    BY <1>2, <1>3 DEF KongValues, KongInv
  <1>12. SyncsCounted'
    <2> SUFFICES ASSUME NEW p \in Pulls
                 PROVE  /\ job'[p].state = "absent" => syncs[p] = 0
                        /\ job'[p].state \in {"waiting", "delayed"}
                              => syncs[p] <= job'[p].stalls
                        /\ syncs[p] <= 1 + job'[p].stalls /\ syncs[p] <= MaxSyncs
                        /\ \A v \in Workers : cur[v] = p => syncs[p] > 0
      BY <1>2 DEF SyncsCounted
    <2>1. CASE job'[p] = job[p]
      BY <2>1 DEF KongInv, SyncsCounted
    <2>2. CASE /\ job[p].state = "absent"
               /\ job'[p].state = "waiting" /\ job'[p].stalls = 0
      BY <2>2, KongIds DEF KongInv, SyncsCounted
    <2> QED BY <1>5, <1>7, <2>1, <2>2
  <1>13. OnlyDue'
    BY <1>1, <1>2, <1>3, <1>5, <1>7, KongIds DEF OnlyDue, KongInv
  <1>14. NoticesFinal'
    BY <1>2, <1>3, <1>5, <1>7, KongIds DEF NoticesFinal, KongInv
  <1>15. AttemptsInOrder'
    BY <1>1, <1>2, <1>7, <1>8, <1>9
    DEF AttemptsInOrder, KongInv, KongPlaces, Notice
  <1>16. Told'
    <2>1. \A p \in Pulls : \A i \in 1..syncs[p] : job'[<<p, i>>] = job[<<p, i>>]
      BY <1>9, AttemptIds
    <2>2. \A p \in Pulls : job'[p].state = "completed" => job[p].state = "completed"
      BY <1>5, <1>7
    <2> QED BY <1>2, <2>1, <2>2 DEF Told, KongInv
  <1>17. AgentsAttended'
    BY <1>1, <1>2, <1>3, <1>4, <1>6 DEF AgentsAttended, KongInv, Notice
  <1> QED BY <1>10, <1>11, <1>12, <1>13, <1>14, <1>15, <1>16, <1>17
      DEF KongParts

LEMMA PostDirectMessageKeeps ==
  ASSUME KongSetting, KongInv, NEW w \in Workers, NEW o, PostDirectMessage(w, o)
  PROVE  KongParts'
  <1>1. \A v \in Workers : at'[v] = IF v = w THEN (IF o = "ok" THEN "returned" ELSE "threw") 
                               ELSE at[v]
    BY MoveEffect DEF PostDirectMessage, KongInv, ProcessorsInv
  <1>2. /\ job' = job /\ cur' = cur
        /\ syncs' = syncs /\ agents' = agents /\ result' = result
    BY DEF PostDirectMessage, kongVars, queues
  <1>3. /\ at[w] = "posting_dm" /\ cur[w] \in Notices /\ cur[w] \notin Pulls
        /\ cur[w] \notin Deliveries
    BY KongIds DEF PostDirectMessage, KongInv, KongPlaces
  <1>4. \A v \in Workers : Notice(v)' = Notice(v)
    BY <1>2 DEF Notice
  <1>5. /\ dms' \in [Pulls -> Nat]
        /\ \A p \in Pulls : p # cur[w][1] => dms'[p] = dms[p]
    BY <1>3, KongIds DEF PostDirectMessage, KongInv, KongValues
  <1>6. faults' = 0 => faults = 0
    BY DEF PostDirectMessage, Outcome, Mishap, KongInv, ProcessorsInv
  <1>10. KongPlaces'
    BY <1>1, <1>2, <1>3, <1>4 DEF KongPlaces, KongInv
  <1>11. KongValues'
    BY <1>2, <1>3, <1>4, <1>5 DEF KongValues, KongInv
  <1>12. SyncsCounted'
    BY <1>2, <1>3, <1>4 DEF SyncsCounted, KongInv
  <1>13. OnlyDue'
    BY <1>1, <1>2, <1>3, <1>4 DEF OnlyDue, KongInv
  <1>14. NoticesFinal'
    BY <1>2, <1>3, <1>4 DEF NoticesFinal, KongInv
  <1>15. AttemptsInOrder'
    BY <1>1, <1>2, <1>3, <1>4 DEF AttemptsInOrder, KongInv, KongPlaces, Notice
  <1>16. Told'
    <2>1. LET n == cur[w] IN
          /\ job[n].state # "absent" /\ result[n] = "pr-opened"
          /\ n = <<n[1], n[2]>> /\ n[2] \in Nat /\ n[2] > 0 /\ n[2] <= syncs[n[1]]
          /\ syncs[n[1]] \in Nat
      BY <1>3, KongIds DEF KongInv, AttemptsInOrder, NoticesFinal, KongValues
    <2>2. \E i \in 1..syncs[cur[w][1]] : /\ job[<<cur[w][1], i>>].state # "absent"
                                         /\ result[<<cur[w][1], i>>] = "pr-opened"
      BY <2>1
    <2> QED BY <1>2, <1>5, <2>2 DEF Told, KongInv
  <1>17. AgentsAttended'
    BY <1>1, <1>2, <1>3, <1>6 DEF AgentsAttended, KongInv, Notice
  <1> QED BY <1>10, <1>11, <1>12, <1>13, <1>14, <1>15, <1>16, <1>17
      DEF KongParts

LEMMA TakeDetectKeeps ==
  ASSUME KongSetting, KongInv, NEW w \in Workers, NEW d \in Deliveries, TakeDetect(w, d)
  PROVE  KongParts'
  <1>1. /\ \A v \in Workers : at'[v] = IF v = w THEN "listing_files" ELSE at[v]
        /\ \A v \in Workers : cur'[v] = IF v = w THEN d ELSE cur[v]
        /\ faults' = faults
    BY BeginEffect DEF TakeDetect, KongInv, ProcessorsInv
  <1>2. /\ job[d].state = "waiting" /\ at[w] = "idle" /\ QueueOf[d] = ServedBy[w]
        /\ job'[d].state = "active" /\ job'[d].stalls = job[d].stalls
        /\ \A x \in KongJobs : x # d => job'[x] = job[x]
    <2>1. d \in Jobs /\ QueuesInv
      BY KongIds DEF KongJobs, KongInv, ProcessorsInv
    <2> QED BY <2>1, KongIds, BeginInv DEF TakeDetect
  <1>3. /\ Deliveries \subseteq KongJobs /\ Pulls \subseteq KongJobs
        /\ Notices \subseteq KongJobs /\ d \in KongJobs
    BY DEF KongJobs
  <1>4. syncs' = syncs /\ agents' = agents /\ result' = result /\ dms' = dms
    BY DEF TakeDetect, kongVars
  <1>5. \A v \in Workers : v # w => Notice(v)' = Notice(v)
    BY <1>1, <1>4 DEF Notice
  <1>6. \A v \in Workers : cur[v] \in Pulls => v # w /\ Notice(v) \in Notices
    BY <1>2, AtASync
  <1>7. Wanted(PullOf[d]) /\ d \notin Pulls /\ d \notin Notices
    BY <1>2, KongIds DEF KongInv, OnlyDue
  <1>8. /\ \A n \in Notices : job'[n] = job[n]
        /\ \A p \in Pulls : job'[p] = job[p]
    BY <1>2, <1>3, <1>7
  <1>10. KongPlaces'
    BY <1>1, <1>2, <1>3 DEF KongPlaces, KongInv
  <1>11. KongValues'
    BY <1>2, <1>3, <1>4 DEF KongValues, KongInv
  <1>12. SyncsCounted'
    BY <1>1, <1>2, <1>3, <1>4, <1>7 DEF SyncsCounted, KongInv
  <1>13. OnlyDue'
    BY <1>1, <1>2, <1>3 DEF OnlyDue, KongInv
  <1>14. NoticesFinal'
    BY <1>2, <1>3, <1>4 DEF NoticesFinal, KongInv
  <1>15. AttemptsInOrder'
    BY <1>1, <1>2, <1>3, <1>4, <1>6
    DEF AttemptsInOrder, KongInv, KongPlaces, Notice
  <1>16. Told'
    <2>1. \A p \in Pulls : \A i \in 1..syncs[p] : job'[<<p, i>>] = job[<<p, i>>]
      BY <1>8, AttemptIds
    <2> QED BY <1>4, <1>8, <2>1 DEF Told, KongInv
  <1>17. AgentsAttended'
    BY <1>1, <1>2, <1>4, <1>5 DEF AgentsAttended, KongInv
  <1> QED BY <1>10, <1>11, <1>12, <1>13, <1>14, <1>15, <1>16, <1>17
      DEF KongParts

LEMMA TakeNoticeKeeps ==
  ASSUME KongSetting, KongInv, NEW w \in Workers, NEW n \in Notices, TakeNotice(w, n)
  PROVE  KongParts'
  <1>1. /\ \A v \in Workers : at'[v] = IF v = w THEN (IF result[n] = "no-route-changes"
                                             THEN "returned" ELSE "looking_up") ELSE at[v]
        /\ \A v \in Workers : cur'[v] = IF v = w THEN n ELSE cur[v]
        /\ faults' = faults
    BY BeginEffect DEF TakeNotice, KongInv, ProcessorsInv
  <1>2. /\ job[n].state = "waiting" /\ at[w] = "idle" /\ QueueOf[n] = ServedBy[w]
        /\ job'[n].state = "active" /\ job'[n].stalls = job[n].stalls
        /\ \A x \in KongJobs : x # n => job'[x] = job[x]
    <2>1. n \in Jobs /\ QueuesInv
      BY KongIds DEF KongJobs, KongInv, ProcessorsInv
    <2> QED BY <2>1, KongIds, BeginInv DEF TakeNotice
  <1>3. /\ Deliveries \subseteq KongJobs /\ Pulls \subseteq KongJobs
        /\ Notices \subseteq KongJobs /\ n \in KongJobs
    BY DEF KongJobs
  <1>4. syncs' = syncs /\ agents' = agents /\ result' = result /\ dms' = dms
    BY DEF TakeNotice, kongVars
  <1>5. \A v \in Workers : v # w => Notice(v)' = Notice(v)
    BY <1>1, <1>4 DEF Notice
  <1>6. \A v \in Workers : cur[v] \in Pulls => v # w /\ Notice(v) \in Notices
    BY <1>2, AtASync
  <1>7. n \notin Pulls /\ n \notin Deliveries /\ result[n] \in Results
    BY <1>2, KongIds DEF KongInv, NoticesFinal, KongValues
  <1>8. /\ \A x \in Notices : job'[x].state # "absent" <=> job[x].state # "absent"
        /\ \A p \in Pulls : job'[p] = job[p]
        /\ \A d \in Deliveries : job'[d] = job[d]
    BY <1>2, <1>3, <1>7
  <1>10. KongPlaces'
    BY <1>1, <1>2, <1>3 DEF KongPlaces, KongInv
  <1>11. KongValues'
    BY <1>2, <1>3, <1>4 DEF KongValues, KongInv
  <1>12. SyncsCounted'
    BY <1>1, <1>2, <1>3, <1>4, <1>7 DEF SyncsCounted, KongInv
  <1>13. OnlyDue'
    BY <1>1, <1>2, <1>3 DEF OnlyDue, KongInv
  <1>14. NoticesFinal'
    BY <1>2, <1>3, <1>4 DEF NoticesFinal, KongInv
  <1>15. AttemptsInOrder'
    BY <1>1, <1>2, <1>3, <1>4, <1>6, <1>7
    DEF AttemptsInOrder, KongInv, KongPlaces, Notice, Results
  <1>16. Told'
    <2>1. \A p \in Pulls : \A i \in 1..syncs[p] :
            job'[<<p, i>>].state # "absent" <=> job[<<p, i>>].state # "absent"
      BY <1>8, AttemptIds
    <2> QED BY <1>4, <1>8, <2>1 DEF Told, KongInv
  <1>17. AgentsAttended'
    BY <1>1, <1>2, <1>4, <1>5 DEF AgentsAttended, KongInv
  <1> QED BY <1>10, <1>11, <1>12, <1>13, <1>14, <1>15, <1>16, <1>17
      DEF KongParts

(* The coding processor: no other is in a sync.                            *)
LEMMA OnlySync ==
  ASSUME KongSetting, KongInv, NEW w \in Workers, ServedBy[w] = SyncQueue
  PROVE  \A v \in Workers : cur[v] \in Pulls => v = w
  BY AtASync DEF KongSetting, OneProcessor

LEMMA TakeSyncKeeps ==
  ASSUME KongSetting, KongInv, NEW w \in Workers, NEW p \in Pulls, TakeSync(w, p)
  PROVE  KongParts'
  <1>1. /\ \A v \in Workers : at'[v] = IF v = w THEN "opening_sync" ELSE at[v]
        /\ \A v \in Workers : cur'[v] = IF v = w THEN p ELSE cur[v]
        /\ faults' = faults
    BY BeginEffect DEF TakeSync, KongInv, ProcessorsInv
  <1>2. /\ job[p].state = "waiting" /\ at[w] = "idle" /\ QueueOf[p] = ServedBy[w]
        /\ job'[p].state = "active" /\ job'[p].stalls = job[p].stalls
        /\ \A x \in KongJobs : x # p => job'[x] = job[x]
    <2>1. p \in Jobs /\ QueuesInv
      BY KongIds DEF KongJobs, KongInv, ProcessorsInv
    <2> QED BY <2>1, KongIds, BeginInv DEF TakeSync
  <1>3. /\ Deliveries \subseteq KongJobs /\ Pulls \subseteq KongJobs
        /\ Notices \subseteq KongJobs /\ p \in KongJobs
    BY DEF KongJobs
  <1>4. agents' = agents /\ result' = result /\ dms' = dms
    BY DEF TakeSync, kongVars
  <1>5. \A v \in Workers : cur[v] \notin Pulls
    BY <1>2, KongAssumption, OnlySync, AtASync
  <1>6. /\ p \notin Deliveries /\ p \notin Notices
        /\ \A n \in Notices : job'[n] = job[n]
        /\ \A d \in Deliveries : job'[d] = job[d]
    BY <1>2, <1>3, KongIds
  <1>7. /\ syncs' \in [Pulls -> Nat] /\ syncs'[p] = syncs[p] + 1 /\ syncs[p] \in Nat
        /\ \A x \in Pulls : x # p => syncs'[x] = syncs[x]
        /\ \A x \in Pulls : syncs[x] \in Nat
    BY DEF TakeSync, KongInv, KongValues
  <1>8. /\ syncs[p] <= job[p].stalls /\ job[p].stalls <= MaxStalls
        /\ job[p].stalls \in Nat
    <2>1. ~Doomed(p)
      BY DEF TakeSync, Begin
    <2> QED BY <1>2, <2>1, AttemptIds, KongIds
        DEF Doomed, KongInv, SyncsCounted
  <1>10. KongPlaces'
    BY <1>1, <1>2, <1>3 DEF KongPlaces, KongInv
  <1>11. KongValues'
    BY <1>2, <1>4, <1>7 DEF KongValues, KongInv
  <1>12. SyncsCounted'
    <2> SUFFICES ASSUME NEW x \in Pulls
                 PROVE  /\ job'[x].state = "absent" => syncs'[x] = 0
                        /\ job'[x].state \in {"waiting", "delayed"}
                              => syncs'[x] <= job'[x].stalls
                        /\ syncs'[x] <= 1 + job'[x].stalls /\ syncs'[x] <= MaxSyncs
                        /\ \A v \in Workers : cur'[v] = x => syncs'[x] > 0
      BY DEF SyncsCounted
    <2>1. CASE x = p
      <3>1. syncs[p] + 1 <= 1 + job[p].stalls /\ syncs[p] + 1 <= MaxSyncs
            /\ syncs[p] + 1 > 0
        BY <1>7, <1>8, KongIds
      <3> QED BY <1>2, <1>7, <2>1, <3>1
    <2>2. CASE x # p
      <3>1. job'[x] = job[x] /\ syncs'[x] = syncs[x]
        BY <1>2, <1>3, <1>7, <2>2
      <3>2. \A v \in Workers : cur'[v] # x
        BY <1>1, <1>5, <2>2
      <3> QED BY <3>1, <3>2 DEF KongInv, SyncsCounted
    <2> QED BY <2>1, <2>2
  <1>13. OnlyDue'
    BY <1>1, <1>2, <1>3 DEF OnlyDue, KongInv
  <1>14. NoticesFinal'
    <2> SUFFICES ASSUME NEW n \in Notices, job[n].state # "absent"
                 PROVE  n[2] <= syncs'[n[1]] /\ result[n] # None
      BY <1>4, <1>6 DEF NoticesFinal
    <2>1. n[2] <= syncs[n[1]] /\ result[n] # None /\ n[1] \in Pulls /\ n[2] \in Nat
      BY KongIds DEF KongInv, NoticesFinal
    <2> QED BY <1>7, <2>1
  <1>15. AttemptsInOrder'
    <2>1. \A v \in Workers : v # w =>
            /\ at[v] \notin {"opening_sync", "syncing", "notifying", "stopping_done"}
            /\ cur'[v] \notin Pulls
      BY <1>1, <1>5 DEF KongInv, KongPlaces
    <2>2. Notice(w)' = <<p, syncs[p] + 1>>
      BY <1>1, <1>7 DEF Notice
    <2>3. job[<<p, syncs[p] + 1>>].state = "absent"
      <3> DEFINE n == <<p, syncs[p] + 1>>
      <3>1. syncs[p] + 1 \in 1..MaxSyncs
        BY <1>7, <1>8, KongIds
      <3>2. n \in Notices /\ n[1] = p /\ n[2] = syncs[p] + 1
        BY <3>1, KongIds
      <3>3. ~(n[2] <= syncs[p])
        BY <1>7, <3>2
      <3> HIDE DEF n
      <3>4. job[n].state = "absent"
        BY <3>2, <3>3 DEF KongInv, NoticesFinal
      <3> QED BY <3>4 DEF n
    <2>4. job'[<<p, syncs[p] + 1>>] = job[<<p, syncs[p] + 1>>]
      <3>1. syncs[p] + 1 \in 1..MaxSyncs
        BY <1>7, <1>8, KongIds
      <3> QED BY <1>6, <3>1, KongIds
    <2> SUFFICES ASSUME NEW v \in Workers
                 PROVE  /\ cur'[v] \in Notices => job'[cur'[v]].state # "absent"
                        /\ at'[v] \in {"opening_sync", "syncing"}
                             => job'[Notice(v)'].state = "absent"
                        /\ at'[v] = "notifying" => result'[Notice(v)'] # None
                        /\ at'[v] \in {"stopping_done", "returned"} /\ cur'[v] \in Pulls
                             => job'[Notice(v)'].state # "absent"
                        /\ at'[v] \in {"looking_up", "posting_dm"}
                             => result'[cur'[v]] = "pr-opened"
      BY DEF AttemptsInOrder
    <2>5. CASE v = w
      BY <1>1, <1>6, <2>2, <2>3, <2>4, <2>5
    <2>6. CASE v # w
      <3>1. at'[v] = at[v] /\ cur'[v] = cur[v]
        BY <1>1, <2>6
      <3> QED BY <1>4, <1>6, <2>1, <2>6, <3>1 DEF KongInv, AttemptsInOrder
    <2> QED BY <2>5, <2>6
  <1>16. Told'
    <2>3. \A x \in Pulls : /\ syncs[x] \in Nat /\ syncs'[x] \in Nat
                           /\ syncs[x] <= syncs'[x]
      BY <1>7
    <2>4. \A x \in Pulls : \A i \in 1..syncs[x] : job'[<<x, i>>] = job[<<x, i>>]
      BY <1>6, AttemptIds
    <2>1. \A x \in Pulls : \A i \in 1..syncs[x] :
            job'[<<x, i>>] = job[<<x, i>>] /\ i \in 1..syncs'[x]
      <3> TAKE x \in Pulls
      <3>1. 1..syncs[x] \subseteq 1..syncs'[x]
        BY <2>3
      <3> QED BY <2>4, <3>1
    <2>2. \A x \in Pulls : job'[x].state = "completed" => job[x].state = "completed"
      BY <1>2, <1>3
    <2> QED BY <1>4, <2>1, <2>2 DEF Told, KongInv
  <1>17. AgentsAttended'
    <2>1. faults = 0 => agents = {}
      BY <1>5 DEF KongInv, AgentsAttended, KongPlaces
    <2> QED BY <1>1, <1>4, <2>1 DEF AgentsAttended
  <1> QED BY <1>10, <1>11, <1>12, <1>13, <1>14, <1>15, <1>16, <1>17
      DEF KongParts

(* The agent is opened: from now on its session runs.                      *)
LEMMA OpenSyncKeeps ==
  ASSUME KongSetting, KongInv, NEW w \in Workers, NEW o, OpenSync(w, o)
  PROVE  KongParts'
  <1>1. \A v \in Workers : at'[v] = IF v = w THEN (IF o = "ok" THEN "syncing" ELSE "threw") 
                               ELSE at[v]
    BY MoveEffect DEF OpenSync, KongInv, ProcessorsInv
  <1>2. /\ job' = job /\ cur' = cur
        /\ syncs' = syncs /\ result' = result /\ dms' = dms
    BY DEF OpenSync, kongVars, queues
  <1>3. /\ cur[w] \in Pulls /\ cur[w] \notin Deliveries /\ cur[w] \notin Notices
        /\ cur[w] \in KongJobs /\ Notice(w) \in Notices
        /\ Notice(w)[1] = cur[w] /\ Notice(w)[2] = syncs[cur[w]]
    <2>1. cur[w] \in Pulls
      BY DEF OpenSync, KongInv, KongPlaces
    <2> QED BY <2>1, KongIds, AtASync DEF KongJobs
  <1>4. \A v \in Workers : Notice(v)' = Notice(v)
    BY <1>2 DEF Notice
  <1>6. at[w] = "opening_sync" /\ agents' \subseteq agents \cup {Notice(w)}
    BY DEF OpenSync
  <1>7. faults' = 0 => faults = 0 /\ o = "ok"
    BY DEF OpenSync, Outcome, Mishap, KongInv, ProcessorsInv
  <1>10. KongPlaces'
    BY <1>1, <1>2, <1>3 DEF KongPlaces, KongInv
  <1>11. KongValues'
    BY <1>2, <1>3, <1>4, <1>6 DEF KongValues, KongInv
  <1>12. SyncsCounted'
    BY <1>2, <1>3, <1>4, <1>6 DEF SyncsCounted, KongInv
  <1>13. OnlyDue'
    BY <1>1, <1>2 DEF OnlyDue, KongInv
  <1>14. NoticesFinal'
    BY <1>2, <1>3, <1>4, <1>6 DEF NoticesFinal, KongInv
  <1>15. AttemptsInOrder'
    BY <1>1, <1>2, <1>6 DEF AttemptsInOrder, KongInv, KongPlaces, Notice
  <1>16. Told'
    BY <1>2, <1>3, <1>4 DEF Told, KongInv
  <1>17. AgentsAttended'
    <2> SUFFICES ASSUME faults' = 0, NEW n \in agents'
                 PROVE  \E v \in Workers :
                   /\ at'[v] \in {"syncing", "notifying", "stopping_done", "stopping_failed"}
                   /\ Notice(v) = n
      BY <1>4 DEF AgentsAttended
    <2>1. CASE n = Notice(w)
      BY <1>1, <1>7, <2>1
    <2>2. CASE n \in agents
      <3>1. PICK v \in Workers :
              /\ at[v] \in {"syncing", "notifying", "stopping_done", "stopping_failed"}
              /\ Notice(v) = n
        BY <1>7, <2>2 DEF KongInv, AgentsAttended
      <3> QED BY <1>1, <1>6, <3>1
    <2> QED BY <1>6, <2>1, <2>2
  <1> QED BY <1>10, <1>11, <1>12, <1>13, <1>14, <1>15, <1>16, <1>17
      DEF KongParts

(* The agent has its last word.                                            *)
LEMMA SyncKeeps ==
  ASSUME KongSetting, KongInv, NEW w \in Workers,
         NEW r \in Results \cup {None}, Sync(w, r)
  PROVE  KongParts'
  <1>1. \A v \in Workers : at'[v] = IF v = w THEN (IF r = None THEN "stopping_failed" ELSE "notifying") 
                               ELSE at[v]
    BY MoveEffect DEF Sync, KongInv, ProcessorsInv
  <1>2. /\ job' = job /\ cur' = cur
        /\ syncs' = syncs /\ agents' = agents /\ dms' = dms /\ faults' = faults
    BY DEF Sync, kongVars, queues
  <1>3. /\ cur[w] \in Pulls /\ cur[w] \notin Deliveries /\ cur[w] \notin Notices
        /\ cur[w] \in KongJobs /\ Notice(w) \in Notices
        /\ Notice(w)[1] = cur[w] /\ Notice(w)[2] = syncs[cur[w]]
    <2>1. cur[w] \in Pulls
      BY DEF Sync, KongInv, KongPlaces
    <2> QED BY <2>1, KongIds, AtASync DEF KongJobs
  <1>4. \A v \in Workers : Notice(v)' = Notice(v)
    BY <1>2 DEF Notice
  <1>5. \A v \in Workers : cur[v] \in Pulls => v = w
    BY <1>3, OnlySync, AtASync
  <1>6. /\ at[w] = "syncing" /\ job[Notice(w)].state = "absent"
        /\ result' \in [Notices -> Results \cup {None}] /\ result'[Notice(w)] = r
        /\ \A n \in Notices : n # Notice(w) => result'[n] = result[n]
    BY <1>3 DEF Sync, KongInv, AttemptsInOrder, KongValues
  <1>10. KongPlaces'
    BY <1>1, <1>2, <1>3 DEF KongPlaces, KongInv
  <1>11. KongValues'
    BY <1>2, <1>3, <1>4, <1>6 DEF KongValues, KongInv
  <1>12. SyncsCounted'
    BY <1>2, <1>3, <1>4, <1>6 DEF SyncsCounted, KongInv
  <1>13. OnlyDue'
    BY <1>1, <1>2 DEF OnlyDue, KongInv
  <1>14. NoticesFinal'
    BY <1>2, <1>3, <1>4, <1>6 DEF NoticesFinal, KongInv
  <1>15. AttemptsInOrder'
    <2> SUFFICES ASSUME NEW v \in Workers
                 PROVE  /\ cur[v] \in Notices => job[cur[v]].state # "absent"
                        /\ at'[v] \in {"opening_sync", "syncing"}
                             => job[Notice(v)].state = "absent"
                        /\ at'[v] = "notifying" => result'[Notice(v)] # None
                        /\ at'[v] \in {"stopping_done", "returned"} /\ cur[v] \in Pulls
                             => job[Notice(v)].state # "absent"
                        /\ at'[v] \in {"looking_up", "posting_dm"}
                             => result'[cur[v]] = "pr-opened"
      BY <1>2, <1>4 DEF AttemptsInOrder
    <2>1. CASE v = w
      BY <1>1, <1>3, <1>6, <2>1
    <2>2. CASE v # w
      <3>1. at'[v] = at[v] /\ cur[v] \notin Pulls
        BY <1>1, <1>5, <2>2
      <3>2. at[v] # "notifying"
        BY <3>1 DEF KongInv, KongPlaces
      <3>3. at[v] \in {"looking_up", "posting_dm"} =>
              cur[v] \in Notices /\ job[cur[v]].state # "absent"
        BY DEF KongInv, KongPlaces, AttemptsInOrder
      <3> QED BY <1>6, <3>1, <3>2, <3>3 DEF KongInv, AttemptsInOrder
    <2> QED BY <2>1, <2>2
  <1>16. Told'
    <2>1. \A x \in Pulls : \A i \in 1..syncs[x] : <<x, i>> \in Notices
      BY AttemptIds
    <2> QED BY <1>2, <1>6, <2>1 DEF Told, KongInv
  <1>17. AgentsAttended'
    BY <1>1, <1>2 DEF AgentsAttended, KongInv, Notice
  <1> QED BY <1>10, <1>11, <1>12, <1>13, <1>14, <1>15, <1>16, <1>17
      DEF KongParts

(* Its last word is told to the notifier, or not.                          *)
LEMMA QueueNoticeKeeps ==
  ASSUME KongSetting, KongInv, NEW w \in Workers, NEW o, QueueNotice(w, o)
  PROVE  KongParts'
  <1>1. \A v \in Workers : at'[v] = IF v = w THEN (IF o = "ok" THEN "stopping_done"
                                                      ELSE "stopping_failed") 
                               ELSE at[v]
    BY MoveEffect DEF QueueNotice, KongInv, ProcessorsInv
  <1>2. /\ cur' = cur
        /\ syncs' = syncs /\ agents' = agents /\ result' = result /\ dms' = dms
    BY DEF QueueNotice, kongVars
  <1>3. /\ cur[w] \in Pulls /\ cur[w] \notin Deliveries /\ cur[w] \notin Notices
        /\ cur[w] \in KongJobs /\ Notice(w) \in Notices
        /\ Notice(w)[1] = cur[w] /\ Notice(w)[2] = syncs[cur[w]]
    <2>1. cur[w] \in Pulls
      BY DEF QueueNotice, KongInv, KongPlaces
    <2> QED BY <2>1, KongIds, AtASync DEF KongJobs
  <1>4. \A v \in Workers : Notice(v)' = Notice(v)
    BY <1>2 DEF Notice
  <1>5. \A v \in Workers : cur[v] \in Pulls => v = w
    BY <1>3, OnlySync, AtASync
  <1>6. /\ at[w] = "notifying" /\ result[Notice(w)] # None
        /\ \A x \in KongJobs : x # Notice(w) => job'[x] = job[x]
        /\ job[Notice(w)].state # "absent" => job'[Notice(w)].state # "absent"
        /\ o = "ok" => job'[Notice(w)].state # "absent"
    <2>1. Notice(w) \in Jobs /\ QueuesInv /\ KongJobs \subseteq Jobs
      BY <1>3, KongIds DEF KongJobs, KongInv, ProcessorsInv
    <2> QED BY <2>1, TryEnqueueEffect DEF QueueNotice, KongInv, AttemptsInOrder
  <1>7. /\ \A p \in Pulls : job'[p] = job[p]
        /\ \A d \in Deliveries : job'[d] = job[d]
    BY <1>3, <1>6, KongIds DEF KongJobs
  <1>8. \A n \in Notices : /\ job[n].state # "absent" => job'[n].state # "absent"
                           /\ n # Notice(w) => job'[n] = job[n]
    BY <1>6, KongIds DEF KongJobs
  <1>9. faults' = 0 => faults = 0
    BY DEF QueueNotice, Outcome, Mishap, KongInv, ProcessorsInv
  <1>10. KongPlaces'
    BY <1>1, <1>2, <1>3 DEF KongPlaces, KongInv
  <1>11. KongValues'
    BY <1>2, <1>3, <1>4, <1>7 DEF KongValues, KongInv
  <1>12. SyncsCounted'
    BY <1>2, <1>3, <1>4, <1>7 DEF SyncsCounted, KongInv
  <1>13. OnlyDue'
    BY <1>1, <1>2, <1>7 DEF OnlyDue, KongInv
  <1>14. NoticesFinal'
    <2>1. Notice(w)[2] <= syncs[Notice(w)[1]] /\ syncs[cur[w]] \in Nat
      BY <1>3, AtASync
    <2> QED BY <1>2, <1>6, <1>8, <2>1 DEF NoticesFinal, KongInv
  <1>15. AttemptsInOrder'
    <2> SUFFICES ASSUME NEW v \in Workers
                 PROVE  /\ cur[v] \in Notices => job'[cur[v]].state # "absent"
                        /\ at'[v] \in {"opening_sync", "syncing"}
                             => job'[Notice(v)].state = "absent"
                        /\ at'[v] = "notifying" => result[Notice(v)] # None
                        /\ at'[v] \in {"stopping_done", "returned"} /\ cur[v] \in Pulls
                             => job'[Notice(v)].state # "absent"
                        /\ at'[v] \in {"looking_up", "posting_dm"}
                             => result[cur[v]] = "pr-opened"
      BY <1>2, <1>4 DEF AttemptsInOrder
    <2>1. CASE v = w
      BY <1>1, <1>3, <1>6, <2>1
    <2>2. CASE v # w
      <3>1. at'[v] = at[v] /\ cur[v] \notin Pulls
        BY <1>1, <1>5, <2>2
      <3>2. at[v] \notin {"opening_sync", "syncing"}
        BY <3>1 DEF KongInv, KongPlaces
      <3> QED BY <1>8, <3>1, <3>2 DEF KongInv, AttemptsInOrder
    <2> QED BY <2>1, <2>2
  <1>16. Told'
    <2>1. \A x \in Pulls : \A i \in 1..syncs[x] : <<x, i>> \in Notices
      BY AttemptIds
    <2> QED BY <1>2, <1>7, <1>8, <2>1 DEF Told, KongInv
  <1>17. AgentsAttended'
    BY <1>1, <1>2, <1>4, <1>9 DEF AgentsAttended, KongInv
  <1> QED BY <1>10, <1>11, <1>12, <1>13, <1>14, <1>15, <1>16, <1>17
      DEF KongParts

(* The session is stopped, and forgotten.                                  *)
LEMMA StopSyncKeeps ==
  ASSUME KongSetting, KongInv, NEW w \in Workers, NEW o, StopSync(w, o)
  PROVE  KongParts'
  <1>1. \A v \in Workers : at'[v] = IF v = w THEN (IF o = "ok" /\ at[w] = "stopping_done"
                                             THEN "returned" ELSE "threw") 
                               ELSE at[v]
    BY MoveEffect DEF StopSync, KongInv, ProcessorsInv
  <1>2. /\ job' = job /\ cur' = cur
        /\ syncs' = syncs /\ result' = result /\ dms' = dms
    BY DEF StopSync, kongVars, queues
  <1>3. /\ cur[w] \in Pulls /\ cur[w] \notin Deliveries /\ cur[w] \notin Notices
        /\ cur[w] \in KongJobs /\ Notice(w) \in Notices
        /\ Notice(w)[1] = cur[w] /\ Notice(w)[2] = syncs[cur[w]]
    <2>1. cur[w] \in Pulls
      BY DEF StopSync, KongInv, KongPlaces
    <2> QED BY <2>1, KongIds, AtASync DEF KongJobs
  <1>4. \A v \in Workers : Notice(v)' = Notice(v)
    BY <1>2 DEF Notice
  <1>6. /\ at[w] \in {"stopping_done", "stopping_failed"}
        /\ agents' \subseteq agents
        /\ o = "ok" => agents' = agents \ {Notice(w)}
    BY ProcessorsAssumption DEF StopSync, Outcomes
  <1>7. faults' = 0 => faults = 0 /\ o = "ok"
    BY DEF StopSync, Outcome, Mishap, KongInv, ProcessorsInv
  <1>10. KongPlaces'
    BY <1>1, <1>2 DEF KongPlaces, KongInv
  <1>11. KongValues'
    BY <1>2, <1>3, <1>4, <1>6 DEF KongValues, KongInv
  <1>12. SyncsCounted'
    BY <1>2, <1>3, <1>4, <1>6 DEF SyncsCounted, KongInv
  <1>13. OnlyDue'
    BY <1>1, <1>2 DEF OnlyDue, KongInv
  <1>14. NoticesFinal'
    BY <1>2, <1>3, <1>4, <1>6 DEF NoticesFinal, KongInv
  <1>15. AttemptsInOrder'
    BY <1>1, <1>2 DEF AttemptsInOrder, KongInv, KongPlaces, Notice
  <1>16. Told'
    BY <1>1, <1>2, <1>3, <1>4, <1>6 DEF Told, KongInv
  <1>17. AgentsAttended'
    BY <1>1, <1>4, <1>6, <1>7 DEF AgentsAttended, KongInv
  <1> QED BY <1>10, <1>11, <1>12, <1>13, <1>14, <1>15, <1>16, <1>17
      DEF KongParts

(* What the end of an attempt does to the jobs.                            *)
LEMMA KongEndEffect ==
  ASSUME KongSetting, KongInv, NEW w \in Workers, End(w)
  PROVE  /\ at[w] \in {"returned", "threw"}
         /\ \A x \in KongJobs : job'[x].state # "absent" => job[x].state # "absent"
         /\ \A x \in Pulls \cup Notices :
              /\ job[x].state # "absent" => job'[x].state # "absent"
              /\ job'[x].stalls = job[x].stalls
         /\ \A p \in Pulls :
              job'[p] = job[p] \/ job'[p].state \in {"completed", "failed"}
         /\ \A p \in Pulls : job'[p].state = "completed" /\ job'[p] # job[p] =>
              p = cur[w] /\ at[w] = "returned"
  <1> DEFINE id == cur[w]
  <1>1. ProcessorsInv /\ QueuesInv /\ id \in Jobs /\ at[w] \in {"returned", "threw"}
    BY EndInv DEF KongInv, ProcessorsInv
  <1>2. KongJobs \subseteq Jobs /\ Pulls \subseteq KongJobs /\ Notices \subseteq KongJobs
    BY KongIds DEF KongJobs
  <1>3. \A x \in Pulls \cup Notices : KeepsAll(QueueOf[x])
    BY KongAssumption DEF KongSetting
  <1>4. \A p \in Pulls : LastAttempt(p)
    <2>1. \A p \in Pulls : job[p].made \in Nat
      BY <1>1, <1>2 DEF QueuesInv, AnyRecord
    <2> QED BY <2>1, KongAssumption DEF LastAttempt
  <1> HIDE DEF KeepsAll
  <1>5. CASE ~HoldsLock(w, id)
    <2>1. job' = job
      BY <1>1, <1>5, EndInv
    <2> QED BY <1>1, <2>1
  <1>6. CASE HoldsLock(w, id) /\ at[w] = "returned"
    <2>1. job[id].state = "active"
      BY <1>6 DEF HoldsLock
    <2>2. \A x \in Jobs : x # id =>
                    \/ job'[x] = job[x]
                    \/ /\ job[x].state = "completed" /\ QueueOf[x] = QueueOf[id]
                       /\ job'[x] = NoJob
      BY <1>1, <1>6, EndInv
    <2>3. \A x \in Jobs : job'[x].state # "absent" => job[x].state # "absent"
      BY <2>1, <2>2 DEF NoJob
    <2>4. \A x \in Pulls \cup Notices : x # id => job'[x] = job[x]
      <3>1. KeepsAll(QueueOf[id]) => \A x \in Jobs : x # id => job'[x] = job[x]
        BY <1>1, <1>6, EndInv
      <3> QED BY <1>2, <1>3, <2>2, <3>1
    <2>5. id \in Pulls \cup Notices =>
            job'[id].state = "completed" /\ job'[id].stalls = job[id].stalls
      <3> SUFFICES ASSUME id \in Pulls \cup Notices
                   PROVE  job'[id].state = "completed" /\ job'[id].stalls = job[id].stalls
        OBVIOUS
      <3>1. job'[id].state = "completed"
        BY <1>1, <1>3, <1>6, EndInv
      <3>2. \/ job'[id] = NoJob
            \/ job'[id].stalls = job[id].stalls
        BY <1>1, <1>6, EndInv
      <3> QED BY <3>1, <3>2 DEF NoJob
    <2> QED BY <1>2, <1>6, <2>3, <2>4, <2>5
  <1>7. CASE HoldsLock(w, id) /\ at[w] = "threw"
    <2>1. job[id].state = "active"
      BY <1>7 DEF HoldsLock
    <2>2. /\ job'[id].state = IF LastAttempt(id) THEN "failed" ELSE "delayed"
          /\ job'[id].stalls = job[id].stalls
          /\ \A x \in Jobs : x # id => job'[x] = job[x]
      BY <1>1, <1>7, EndInv
    <2> QED BY <1>1, <1>2, <1>4, <2>1, <2>2
  <1> QED BY <1>1, <1>5, <1>6, <1>7

(* An attempt ends.                                                        *)
LEMMA EndKongKeeps ==
  ASSUME KongSetting, KongInv, NEW w \in Workers, EndKong(w)
  PROVE  KongParts'
  <1>1. /\ \A v \in Workers : at'[v] = IF v = w THEN "idle" ELSE at[v]
        /\ \A v \in Workers : cur'[v] = IF v = w THEN None ELSE cur[v]
        /\ faults' = faults
    BY EndEffect DEF EndKong, KongInv, ProcessorsInv
  <1>2. /\ at[w] \in {"returned", "threw"}
        /\ \A x \in KongJobs : job'[x].state # "absent" => job[x].state # "absent"
        /\ \A x \in Pulls \cup Notices :
             /\ job[x].state # "absent" => job'[x].state # "absent"
             /\ job'[x].stalls = job[x].stalls
        /\ \A p \in Pulls :
             job'[p] = job[p] \/ job'[p].state \in {"completed", "failed"}
        /\ \A p \in Pulls : job'[p].state = "completed" /\ job'[p] # job[p] =>
             p = cur[w] /\ at[w] = "returned"
    BY KongEndEffect DEF EndKong
  <1>3. /\ Deliveries \subseteq KongJobs /\ Pulls \subseteq KongJobs
        /\ Notices \subseteq KongJobs
        /\ None \notin Pulls /\ None \notin Notices /\ None \notin Deliveries
    BY KongIds DEF KongJobs
  <1>4. syncs' = syncs /\ agents' = agents /\ result' = result /\ dms' = dms
    BY DEF EndKong, kongVars
  <1>5. \A v \in Workers : v # w => Notice(v)' = Notice(v)
    BY <1>1, <1>4 DEF Notice
  <1>6. \A n \in Notices : job'[n].state = "absent" <=> job[n].state = "absent"
    BY <1>2, <1>3
  <1>7. \A v \in Workers : cur[v] \in Pulls => Notice(v) \in Notices
    BY AtASync
  <1>10. KongPlaces'
    BY <1>1, <1>2 DEF KongPlaces, KongInv
  <1>11. KongValues'
    BY <1>2, <1>4 DEF KongValues, KongInv
  <1>12. SyncsCounted'
    <2> SUFFICES ASSUME NEW p \in Pulls
                 PROVE  /\ job'[p].state = "absent" => syncs[p] = 0
                        /\ job'[p].state \in {"waiting", "delayed"}
                              => syncs[p] <= job'[p].stalls
                        /\ syncs[p] <= 1 + job'[p].stalls /\ syncs[p] <= MaxSyncs
                        /\ \A v \in Workers : cur'[v] = p => syncs[p] > 0
      BY <1>4 DEF SyncsCounted
    <2>1. \A v \in Workers : cur'[v] = p => cur[v] = p
      BY <1>1, <1>3
    <2> QED BY <1>2, <2>1 DEF KongInv, SyncsCounted
  <1>13. OnlyDue'
    BY <1>1, <1>2, <1>3 DEF OnlyDue, KongInv
  <1>14. NoticesFinal'
    BY <1>2, <1>3, <1>4 DEF NoticesFinal, KongInv
  <1>15. AttemptsInOrder'
    <2> SUFFICES ASSUME NEW v \in Workers
                 PROVE  /\ cur'[v] \in Notices => job'[cur'[v]].state # "absent"
                        /\ at'[v] \in {"opening_sync", "syncing"}
                             => job'[Notice(v)'].state = "absent"
                        /\ at'[v] = "notifying" => result[Notice(v)'] # None
                        /\ at'[v] \in {"stopping_done", "returned"} /\ cur'[v] \in Pulls
                             => job'[Notice(v)'].state # "absent"
                        /\ at'[v] \in {"looking_up", "posting_dm"}
                             => result[cur'[v]] = "pr-opened"
      BY <1>4 DEF AttemptsInOrder
    <2>1. CASE v = w
      BY <1>1, <1>3, <2>1
    <2>2. CASE v # w
      <3>1. at'[v] = at[v] /\ cur'[v] = cur[v] /\ Notice(v)' = Notice(v)
        BY <1>1, <1>5, <2>2
      <3>2. at[v] \in {"opening_sync", "syncing"} => Notice(v) \in Notices
        BY <1>7 DEF KongInv, KongPlaces
      <3> QED BY <1>6, <1>7, <3>1, <3>2 DEF KongInv, AttemptsInOrder
    <2> QED BY <2>1, <2>2
  <1>16. Told'
    <2> SUFFICES ASSUME NEW p \in Pulls
                 PROVE  /\ dms[p] > 0 =>
                             \E i \in 1..syncs[p] :
                               /\ job'[<<p, i>>].state # "absent"
                               /\ result[<<p, i>>] = "pr-opened"
                        /\ job'[p].state = "completed" =>
                             \E i \in 1..syncs[p] : job'[<<p, i>>].state # "absent"
      BY <1>4 DEF Told
    <2>1. \A i \in 1..syncs[p] : job'[<<p, i>>].state = "absent" <=>
                                 job[<<p, i>>].state = "absent"
      BY <1>6, AttemptIds
    <2>2. CASE job'[p] = job[p] \/ job'[p].state # "completed"
      BY <2>1, <2>2 DEF KongInv, Told
    <2>3. CASE job'[p] # job[p] /\ job'[p].state = "completed"
      <3>1. p = cur[w] /\ at[w] = "returned"
        BY <1>2, <2>3
      <3>2. job[Notice(w)].state # "absent"
        BY <3>1 DEF KongInv, AttemptsInOrder
      <3>3. Notice(w) = <<p, syncs[p]>>
        BY <3>1 DEF Notice
      <3>4. syncs[p] \in Nat /\ syncs[p] > 0
        BY <3>1, AtASync
      <3>5. syncs[p] \in 1..syncs[p]
        BY <3>4
      <3> QED BY <2>1, <3>2, <3>3, <3>5 DEF KongInv, Told
    <2> QED BY <2>2, <2>3
  <1>17. AgentsAttended'
    BY <1>1, <1>2, <1>4, <1>5 DEF AgentsAttended, KongInv
  <1> QED BY <1>10, <1>11, <1>12, <1>13, <1>14, <1>15, <1>16, <1>17
      DEF KongParts

(* A process of processors dies.                                           *)
LEMMA CrashKeeps ==
  ASSUME KongSetting, KongInv, NEW ws \in SUBSET Workers, Crash(ws),
         agents' \subseteq agents, UNCHANGED <<syncs, result, dms>>
  PROVE  KongParts'
  <1>1. /\ \A v \in Workers : at'[v] = IF v \in ws THEN "idle" ELSE at[v]
        /\ \A v \in Workers : cur'[v] = IF v \in ws THEN None ELSE cur[v]
    BY DEF Crash
  <1>2. /\ job' = job /\ syncs' = syncs /\ result' = result /\ dms' = dms
        /\ agents' \subseteq agents
    BY DEF Crash, queues
  <1>3. None \notin Pulls /\ None \notin Notices /\ None \notin Deliveries
    BY KongIds DEF KongJobs
  <1>4. \A v \in Workers : v \notin ws => Notice(v)' = Notice(v)
    BY <1>1, <1>2 DEF Notice
  <1>5. faults' # 0
    BY DEF Crash, Mishap, KongInv, ProcessorsInv
  <1>10. KongPlaces'
    BY <1>1, <1>2, <1>3, <1>4 DEF KongPlaces, KongInv
  <1>11. KongValues'
    BY <1>2, <1>3, <1>4 DEF KongValues, KongInv
  <1>12. SyncsCounted'
    BY <1>1, <1>2, <1>3, <1>4 DEF SyncsCounted, KongInv
  <1>13. OnlyDue'
    BY <1>1, <1>2, <1>3, <1>4 DEF OnlyDue, KongInv
  <1>14. NoticesFinal'
    BY <1>2, <1>3, <1>4 DEF NoticesFinal, KongInv
  <1>15. AttemptsInOrder'
    <2> SUFFICES ASSUME NEW v \in Workers
                 PROVE  /\ cur'[v] \in Notices => job[cur'[v]].state # "absent"
                        /\ at'[v] \in {"opening_sync", "syncing"}
                             => job[Notice(v)'].state = "absent"
                        /\ at'[v] = "notifying" => result[Notice(v)'] # None
                        /\ at'[v] \in {"stopping_done", "returned"} /\ cur'[v] \in Pulls
                             => job[Notice(v)'].state # "absent"
                        /\ at'[v] \in {"looking_up", "posting_dm"}
                             => result[cur'[v]] = "pr-opened"
      BY <1>2 DEF AttemptsInOrder
    <2>1. CASE v \in ws
      BY <1>1, <1>3, <2>1
    <2>2. CASE v \notin ws
      <3>1. at'[v] = at[v] /\ cur'[v] = cur[v] /\ Notice(v)' = Notice(v)
        BY <1>1, <1>4, <2>2
      <3> QED BY <3>1 DEF KongInv, AttemptsInOrder
    <2> QED BY <2>1, <2>2
  <1>16. Told'
    BY <1>1, <1>2, <1>3, <1>4 DEF Told, KongInv
  <1>17. AgentsAttended'
    BY <1>2, <1>3, <1>4, <1>5 DEF AgentsAttended, KongInv, Notice
  <1> QED BY <1>10, <1>11, <1>12, <1>13, <1>14, <1>15, <1>16, <1>17
      DEF KongParts

LEMMA KongBegins == ProcessorsInit /\ KongInit => KongInv
  <1> SUFFICES ASSUME ProcessorsInit, KongInit PROVE KongInv
    OBVIOUS
  <1>1. ProcessorsInv
    BY ProcessorsInitInv
  <1>2. /\ \A id \in KongJobs : job[id].state = "absent" /\ job[id].stalls = 0
        /\ \A w \in Workers : at[w] = "idle" /\ cur[w] = None
    BY KongIds DEF ProcessorsInit, NoJob
  <1>3. /\ Deliveries \subseteq KongJobs /\ Pulls \subseteq KongJobs
        /\ Notices \subseteq KongJobs
        /\ None \notin Pulls /\ None \notin Notices /\ None \notin Deliveries
    BY KongIds DEF KongJobs
  <1>4. MaxSyncs \in Nat
    BY KongIds
  <1>5. /\ syncs = [p \in Pulls |-> 0] /\ dms = [p \in Pulls |-> 0]
        /\ result = [n \in Notices |-> None] /\ agents = {}
    BY DEF KongInit
  <1>6. KongPlaces /\ KongValues /\ OnlyDue /\ NoticesFinal /\ AttemptsInOrder
        /\ Told /\ AgentsAttended
    BY <1>2, <1>3, <1>5
    DEF KongPlaces, KongValues, OnlyDue, NoticesFinal, AttemptsInOrder, Told,
        AgentsAttended
  <1>7. SyncsCounted
    BY <1>2, <1>3, <1>4, <1>5 DEF SyncsCounted
  <1> QED BY <1>1, <1>6, <1>7 DEF KongInv

LEMMA KongStep ==
  ASSUME KongSetting, KongInv, [KongNext]_kong
  PROVE  KongInv'
  <1>1. ProcessorsInv'
    BY KongIsProcessors, ProcessorsStepInv DEF KongInv
  <1>2. KongParts'
    <2>1. CASE UNCHANGED kong
      <3>1. /\ UNCHANGED <<job, at, cur, faults, syncs, agents, result, dms>>
            /\ \A w \in Workers : Notice(w)' = Notice(w)
        BY <2>1 DEF kong, kongVars, queues, attempts, Notice
      <3> QED BY <3>1
          DEF KongInv, KongParts, KongPlaces, KongValues, SyncsCounted,
              OnlyDue, NoticesFinal, AttemptsInOrder, Told, AgentsAttended
    <2>2. ASSUME NEW d \in Deliveries, NEW o \in Outcomes, OnPullRequestClosed(d, o)
          PROVE  KongParts'
      <3>1. d \in KongJobs /\ d \in Jobs /\ QueuesInv
        BY KongIds DEF KongJobs, KongInv, ProcessorsInv
      <3>2. UNCHANGED kongVars /\ UNCHANGED attempts /\ (UNCHANGED faults \/ Mishap)
        BY <2>2 DEF OnPullRequestClosed, Outcome
      <3>3. job[d].stalls \in Nat
        BY <3>1 DEF QueuesInv, AnyRecord
      <3>4. CASE ~Wanted(PullOf[d])
        <4>1. job' = job
          BY <2>2, <3>4 DEF OnPullRequestClosed, queues
        <4> QED BY <3>1, <3>2, <3>3, <4>1, QuietKeeps
      <3>5. CASE Wanted(PullOf[d])
        <4>1. TryEnqueue(d, o)
          BY <2>2, <3>5 DEF OnPullRequestClosed
        <4>2. /\ \A x \in Jobs : x # d => job'[x] = job[x]
              /\ job[d].state # "absent" => job'[d] = job[d]
              /\ job[d].state = "absent" =>
                   \/ job'[d] = job[d]
                   \/ job'[d].state = "waiting" /\ job'[d].stalls = 0
          BY <3>1, <4>1, TryEnqueueEffect
        <4>3. job[d].state = "absent" => job[d].stalls = 0
          BY <3>1 DEF QueuesInv, CountsRight, NoJob
        <4>4. job'[d].stalls >= job[d].stalls /\ job'[d].stalls \in Nat
          BY <3>3, <4>2, <4>3
        <4> QED BY <3>1, <3>2, <3>3, <3>5, <4>2, <4>4, KongIds, QuietKeeps
      <3> QED BY <3>4, <3>5
    <2>3. ASSUME NEW id \in KongJobs, KongTimer(id)
          PROVE  KongParts'
      <3>1. id \in Jobs /\ QueuesInv /\ job[id].stalls \in Nat
        BY KongIds DEF KongInv, ProcessorsInv, QueuesInv, AnyRecord
      <3>2. UNCHANGED kongVars /\ UNCHANGED attempts
            /\ (UNCHANGED faults \/ Mishap)
        BY <2>3 DEF KongTimer, Timer
      <3>3. /\ job'[id].state = "waiting"
            /\ \/ job[id].state = "delayed" /\ job'[id].stalls = job[id].stalls
               \/ job[id].state = "active" /\ job'[id].stalls = job[id].stalls + 1
            /\ \A x \in Jobs : x # id => job'[x] = job[x]
        BY <2>3, <3>1, TimerInv DEF KongTimer
      <3>4. job'[id].stalls >= job[id].stalls /\ job'[id].stalls \in Nat
        BY <3>1, <3>3
      <3> QED BY <3>2, <3>3, <3>4, KongIds, QuietKeeps
    <2>4. CASE CrashCodingWorker
      <3>1. PICK ws \in SUBSET Workers : Crash(ws)
        BY <2>4 DEF CrashCodingWorker
      <3> QED BY <2>4, <3>1, CrashKeeps DEF CrashCodingWorker
    <2>5. CASE CrashWeb
      <3>1. PICK ws \in SUBSET Workers : Crash(ws)
        BY <2>5 DEF CrashWeb
      <3> QED BY <2>5, <3>1, CrashKeeps DEF CrashWeb
    <2>6. ASSUME NEW w \in Workers, ServeKong(w)
          PROVE  KongParts'
      <3>1. ASSUME NEW id \in KongJobs, GiveUp(w, id), UNCHANGED kongVars
            PROVE  KongParts'
        <4>1. id \in Jobs /\ QueuesInv /\ job[id].stalls \in Nat
          BY KongIds DEF KongInv, ProcessorsInv, QueuesInv, AnyRecord
        <4>2. /\ job[id].state = "waiting" /\ job'[id].state = "failed"
              /\ job'[id].stalls = job[id].stalls
              /\ \A x \in Jobs : x # id => job'[x] = job[x]
          BY <3>1, <4>1, GiveUpInv
        <4>3. UNCHANGED attempts /\ UNCHANGED faults
          BY <3>1 DEF GiveUp
        <4> QED BY <3>1, <4>1, <4>2, <4>3, KongIds, QuietKeeps
      <3> QED BY <2>6, <3>1, TakeDetectKeeps, TakeSyncKeeps, TakeNoticeKeeps
          DEF ServeKong
    <2>7. ASSUME NEW w \in Workers, NEW o, ListFiles(w, o) \/ FindAuthor(w, o) \/ LookUpUser(w, o)
          PROVE  KongParts'
      <3>1. at[w] \in {"listing_files", "finding_author"} => cur[w] \in Deliveries
        BY DEF KongInv, KongPlaces
      <3>2. at[w] = "finding_author" => PullOf[cur[w]] \in TouchRoutes
        BY DEF KongInv, OnlyDue
      <3>3. CASE ListFiles(w, o)
        BY <3>1, <3>3, PlainMoveKeeps DEF ListFiles
      <3>4. CASE FindAuthor(w, o)
        BY <3>1, <3>2, <3>4, PlainMoveKeeps DEF FindAuthor
      <3>5. CASE LookUpUser(w, o)
        BY <3>5, PlainMoveKeeps DEF LookUpUser
      <3> QED BY <2>7, <3>3, <3>4, <3>5
    <2>8. ASSUME NEW w \in Workers, AttendKong(w)
          PROVE  KongParts'
      BY <2>7, <2>8, QueueSyncKeeps, OpenSyncKeeps, QueueNoticeKeeps,
         StopSyncKeeps, PostDirectMessageKeeps, EndKongKeeps
      DEF AttendKong
    <2> QED BY <2>1, <2>2, <2>3, <2>4, <2>5, <2>6, <2>8, SyncKeeps DEF KongNext
  <1> QED BY <1>1, <1>2 DEF KongInv, KongParts

LEMMA KongInvIsEnough == KongInv => SyncIsRight
  <1> SUFFICES ASSUME KongInv PROVE SyncIsRight
    OBVIOUS
  <1>1. OneSyncPerPull
    BY DEF KongInv, SyncsCounted, OneSyncPerPull
  <1>2. DMedAboutRoutes
    <2> SUFFICES ASSUME NEW p \in Pulls, dms[p] > 0
                 PROVE  /\ p \in Due
                        /\ \E n \in 1..syncs[p] : result[<<p, n>>] = "pr-opened"
      BY DEF DMedAboutRoutes, Due
    <2>1. PICK i \in 1..syncs[p] : result[<<p, i>>] = "pr-opened"
      BY DEF KongInv, Told
    <2>3. p \in Due
      BY DEF KongInv, SyncsCounted, OnlyDue
    <2> QED BY <2>1, <2>3
  <1>3. SyncedIsNotified
    BY DEF KongInv, Told, SyncedIsNotified
  <1>4. AgentsAreStopped
    <2> SUFFICES ASSUME faults = 0, NEW n \in agents
                 PROVE  \E w \in Workers : cur[w] = n[1]
      BY DEF AgentsAreStopped
    <2>1. PICK w \in Workers : Notice(w) = n
      BY DEF KongInv, AgentsAttended
    <2> QED BY <2>1 DEF Notice
  <1> QED BY <1>1, <1>2, <1>3, <1>4 DEF SyncIsRight

(* However merges are delivered, and whatever fails, a merge is mirrored   *)
(* once, its author told, nobody else, and nothing is left running: where  *)
(* one coding worker runs and the jobs asked for are still retained.       *)
THEOREM KongSyncIsRight ==
  ASSUME KongSetting
  PROVE  KongSpec => []SyncIsRight
  <1>1. KongInv /\ [KongNext]_kong => KongInv'
    BY KongStep
  <1> QED BY <1>1, KongBegins, KongInvIsEnough, PTL DEF KongSpec

(* And its three queues behave as JobQueues.                               *)
THEOREM KongQueuesAreJobQueues ==
  ASSUME KongSetting
  PROVE  KongSpec => QueuesAreJobQueues
  <1>1. KongInv /\ [KongNext]_kong => KongInv'
    BY KongStep
  <1>2. KongInv /\ [KongNext]_kong => [ProcessorsNext]_<<queues, attempts, faults>>
    BY KongIsProcessors
  <1> QED BY <1>1, <1>2, KongBegins, ProcessorsAreJobQueues, PTL DEF KongSpec

-----------------------------------------------------------------------------
(* Customer support.                                                       *)

(* The kinds of jobs that each place of a processor is about, and who      *)
(* holds the lock of an active one.                                        *)
ZohoPlaces ==
    /\ \A w \in Workers :
         /\ cur[w] \in ZohoJobs \cup {None}
         /\ at[w] \in {"drafting", "commenting"} => cur[w] \in Drafts
         /\ at[w] \in {"classifying", "updating"} => cur[w] \in Form9Jobs
    /\ \A id \in ZohoJobs : job[id].state = "active" => job[id].owner \in Workers

ZohoValues ==
    /\ mails \subseteq Mails /\ adds \subseteq ZohoJobs
    /\ seen \in [Workers -> SUBSET Mails]
    /\ found \in [Workers -> Treatments \cup {None}]
    /\ comments \in [Drafts -> Nat]
    /\ fields \in [Tickets -> Treatments \cup {None}]

(* While nothing failed, the web process is ready, no draft fails or is    *)
(* put off, and each that is begun is held by the processor in it.         *)
Calm ==
    faults = 0 =>
      /\ ready
      /\ \A id \in Drafts :
           /\ job[id].stalls = 0 /\ job[id].state \notin {"delayed", "failed"}
           /\ job[id].state = "active" => cur[job[id].owner] = id
      /\ \A w \in Workers :
           cur[w] \in Drafts => at[w] # "threw" /\ HoldsLock(w, cur[w])

(* A mail is there before anything is told, added or done about it, and    *)
(* the draft that its job writes has it in view.                           *)
MailsFollowed ==
    \A m \in Mails :
      /\ ThreadAdd(m) \in told \/ m \in adds \/ job[m].state # "absent" => m \in mails
      /\ job[m].state = "completed" => m \in covered
      /\ \A w \in Workers : cur[w] = m =>
           /\ m \in mails
           /\ at[w] \in {"drafting", "commenting"} => m \in seen[w]
           /\ at[w] = "returned" => m \in covered

Accounted ==
    faults = 0 => \A m \in Incoming : ThreadAdd(m) \in told =>
      m \in adds \/ Pending(m) \/ m \in covered

Commented ==
    \A id \in Drafts :
      /\ job[id].state = "completed" => comments[id] > 0
      /\ \A w \in Workers : cur[w] = id /\ at[w] = "returned" => comments[id] > 0

(* Each comment of a job but one is paid for by a fault, and so is one     *)
(* that each attempt in progress, or the job's next one, may yet post.     *)
Attempting(id) == {w \in Workers : cur[w] = id /\ at[w] # "returned"}

ToBeRun(id) ==
    job[id].state \in {"waiting", "delayed"} \/ Orphaned(id)

Owed(id) == Cardinality(Attempting(id)) + (IF ToBeRun(id) THEN 1 ELSE 0)

CommentsCounted ==
    \A id \in Drafts :
      /\ job[id].state = "absent" =>
           comments[id] = 0 /\ \A w \in Workers : cur[w] # id
      /\ comments[id] + Owed(id) <= 1 + faults

(* The first attempt at a classification has the field to itself.          *)
FieldsGuarded ==
    \A t \in Tickets :
      LET f == Form9Job(t)
      IN  /\ job[f].state = "absent" =>
               fields[t] = None /\ \A w \in Workers : cur[w] # f
          /\ job[f].state = "delayed" => Tried(f)
          /\ job[f].state = "waiting" /\ fields[t] # None => Tried(f)
          /\ \A w \in Workers : cur[w] = f =>
               /\ HoldsLock(w, f) \/ Tried(f)
               /\ fields[t] # None /\ at[w] \notin {"returned", "threw"} => Tried(f)

(* Where the theorems about comments and fields speak: however many        *)
(* processors there are, the queues retain all jobs of the time considered.*)
DraftSetting == IsFiniteSet(Workers) /\ KeepsAll(DraftQueue)
Form9Setting == KeepsAll(Form9Queue)

ZohoParts ==
    /\ ZohoPlaces /\ ZohoValues /\ Calm /\ MailsFollowed /\ Accounted /\ Commented
    /\ DraftSetting => CommentsCounted
    /\ Form9Setting => FieldsGuarded

ZohoInv == ProcessorsInv /\ ZohoParts

(* The ids of the two queues, and what they stand for.                     *)
LEMMA ZohoIds ==
  /\ ZohoJobs \subseteq Jobs /\ None \notin ZohoJobs
  /\ Drafts \subseteq ZohoJobs /\ Form9Jobs \subseteq ZohoJobs
  /\ Drafts \cap Form9Jobs = {} /\ Mails \cap Tickets = {}
  /\ \A id \in Drafts : QueueOf[id] = DraftQueue
  /\ \A t \in Tickets : Form9Job(t) \in Form9Jobs
  /\ \A f \in Form9Jobs : /\ f[2] \in Tickets /\ f = Form9Job(f[2])
                          /\ QueueOf[f] = Form9Queue
  /\ MaxStalls \in Nat
  <1>1. DraftQueue # Form9Queue
    BY DEF DraftQueue, Form9Queue
  <1>2. \A f \in Form9Jobs : f[2] \in Tickets /\ f = Form9Job(f[2])
    BY DEF Form9Jobs, Form9Job
  <1>3. \A t \in Tickets : Form9Job(t) \in Form9Jobs
    BY DEF Form9Jobs
  <1>4. Drafts \cap Form9Jobs = {}
    BY <1>1, ZohoAssumption
  <1> QED BY <1>2, <1>3, <1>4, ZohoAssumption, ProcessorsAssumption
      DEF ZohoJobs

(* Every step is one of the processors' in general.                        *)
LEMMA ZohoIsProcessors ==
  ASSUME ZohoInv, [ZohoNext]_zoho
  PROVE  [ProcessorsNext]_<<queues, attempts, faults>>
  <1> DEFINE Step == ProcessorsNext \/ UNCHANGED <<queues, attempts, faults>>
             Awaits == ZohoAwaits \cup {"returned", "threw"}
  <1>0. Awaits \subseteq Places \ {"idle"}
    BY ZohoAssumption, ProcessorsAssumption DEF ZohoAwaits
  <1>1. ASSUME NEW w \in Workers, NEW place \in Awaits, GoTo(w, place),
               UNCHANGED <<queues, cur>>, at[w] # "idle", UNCHANGED faults \/ Mishap
        PROVE  Step
    BY <1>0, <1>1 DEF MoveStep, AddStep, FaultStep, ProcessorsNext
  <1>2. ASSUME NEW o, Outcome(o) PROVE UNCHANGED faults \/ Mishap
    BY <1>2 DEF Outcome
  <1>3. CASE UNCHANGED zoho
    BY <1>3 DEF zoho
  <1>13. ASSUME Bootstrap \/ \E m \in Mails : Arrive(m) PROVE Step
    BY <1>13 DEF Bootstrap, Arrive
  <1>4. ASSUME NEW b \in Bodies, NEW o, HandleWebhook(b, o) PROVE Step
    BY <1>2, <1>4
    DEF HandleWebhook, attempts, MoveStep, AddStep, FaultStep, ProcessorsNext
  <1>5. ASSUME NEW id \in ZohoJobs, NEW o, AddJob(id, o) PROVE Step
    <2>1. AddStep
      BY <1>5, ZohoIds DEF AddJob, TryEnqueue, AddStep
    <2> QED BY <1>2, <1>5, <2>1
        DEF AddJob, attempts, MoveStep, FaultStep, ProcessorsNext
  <1>6. ASSUME NEW id \in ZohoJobs, ZohoTimer(id) PROVE Step
    BY <1>6, ZohoIds DEF ZohoTimer, ProcessorsNext
  <1>7. ASSUME NEW w \in Workers, ServeZoho(w) PROVE Step
    <2>1. ASSUME NEW id \in ZohoJobs, TakeTicket(w, id) PROVE Step
      BY <1>0, <2>1, ZohoIds DEF TakeTicket, ProcessorsNext, ZohoAwaits
    <2>2. ASSUME NEW id \in ZohoJobs, GiveUp(w, id) PROVE Step
      BY <2>2, ZohoIds DEF ProcessorsNext
    <2> QED BY <1>7, <2>1, <2>2 DEF ServeZoho
  <1>8. ASSUME NEW w \in Workers, AttendZoho(w) PROVE Step
    <2>1. ASSUME NEW o, ReadTicket(w, o) PROVE Step
      BY <1>1, <1>2, <2>1 DEF ReadTicket, ZohoAwaits
    <2>2. ASSUME NEW o, AddPrivateComment(w, o) PROVE Step
      BY <1>1, <1>2, <2>2 DEF AddPrivateComment, ZohoAwaits
    <2>3. ASSUME NEW o, UpdateTicketCustomFields(w, o) PROVE Step
      BY <1>1, <1>2, <2>3 DEF UpdateTicketCustomFields, ZohoAwaits
    <2>4. CASE EndTicket(w)
      BY <2>4 DEF EndTicket, ProcessorsNext
    <2> QED BY <1>8, <2>1, <2>2, <2>3, <2>4 DEF AttendZoho
  <1>9. ASSUME NEW w \in Workers, NEW errs, Draft(w, errs) PROVE Step
    BY <1>1, <1>9 DEF Draft, ZohoAwaits
  <1>10. ASSUME NEW w \in Workers, NEW r, NEW errs, Classify(w, r, errs) PROVE Step
    BY <1>1, <1>10 DEF Classify, ZohoAwaits
  <1>11. CASE CrashZoho
    BY <1>11 DEF CrashZoho, ProcessorsNext
  <1>12. ASSUME \E id \in ZohoJobs : ZohoTimer(id) \/ \E o \in Outcomes : AddJob(id, o)
         PROVE  Step
    BY <1>5, <1>6, <1>12
  <1>14. ASSUME NEW w \in Workers,
                \E errs \in BOOLEAN : Draft(w, errs)
                  \/ \E r \in Treatments \cup {None} : Classify(w, r, errs)
         PROVE  Step
    BY <1>9, <1>10, <1>14
  <1> HIDE DEF Step
  <1>15. ASSUME ZohoNext PROVE Step
    BY <1>4, <1>7, <1>8, <1>11, <1>12, <1>13, <1>14, <1>15 DEF ZohoNext, Step
  <1>16. Step
    BY <1>3, <1>15 DEF Step
  <1> QED BY <1>16 DEF Step

(* How many attempts at a job are in progress before and after a step.     *)
LEMMA AttemptsCounted ==
  ASSUME DraftSetting, NEW id, NEW w,
         Attempting(id)' \subseteq Attempting(id) \cup {w}
  PROVE  /\ Cardinality(Attempting(id)) \in Nat /\ Cardinality(Attempting(id)') \in Nat
         /\ Cardinality(Attempting(id)') <= Cardinality(Attempting(id)) + 1
         /\ Attempting(id)' \subseteq Attempting(id) =>
              /\ Cardinality(Attempting(id)') <= Cardinality(Attempting(id))
              /\ w \in Attempting(id) /\ w \notin Attempting(id)' =>
                   Cardinality(Attempting(id)') + 1 <= Cardinality(Attempting(id))
         /\ Attempting(id)' = {} => Cardinality(Attempting(id)') = 0
  <1> DEFINE A == Attempting(id)
             B == Attempting(id)'
  <1>1. IsFiniteSet(A) /\ IsFiniteSet(B)
    <2>1. A \subseteq Workers /\ B \subseteq Workers /\ IsFiniteSet(Workers)
      BY DEF Attempting, DraftSetting
    <2> QED BY <2>1, FS_Subset
  <1> HIDE DEF A, B
  <1>2. Cardinality(A) \in Nat /\ Cardinality(B) \in Nat
    BY <1>1, FS_CardinalityType
  <1>3. B \subseteq A => Cardinality(B) <= Cardinality(A)
    BY <1>1, FS_Subset
  <1>4. Cardinality(B) <= Cardinality(A) + 1
    <2>1. /\ IsFiniteSet(A \cup {w})
          /\ Cardinality(A \cup {w}) = IF w \in A THEN Cardinality(A) ELSE Cardinality(A) + 1
      BY <1>1, FS_AddElement
    <2>2. B \subseteq A \cup {w}
      BY DEF A, B
    <2>3. Cardinality(B) <= Cardinality(A \cup {w})
      BY <2>1, <2>2, FS_Subset
    <2> QED BY <1>2, <2>1, <2>3
  <1>5. B \subseteq A /\ w \in A /\ w \notin B => Cardinality(B) + 1 <= Cardinality(A)
    <2>1. IsFiniteSet(A \ {w}) /\ (w \in A => Cardinality(A \ {w}) = Cardinality(A) - 1)
      BY <1>1, FS_RemoveElement
    <2>2. B \subseteq A /\ w \notin B => Cardinality(B) <= Cardinality(A \ {w})
      BY <2>1, FS_Subset
    <2> QED BY <1>2, <2>1, <2>2
  <1>6. B = {} => Cardinality(B) = 0
    BY FS_EmptySet
  <1> QED BY <1>2, <1>3, <1>4, <1>5, <1>6 DEF A, B

(* Where no new attempt is owed, the comments remain paid for.             *)
LEMMA CountKept ==
  ASSUME ZohoInv, DraftSetting, NEW id \in Drafts,
         Attempting(id)' \subseteq Attempting(id), ToBeRun(id)' => ToBeRun(id),
         comments'[id] = comments[id], faults <= faults', faults' \in Nat
  PROVE  comments'[id] + Owed(id)' <= 1 + faults'
  <1>1. comments[id] \in Nat /\ faults \in Nat /\ comments[id] + Owed(id) <= 1 + faults
    BY DEF ZohoInv, ZohoParts, ZohoValues, CommentsCounted, ProcessorsInv
  <1>2. /\ Cardinality(Attempting(id)) \in Nat /\ Cardinality(Attempting(id)') \in Nat
        /\ Cardinality(Attempting(id)') <= Cardinality(Attempting(id))
    BY AttemptsCounted
  <1> QED BY <1>1, <1>2 DEF Owed

(* What no step of a processor's brings about: a fault taken back.         *)
LEMMA FaultsGrow ==
  ASSUME ZohoInv, UNCHANGED faults \/ Mishap
  PROVE  /\ faults \in Nat /\ faults' \in Nat /\ faults <= faults'
         /\ faults' = 0 => faults = 0
         /\ Mishap => faults' = faults + 1
  BY DEF ZohoInv, ProcessorsInv, Mishap

(* Steps that leave the queues and the processors alone.                   *)
LEMMA ArriveKeeps ==
  ASSUME ZohoInv, NEW m \in Mails, Arrive(m)
  PROVE  ZohoParts'
  <1>1. /\ job' = job /\ at' = at /\ cur' = cur /\ faults' = faults
        /\ ready' = ready /\ told' = told
        /\ adds' = adds /\ seen' = seen /\ found' = found /\ comments' = comments
        /\ covered' = covered /\ fields' = fields
        /\ mails' = mails \cup {m}
    BY DEF Arrive, queues, attempts
  <1>2. faults \in Nat
    BY ProcessorsAssumption DEF ZohoInv, ProcessorsInv
  <1>20. ZohoPlaces'
    BY <1>1, <1>2 DEF ZohoPlaces, ZohoInv, ZohoParts
  <1>21. ZohoValues'
    BY <1>1, <1>2 DEF ZohoValues, ZohoInv, ZohoParts
  <1>22. Calm'
    BY <1>1, <1>2 DEF Calm, ZohoInv, ZohoParts, HoldsLock
  <1>23. MailsFollowed'
    BY <1>1, <1>2 DEF MailsFollowed, ZohoInv, ZohoParts
  <1>24. Accounted'
    BY <1>1, <1>2 DEF Accounted, ZohoInv, ZohoParts, Pending
  <1>25. Commented'
    BY <1>1, <1>2 DEF Commented, ZohoInv, ZohoParts
  <1>26. DraftSetting => CommentsCounted'
    <2> SUFFICES ASSUME DraftSetting, NEW x \in Drafts
                 PROVE  /\ job'[x].state = "absent" =>
                             comments'[x] = 0 /\ \A v \in Workers : cur'[v] # x
                        /\ comments'[x] + Owed(x)' <= 1 + faults'
      BY DEF CommentsCounted
    <2>1. job[x].state = "absent" => comments[x] = 0 /\ \A v \in Workers : cur[v] # x
      BY DEF ZohoInv, ZohoParts, CommentsCounted
    <2>2. (Attempting(x)' \subseteq Attempting(x)) /\ (ToBeRun(x)' => ToBeRun(x))
      BY <1>1, <1>2 DEF Attempting, ToBeRun, Orphaned
    <2> QED BY <1>1, <1>2, <2>1, <2>2, CountKept
  <1>27. Form9Setting => FieldsGuarded'
    <2> SUFFICES ASSUME Form9Setting, NEW t \in Tickets, NEW f, f = Form9Job(t)
                 PROVE  /\ job'[f].state = "absent" =>
                             fields'[t] = None /\ \A v \in Workers : cur'[v] # f
                        /\ job'[f].state = "delayed" => Tried(f)'
                        /\ job'[f].state = "waiting" /\ fields'[t] # None => Tried(f)'
                        /\ \A v \in Workers : cur'[v] = f =>
                             /\ HoldsLock(v, f)' \/ Tried(f)'
                             /\ fields'[t] # None /\ at'[v] \notin {"returned", "threw"}
                                  => Tried(f)'
      BY DEF FieldsGuarded
    <2>1. /\ job[f].state = "absent" =>
               fields[t] = None /\ \A v \in Workers : cur[v] # f
          /\ job[f].state = "delayed" => Tried(f)
          /\ job[f].state = "waiting" /\ fields[t] # None => Tried(f)
          /\ \A v \in Workers : cur[v] = f =>
               /\ HoldsLock(v, f) \/ Tried(f)
               /\ fields[t] # None /\ at[v] \notin {"returned", "threw"} => Tried(f)
      BY DEF ZohoInv, ZohoParts, FieldsGuarded
    <2> QED BY <1>1, <2>1 DEF HoldsLock, Tried
  <1> QED BY <1>20, <1>21, <1>22, <1>23, <1>24, <1>25, <1>26, <1>27
      DEF ZohoParts

LEMMA BootstrapKeeps ==
  ASSUME ZohoInv, Bootstrap
  PROVE  ZohoParts'
  <1>1. /\ job' = job /\ at' = at /\ cur' = cur /\ faults' = faults
        /\ mails' = mails /\ told' = told
        /\ adds' = adds /\ seen' = seen /\ found' = found /\ comments' = comments
        /\ covered' = covered /\ fields' = fields /\ ready'
    BY DEF Bootstrap, queues, attempts
  <1>2. faults \in Nat
    BY ProcessorsAssumption DEF ZohoInv, ProcessorsInv
  <1>20. ZohoPlaces'
    BY <1>1, <1>2 DEF ZohoPlaces, ZohoInv, ZohoParts
  <1>21. ZohoValues'
    BY <1>1, <1>2 DEF ZohoValues, ZohoInv, ZohoParts
  <1>22. Calm'
    BY <1>1, <1>2 DEF Calm, ZohoInv, ZohoParts, HoldsLock
  <1>23. MailsFollowed'
    BY <1>1, <1>2 DEF MailsFollowed, ZohoInv, ZohoParts
  <1>24. Accounted'
    BY <1>1, <1>2 DEF Accounted, ZohoInv, ZohoParts, Pending
  <1>25. Commented'
    BY <1>1, <1>2 DEF Commented, ZohoInv, ZohoParts
  <1>26. DraftSetting => CommentsCounted'
    <2> SUFFICES ASSUME DraftSetting, NEW x \in Drafts
                 PROVE  /\ job'[x].state = "absent" =>
                             comments'[x] = 0 /\ \A v \in Workers : cur'[v] # x
                        /\ comments'[x] + Owed(x)' <= 1 + faults'
      BY DEF CommentsCounted
    <2>1. job[x].state = "absent" => comments[x] = 0 /\ \A v \in Workers : cur[v] # x
      BY DEF ZohoInv, ZohoParts, CommentsCounted
    <2>2. (Attempting(x)' \subseteq Attempting(x)) /\ (ToBeRun(x)' => ToBeRun(x))
      BY <1>1, <1>2 DEF Attempting, ToBeRun, Orphaned
    <2> QED BY <1>1, <1>2, <2>1, <2>2, CountKept
  <1>27. Form9Setting => FieldsGuarded'
    <2> SUFFICES ASSUME Form9Setting, NEW t \in Tickets, NEW f, f = Form9Job(t)
                 PROVE  /\ job'[f].state = "absent" =>
                             fields'[t] = None /\ \A v \in Workers : cur'[v] # f
                        /\ job'[f].state = "delayed" => Tried(f)'
                        /\ job'[f].state = "waiting" /\ fields'[t] # None => Tried(f)'
                        /\ \A v \in Workers : cur'[v] = f =>
                             /\ HoldsLock(v, f)' \/ Tried(f)'
                             /\ fields'[t] # None /\ at'[v] \notin {"returned", "threw"}
                                  => Tried(f)'
      BY DEF FieldsGuarded
    <2>1. /\ job[f].state = "absent" =>
               fields[t] = None /\ \A v \in Workers : cur[v] # f
          /\ job[f].state = "delayed" => Tried(f)
          /\ job[f].state = "waiting" /\ fields[t] # None => Tried(f)
          /\ \A v \in Workers : cur[v] = f =>
               /\ HoldsLock(v, f) \/ Tried(f)
               /\ fields[t] # None /\ at[v] \notin {"returned", "threw"} => Tried(f)
      BY DEF ZohoInv, ZohoParts, FieldsGuarded
    <2> QED BY <1>1, <2>1 DEF HoldsLock, Tried
  <1> QED BY <1>20, <1>21, <1>22, <1>23, <1>24, <1>25, <1>26, <1>27
      DEF ZohoParts

LEMMA HandleWebhookKeeps ==
  ASSUME ZohoInv, NEW b \in Bodies, NEW o \in Outcomes, HandleWebhook(b, o)
  PROVE  ZohoParts'
  <1>1. /\ job' = job /\ at' = at /\ cur' = cur /\ mails' = mails
        /\ ready' = ready
        /\ seen' = seen /\ found' = found /\ comments' = comments /\ covered' = covered
        /\ fields' = fields
    BY DEF HandleWebhook, queues, attempts
  <1>2. faults \in Nat /\ faults' \in Nat /\ faults <= faults' /\ (faults' = 0 => faults = 0)
    BY FaultsGrow DEF HandleWebhook, Outcome
  <1>3. /\ \A m \in Mails : ThreadAdd(m) \in b => m \in mails /\ m \in Mails
        /\ \A e \in b : \/ \E t \in Tickets : e = TicketAdd(t)
                        \/ \E m \in Mails : e = ThreadAdd(m)
    <2>1. \A m \in Mails : ThreadAdd(m)[1] # "Ticket_Add" /\ ThreadAdd(m)[2] = m
      BY DEF ThreadAdd
    <2> QED BY <2>1, ZohoAssumption DEF HandleWebhook, Happened
  <1>4. \A e \in b : /\ JobsFor(e) \subseteq ZohoJobs
                     /\ \A m \in Mails : m \in JobsFor(e) => e = ThreadAdd(m)
                     /\ \A m \in Incoming : e = ThreadAdd(m) => m \in JobsFor(e)
    <2>1. \A t \in Tickets : JobsFor(TicketAdd(t)) = {t, Form9Job(t)}
      BY DEF JobsFor, TicketAdd
    <2>2. \A m \in Mails : JobsFor(ThreadAdd(m)) = IF m \in Incoming THEN {m} ELSE {}
      BY DEF JobsFor, ThreadAdd
    <2>3. \A m \in Mails : m \notin Form9Jobs /\ m \notin Tickets
      BY ZohoIds DEF Drafts
    <2>4. \A t \in Tickets : t \in ZohoJobs /\ Form9Job(t) \in Form9Jobs /\ Form9Job(t) \in ZohoJobs
      BY ZohoIds DEF Drafts
    <2>5. \A m \in Mails : m \in ZohoJobs
      BY ZohoIds DEF Drafts
    <2> TAKE e \in b
    <2>6. CASE \E t \in Tickets : e = TicketAdd(t)
      <3>1. PICK t \in Tickets : e = TicketAdd(t)
        BY <2>6
      <3>2. \A m \in Mails : e # ThreadAdd(m)
        BY <3>1 DEF TicketAdd, ThreadAdd
      <3>3. Incoming \subseteq Mails
        BY ZohoAssumption
      <3> QED BY <2>1, <2>3, <2>4, <3>1, <3>2, <3>3
    <2>7. CASE \E m \in Mails : e = ThreadAdd(m)
      <3>1. PICK n \in Mails : e = ThreadAdd(n)
        BY <2>7
      <3> QED BY <2>2, <2>5, <3>1, ZohoAssumption
    <2> QED BY <1>3, <2>6, <2>7
  <1>5. \/ told' = told /\ adds' = adds
        \/ /\ told' = told \cup b
           /\ adds' = adds \cup UNION {JobsFor(e) : e \in b}
    BY DEF HandleWebhook
  <1>20. ZohoPlaces'
    BY <1>1 DEF ZohoPlaces, ZohoInv, ZohoParts
  <1>21. ZohoValues'
    BY <1>1, <1>4, <1>5 DEF ZohoValues, ZohoInv, ZohoParts
  <1>22. Calm'
    BY <1>1, <1>2 DEF Calm, ZohoInv, ZohoParts, HoldsLock
  <1>23. MailsFollowed'
    BY <1>1, <1>3, <1>4, <1>5 DEF MailsFollowed, ZohoInv, ZohoParts
  <1>24. Accounted'
    BY <1>1, <1>2, <1>4, <1>5 DEF Accounted, ZohoInv, ZohoParts, Pending
  <1>25. Commented'
    BY <1>1 DEF Commented, ZohoInv, ZohoParts
  <1>26. DraftSetting => CommentsCounted'
    <2> SUFFICES ASSUME DraftSetting, NEW x \in Drafts
                 PROVE  /\ job'[x].state = "absent" =>
                             comments'[x] = 0 /\ \A v \in Workers : cur'[v] # x
                        /\ comments'[x] + Owed(x)' <= 1 + faults'
      BY DEF CommentsCounted
    <2>1. job[x].state = "absent" => comments[x] = 0 /\ \A v \in Workers : cur[v] # x
      BY DEF ZohoInv, ZohoParts, CommentsCounted
    <2>2. (Attempting(x)' \subseteq Attempting(x)) /\ (ToBeRun(x)' => ToBeRun(x))
      BY <1>1 DEF Attempting, ToBeRun, Orphaned
    <2> QED BY <1>1, <1>2, <1>3, <1>4, <2>1, <2>2, CountKept
  <1>27. Form9Setting => FieldsGuarded'
    <2> SUFFICES ASSUME Form9Setting, NEW t \in Tickets, NEW f, f = Form9Job(t)
                 PROVE  /\ job'[f].state = "absent" =>
                             fields'[t] = None /\ \A v \in Workers : cur'[v] # f
                        /\ job'[f].state = "delayed" => Tried(f)'
                        /\ job'[f].state = "waiting" /\ fields'[t] # None => Tried(f)'
                        /\ \A v \in Workers : cur'[v] = f =>
                             /\ HoldsLock(v, f)' \/ Tried(f)'
                             /\ fields'[t] # None /\ at'[v] \notin {"returned", "threw"}
                                  => Tried(f)'
      BY DEF FieldsGuarded
    <2>1. /\ job[f].state = "absent" =>
               fields[t] = None /\ \A v \in Workers : cur[v] # f
          /\ job[f].state = "delayed" => Tried(f)
          /\ job[f].state = "waiting" /\ fields[t] # None => Tried(f)
          /\ \A v \in Workers : cur[v] = f =>
               /\ HoldsLock(v, f) \/ Tried(f)
               /\ fields[t] # None /\ at[v] \notin {"returned", "threw"} => Tried(f)
      BY DEF ZohoInv, ZohoParts, FieldsGuarded
    <2> QED BY <1>1, <1>2, <1>3, <1>4, <2>1 DEF HoldsLock, Tried
  <1> QED BY <1>20, <1>21, <1>22, <1>23, <1>24, <1>25, <1>26, <1>27
      DEF ZohoParts

(* Operations of the queues alone: an add, a timer, a job given up.        *)
LEMMA AddJobKeeps ==
  ASSUME ZohoInv, NEW id \in ZohoJobs, NEW o \in Outcomes, AddJob(id, o)
  PROVE  ZohoParts'
  <1>1. /\ at' = at /\ cur' = cur /\ mails' = mails /\ told' = told
        /\ seen' = seen /\ found' = found /\ comments' = comments /\ covered' = covered
        /\ fields' = fields /\ ready' = ready
        /\ adds' = adds \ {id} /\ id \in adds
    BY DEF AddJob, attempts
  <1>2. /\ faults \in Nat /\ faults' \in Nat /\ faults <= faults'
        /\ faults' = 0 => faults = 0
        /\ faults' = 0 => o = "ok"
    BY FaultsGrow DEF AddJob, Outcome
  <1>3. /\ \A x \in ZohoJobs : x # id => job'[x] = job[x]
        /\ job[id].state # "absent" => job'[id] = job[id]
        /\ job[id].state = "absent" =>
              \/ job'[id] = job[id]
              \/ /\ job'[id].state = "waiting"
                 /\ job'[id].made = 0 /\ job'[id].stalls = 0
        /\ o # "lost" => job'[id].state # "absent"
    <2>1. id \in Jobs /\ QueuesInv
      BY ZohoIds DEF ZohoInv, ProcessorsInv
    <2> QED BY <2>1, ZohoIds, TryEnqueueEffect DEF AddJob
  <1>4. \A x \in ZohoJobs : /\ job[x].state \in States
                            /\ job[x].made \in Nat /\ job[x].stalls \in Nat
    BY ZohoIds DEF ZohoInv, ProcessorsInv, QueuesInv, AnyRecord
  <1>5. /\ Drafts \subseteq ZohoJobs /\ Form9Jobs \subseteq ZohoJobs
        /\ Drafts \cap Form9Jobs = {} /\ Mails \subseteq Drafts /\ Incoming \subseteq Mails
        /\ None \notin ZohoJobs
    BY ZohoIds, ZohoAssumption DEF Drafts
  <1>20. ZohoPlaces'
    BY <1>1, <1>3 DEF ZohoPlaces, ZohoInv, ZohoParts
  <1>21. ZohoValues'
    BY <1>1 DEF ZohoValues, ZohoInv, ZohoParts
  <1>22. Calm'
    BY <1>1, <1>2, <1>3, <1>5 DEF Calm, ZohoInv, ZohoParts, HoldsLock
  <1>23. MailsFollowed'
    BY <1>1, <1>3, <1>5 DEF MailsFollowed, ZohoInv, ZohoParts
  <1>24. Accounted'
    <2> SUFFICES ASSUME faults' = 0, NEW m \in Incoming, ThreadAdd(m) \in told
                 PROVE  m \in adds' \/ Pending(m)' \/ m \in covered
      BY <1>1 DEF Accounted
    <2>1. CASE m # id
      BY <1>1, <1>2, <1>3, <1>5, <2>1
      DEF Accounted, Pending, ZohoInv, ZohoParts
    <2>2. CASE m = id
      <3>1. job'[id].state # "absent"
        BY <1>2, <1>3
      <3>2. job'[id].state \in {"waiting", "delayed", "active", "completed", "failed"}
        BY <1>3, <1>4, <3>1 DEF States
      <3>3. job'[id].state = "completed" => m \in covered
        BY <1>3, <1>5, <2>2 DEF ZohoInv, ZohoParts, MailsFollowed
      <3>4. job'[id].state # "failed"
        BY <1>2, <1>3, <1>5, <2>2 DEF ZohoInv, ZohoParts, Calm
      <3> QED BY <2>2, <3>2, <3>3, <3>4 DEF Pending
    <2> QED BY <2>1, <2>2
  <1>25. Commented'
    BY <1>1, <1>3, <1>5 DEF Commented, ZohoInv, ZohoParts
  <1>26. DraftSetting => CommentsCounted'
    <2> SUFFICES ASSUME DraftSetting, NEW x \in Drafts
                 PROVE  /\ job'[x].state = "absent" =>
                             comments'[x] = 0 /\ \A v \in Workers : cur'[v] # x
                        /\ comments'[x] + Owed(x)' <= 1 + faults'
      BY DEF CommentsCounted
    <2>1. /\ job[x].state = "absent" =>
               comments[x] = 0 /\ \A v \in Workers : cur[v] # x
          /\ comments[x] \in Nat /\ comments[x] + Owed(x) <= 1 + faults
      BY DEF ZohoInv, ZohoParts, ZohoValues, CommentsCounted
    <2>2. CASE job'[x] = job[x]
      <3>1. (Attempting(x)' \subseteq Attempting(x)) /\ (ToBeRun(x)' => ToBeRun(x))
        BY <1>1, <2>2 DEF Attempting, ToBeRun, Orphaned
      <3> QED BY <1>1, <1>2, <2>1, <2>2, <3>1, CountKept
    <2>3. CASE job'[x] # job[x]
      <3>1. job[x].state = "absent" /\ job'[x].state = "waiting"
        BY <1>3, <1>5, <2>3
      <3>2. Attempting(x)' = {}
        BY <1>1, <2>1, <3>1 DEF Attempting
      <3>3. Cardinality(Attempting(x)') = 0
        BY <3>2, FS_EmptySet
      <3>4. Owed(x)' = 1
        BY <3>1, <3>3 DEF Owed, ToBeRun
      <3> QED BY <1>1, <1>2, <2>1, <3>1, <3>4
    <2> QED BY <2>2, <2>3
  <1>27. Form9Setting => FieldsGuarded'
    <2> SUFFICES ASSUME Form9Setting, NEW t \in Tickets, NEW f, f = Form9Job(t)
                 PROVE  /\ job'[f].state = "absent" =>
                             fields'[t] = None /\ \A v \in Workers : cur'[v] # f
                        /\ job'[f].state = "delayed" => Tried(f)'
                        /\ job'[f].state = "waiting" /\ fields'[t] # None => Tried(f)'
                        /\ \A v \in Workers : cur'[v] = f =>
                             /\ HoldsLock(v, f)' \/ Tried(f)'
                             /\ fields'[t] # None /\ at'[v] \notin {"returned", "threw"}
                                  => Tried(f)'
      BY DEF FieldsGuarded
    <2>1. /\ job[f].state = "absent" =>
               fields[t] = None /\ \A v \in Workers : cur[v] # f
          /\ job[f].state = "delayed" => Tried(f)
          /\ job[f].state = "waiting" /\ fields[t] # None => Tried(f)
          /\ \A v \in Workers : cur[v] = f =>
               /\ HoldsLock(v, f) \/ Tried(f)
               /\ fields[t] # None /\ at[v] \notin {"returned", "threw"} => Tried(f)
      BY DEF ZohoInv, ZohoParts, FieldsGuarded
    <2>2. f \in Form9Jobs
      BY ZohoIds
    <2> QED BY <1>1, <1>2, <1>3, <1>5, <2>1, <2>2 DEF HoldsLock, Tried
  <1> QED BY <1>20, <1>21, <1>22, <1>23, <1>24, <1>25, <1>26, <1>27
      DEF ZohoParts

LEMMA TicketTimerKeeps ==
  ASSUME ZohoInv, NEW id \in ZohoJobs, ZohoTimer(id)
  PROVE  ZohoParts'
  <1>1. /\ at' = at /\ cur' = cur /\ adds' = adds /\ mails' = mails
        /\ told' = told /\ seen' = seen /\ found' = found /\ comments' = comments
        /\ covered' = covered /\ fields' = fields /\ ready' = ready
    BY DEF ZohoTimer, zohoVars, Timer, attempts
  <1>2. /\ faults \in Nat /\ faults' \in Nat /\ faults <= faults'
        /\ faults' = 0 => faults = 0
        /\ job[id].state = "active" => Orphaned(id) \/ faults' = faults + 1
    <2>1. /\ UNCHANGED faults \/ Mishap
          /\ job[id].state = "active" => Orphaned(id) \/ Mishap
      BY DEF ZohoTimer, Timer, Promote
    <2> QED BY <2>1, FaultsGrow
  <1>3. /\ \A x \in ZohoJobs : x # id => job'[x] = job[x]
        /\ job'[id].state = "waiting" /\ job'[id].made = job[id].made
        /\ \/ job[id].state = "delayed" /\ job'[id].stalls = job[id].stalls
           \/ job[id].state = "active" /\ job'[id].stalls = job[id].stalls + 1
    <2>1. id \in Jobs /\ QueuesInv
      BY ZohoIds DEF ZohoInv, ProcessorsInv
    <2> QED BY <2>1, ZohoIds, TimerInv DEF ZohoTimer
  <1>4. \A x \in ZohoJobs : /\ job[x].state \in States
                            /\ job[x].made \in Nat /\ job[x].stalls \in Nat
    BY ZohoIds DEF ZohoInv, ProcessorsInv, QueuesInv, AnyRecord
  <1>5. /\ Drafts \subseteq ZohoJobs /\ Form9Jobs \subseteq ZohoJobs
        /\ Drafts \cap Form9Jobs = {} /\ Mails \subseteq Drafts /\ Incoming \subseteq Mails
        /\ None \notin ZohoJobs
    BY ZohoIds, ZohoAssumption DEF Drafts
  <1>20. ZohoPlaces'
    BY <1>1, <1>3 DEF ZohoPlaces, ZohoInv, ZohoParts
  <1>21. ZohoValues'
    BY <1>1 DEF ZohoValues, ZohoInv, ZohoParts
  <1>22. Calm'
    BY <1>1, <1>2, <1>3, <1>5 DEF Calm, ZohoInv, ZohoParts, HoldsLock, Orphaned
  <1>23. MailsFollowed'
    BY <1>1, <1>3, <1>5 DEF MailsFollowed, ZohoInv, ZohoParts
  <1>24. Accounted'
    BY <1>1, <1>2, <1>3, <1>5 DEF Accounted, ZohoInv, ZohoParts, Pending
  <1>25. Commented'
    BY <1>1, <1>3, <1>5 DEF Commented, ZohoInv, ZohoParts
  <1>26. DraftSetting => CommentsCounted'
    <2> SUFFICES ASSUME DraftSetting, NEW x \in Drafts
                 PROVE  /\ job'[x].state = "absent" =>
                             comments'[x] = 0 /\ \A v \in Workers : cur'[v] # x
                        /\ comments'[x] + Owed(x)' <= 1 + faults'
      BY DEF CommentsCounted
    <2>1. /\ job[x].state = "absent" =>
               comments[x] = 0 /\ \A v \in Workers : cur[v] # x
          /\ comments[x] \in Nat /\ comments[x] + Owed(x) <= 1 + faults
      BY DEF ZohoInv, ZohoParts, ZohoValues, CommentsCounted
    <2>2. /\ Attempting(x)' \subseteq Attempting(x)
          /\ x # id => (ToBeRun(x)' => ToBeRun(x))
          /\ job[id].state = "delayed" \/ Orphaned(id) => ToBeRun(id)
          /\ job[x].state = "absent" <=> job'[x].state = "absent"
      BY <1>1, <1>3, <1>5 DEF Attempting, ToBeRun, Orphaned
    <2>3. CASE x # id \/ ToBeRun(id)
      <3>1. ToBeRun(x)' => ToBeRun(x)
        BY <2>2, <2>3
      <3> QED BY <1>1, <1>2, <2>1, <2>2, <3>1, CountKept
    <2>4. CASE x = id /\ ~ToBeRun(id)
      <3>1. faults' = faults + 1
        BY <1>2, <1>3, <2>2, <2>4
      <3>2. Cardinality(Attempting(x)') <= Cardinality(Attempting(x))
            /\ Cardinality(Attempting(x)') \in Nat /\ Cardinality(Attempting(x)) \in Nat
        BY <2>2, AttemptsCounted
      <3>3. Owed(x)' <= Owed(x) + 1 /\ Owed(x)' \in Nat /\ Owed(x) \in Nat
        BY <3>2 DEF Owed
      <3> QED BY <1>1, <1>2, <2>1, <2>2, <3>1, <3>3
    <2> QED BY <2>3, <2>4
  <1>27. Form9Setting => FieldsGuarded'
    <2> SUFFICES ASSUME Form9Setting, NEW t \in Tickets, NEW f, f = Form9Job(t)
                 PROVE  /\ job'[f].state = "absent" =>
                             fields'[t] = None /\ \A v \in Workers : cur'[v] # f
                        /\ job'[f].state = "delayed" => Tried(f)'
                        /\ job'[f].state = "waiting" /\ fields'[t] # None => Tried(f)'
                        /\ \A v \in Workers : cur'[v] = f =>
                             /\ HoldsLock(v, f)' \/ Tried(f)'
                             /\ fields'[t] # None /\ at'[v] \notin {"returned", "threw"}
                                  => Tried(f)'
      BY DEF FieldsGuarded
    <2>1. /\ job[f].state = "absent" =>
               fields[t] = None /\ \A v \in Workers : cur[v] # f
          /\ job[f].state = "delayed" => Tried(f)
          /\ job[f].state = "waiting" /\ fields[t] # None => Tried(f)
          /\ \A v \in Workers : cur[v] = f =>
               /\ HoldsLock(v, f) \/ Tried(f)
               /\ fields[t] # None /\ at[v] \notin {"returned", "threw"} => Tried(f)
      BY DEF ZohoInv, ZohoParts, FieldsGuarded
    <2>2. f \in Form9Jobs
      BY ZohoIds
    <2> QED BY <1>1, <1>2, <1>3, <1>4, <1>5, <2>1, <2>2 DEF HoldsLock, Tried
  <1> QED BY <1>20, <1>21, <1>22, <1>23, <1>24, <1>25, <1>26, <1>27
      DEF ZohoParts

LEMMA GiveUpTicketKeeps ==
  ASSUME ZohoInv, NEW w \in Workers, NEW id \in ZohoJobs, GiveUp(w, id),
         UNCHANGED zohoVars
  PROVE  ZohoParts'
  <1>1. /\ at' = at /\ cur' = cur /\ adds' = adds /\ faults' = faults
        /\ mails' = mails /\ told' = told /\ seen' = seen /\ found' = found
        /\ comments' = comments /\ covered' = covered /\ fields' = fields /\ ready' = ready
    BY DEF GiveUp, zohoVars, attempts
  <1>2. faults \in Nat
    BY ProcessorsAssumption DEF ZohoInv, ProcessorsInv
  <1>3. /\ \A x \in ZohoJobs : x # id => job'[x] = job[x]
        /\ job[id].state = "waiting" /\ job'[id].state = "failed"
        /\ job'[id].made = job[id].made + 1 /\ job'[id].stalls = job[id].stalls
        /\ job[id].stalls > MaxStalls /\ MaxStalls \in Nat
    <2>1. id \in Jobs /\ QueuesInv
      BY ZohoIds DEF ZohoInv, ProcessorsInv
    <2> QED BY <2>1, ZohoIds, GiveUpInv DEF Doomed
  <1>4. \A x \in ZohoJobs : /\ job[x].state \in States
                            /\ job[x].made \in Nat /\ job[x].stalls \in Nat
    BY ZohoIds DEF ZohoInv, ProcessorsInv, QueuesInv, AnyRecord
  <1>5. /\ Drafts \subseteq ZohoJobs /\ Form9Jobs \subseteq ZohoJobs
        /\ Drafts \cap Form9Jobs = {} /\ Mails \subseteq Drafts /\ Incoming \subseteq Mails
        /\ None \notin ZohoJobs
    BY ZohoIds, ZohoAssumption DEF Drafts
  <1>6. id \in Drafts => faults # 0
    BY <1>3, <1>4, <1>5 DEF ZohoInv, ZohoParts, Calm
  <1>20. ZohoPlaces'
    BY <1>1, <1>3 DEF ZohoPlaces, ZohoInv, ZohoParts
  <1>21. ZohoValues'
    BY <1>1 DEF ZohoValues, ZohoInv, ZohoParts
  <1>22. Calm'
    BY <1>1, <1>3, <1>5 DEF Calm, ZohoInv, ZohoParts, HoldsLock
  <1>23. MailsFollowed'
    BY <1>1, <1>3, <1>5 DEF MailsFollowed, ZohoInv, ZohoParts
  <1>24. Accounted'
    BY <1>1, <1>3, <1>5, <1>6 DEF Accounted, ZohoInv, ZohoParts, Pending
  <1>25. Commented'
    BY <1>1, <1>3, <1>5 DEF Commented, ZohoInv, ZohoParts
  <1>26. DraftSetting => CommentsCounted'
    <2> SUFFICES ASSUME DraftSetting, NEW x \in Drafts
                 PROVE  /\ job'[x].state = "absent" =>
                             comments'[x] = 0 /\ \A v \in Workers : cur'[v] # x
                        /\ comments'[x] + Owed(x)' <= 1 + faults'
      BY DEF CommentsCounted
    <2>1. job[x].state = "absent" => comments[x] = 0 /\ \A v \in Workers : cur[v] # x
      BY DEF ZohoInv, ZohoParts, CommentsCounted
    <2>2. (Attempting(x)' \subseteq Attempting(x)) /\ (ToBeRun(x)' => ToBeRun(x))
      BY <1>1, <1>3, <1>5 DEF Attempting, ToBeRun, Orphaned
    <2> QED BY <1>1, <1>2, <1>3, <1>4, <1>5, <2>1, <2>2, CountKept
  <1>27. Form9Setting => FieldsGuarded'
    <2> SUFFICES ASSUME Form9Setting, NEW t \in Tickets, NEW f, f = Form9Job(t)
                 PROVE  /\ job'[f].state = "absent" =>
                             fields'[t] = None /\ \A v \in Workers : cur'[v] # f
                        /\ job'[f].state = "delayed" => Tried(f)'
                        /\ job'[f].state = "waiting" /\ fields'[t] # None => Tried(f)'
                        /\ \A v \in Workers : cur'[v] = f =>
                             /\ HoldsLock(v, f)' \/ Tried(f)'
                             /\ fields'[t] # None /\ at'[v] \notin {"returned", "threw"}
                                  => Tried(f)'
      BY DEF FieldsGuarded
    <2>1. /\ job[f].state = "absent" =>
               fields[t] = None /\ \A v \in Workers : cur[v] # f
          /\ job[f].state = "delayed" => Tried(f)
          /\ job[f].state = "waiting" /\ fields[t] # None => Tried(f)
          /\ \A v \in Workers : cur[v] = f =>
               /\ HoldsLock(v, f) \/ Tried(f)
               /\ fields[t] # None /\ at[v] \notin {"returned", "threw"} => Tried(f)
      BY DEF ZohoInv, ZohoParts, FieldsGuarded
    <2>2. f \in Form9Jobs
      BY ZohoIds
    <2> QED BY <1>1, <1>2, <1>3, <1>4, <1>5, <2>1, <2>2 DEF HoldsLock, Tried
  <1> QED BY <1>20, <1>21, <1>22, <1>23, <1>24, <1>25, <1>26, <1>27
      DEF ZohoParts

(* An attempt begins.                                                      *)
LEMMA TakeTicketKeeps ==
  ASSUME ZohoInv, NEW w \in Workers, NEW id \in ZohoJobs, TakeTicket(w, id)
  PROVE  ZohoParts'
  <1>1. /\ adds' = adds /\ faults' = faults /\ mails' = mails /\ told' = told
        /\ seen' = seen /\ found' = found /\ comments' = comments /\ covered' = covered
        /\ fields' = fields /\ ready' = ready
        /\ \A v \in Workers : at'[v] = IF v = w THEN "reading" ELSE at[v]
        /\ \A v \in Workers : cur'[v] = IF v = w THEN id ELSE cur[v]
    BY BeginEffect DEF TakeTicket, zohoVars, ZohoInv, ProcessorsInv
  <1>2. faults \in Nat
    BY ProcessorsAssumption DEF ZohoInv, ProcessorsInv
  <1>3. /\ \A x \in ZohoJobs : x # id => job'[x] = job[x]
        /\ job[id].state = "waiting" /\ job'[id].state = "active"
        /\ job'[id].owner = w /\ at[w] = "idle" /\ cur[w] = None
        /\ job'[id].made = job[id].made /\ job'[id].stalls = job[id].stalls
        /\ QueueOf[id] = ServedBy[w]
    <2>1. id \in Jobs /\ QueuesInv
      BY ZohoIds DEF ZohoInv, ProcessorsInv
    <2>2. Begin(w, id, "reading")
      BY DEF TakeTicket
    <2>3. at[w] = "idle"
      BY <2>1, <2>2, BeginInv
    <2>4. cur[w] = None
      BY <2>3 DEF ZohoInv, ProcessorsInv, Busy
    <2> QED BY <2>1, <2>2, <2>4, ZohoIds, BeginInv
  <1>5. /\ Drafts \subseteq ZohoJobs /\ Form9Jobs \subseteq ZohoJobs
        /\ Drafts \cap Form9Jobs = {} /\ Mails \subseteq Drafts /\ Incoming \subseteq Mails
        /\ None \notin ZohoJobs
    BY ZohoIds, ZohoAssumption DEF Drafts
  <1>20. ZohoPlaces'
    BY <1>1, <1>3 DEF ZohoPlaces, ZohoInv, ZohoParts
  <1>21. ZohoValues'
    BY <1>1 DEF ZohoValues, ZohoInv, ZohoParts
  <1>22. Calm'
    <2> SUFFICES ASSUME faults = 0
                 PROVE  /\ ready
                        /\ \A x \in Drafts :
                             /\ job'[x].stalls = 0
                             /\ job'[x].state \notin {"delayed", "failed"}
                             /\ job'[x].state = "active" => cur'[job'[x].owner] = x
                        /\ \A v \in Workers : cur'[v] \in Drafts =>
                             at'[v] # "threw" /\ HoldsLock(v, cur[v])'
      BY <1>1 DEF Calm, HoldsLock
    <2>1. /\ ready
          /\ \A x \in Drafts :
               /\ job[x].stalls = 0 /\ job[x].state \notin {"delayed", "failed"}
               /\ job[x].state = "active" => cur[job[x].owner] = x
          /\ \A v \in Workers :
               cur[v] \in Drafts => at[v] # "threw" /\ HoldsLock(v, cur[v])
      BY DEF Calm, ZohoInv, ZohoParts
    <2>2. \A x \in Drafts : job[x].state = "active" =>
            job[x].owner \in Workers /\ job[x].owner # w /\ x # id
      BY <1>3, <1>5, <2>1 DEF ZohoInv, ZohoParts, ZohoPlaces
    <2>3. \A x \in Drafts :
               /\ job'[x].stalls = 0 /\ job'[x].state \notin {"delayed", "failed"}
               /\ job'[x].state = "active" => cur'[job'[x].owner] = x
      BY <1>1, <1>3, <1>5, <2>1, <2>2
    <2>5. \A v \in Workers : cur'[v] \in Drafts =>
             at'[v] # "threw" /\ HoldsLock(v, cur[v])'
      BY <1>1, <1>3, <1>5, <2>1 DEF HoldsLock
    <2> QED BY <2>1, <2>3, <2>5
  <1>23. MailsFollowed'
    BY <1>1, <1>3, <1>5 DEF MailsFollowed, ZohoInv, ZohoParts
  <1>24. Accounted'
    BY <1>1, <1>3, <1>5 DEF Accounted, ZohoInv, ZohoParts, Pending
  <1>25. Commented'
    BY <1>1, <1>3, <1>5 DEF Commented, ZohoInv, ZohoParts
  <1>26. DraftSetting => CommentsCounted'
    <2> SUFFICES ASSUME DraftSetting, NEW x \in Drafts
                 PROVE  /\ job'[x].state = "absent" =>
                             comments'[x] = 0 /\ \A v \in Workers : cur'[v] # x
                        /\ comments'[x] + Owed(x)' <= 1 + faults'
      BY DEF CommentsCounted
    <2>1. /\ job[x].state = "absent" =>
               comments[x] = 0 /\ \A v \in Workers : cur[v] # x
          /\ comments[x] \in Nat /\ comments[x] + Owed(x) <= 1 + faults
      BY DEF ZohoInv, ZohoParts, ZohoValues, CommentsCounted
    <2>2. CASE x # id
      <3>1. Attempting(x)' \subseteq Attempting(x)
        BY <1>1, <2>2 DEF Attempting
      <3>2. ToBeRun(x)' => ToBeRun(x)
        BY <1>1, <1>3, <1>5, <2>2
        DEF ToBeRun, Orphaned, ZohoInv, ZohoParts, ZohoPlaces
      <3> QED BY <1>1, <1>2, <1>3, <1>5, <2>1, <3>1, <3>2, CountKept
    <2>3. CASE x = id
      <3>1. ~ToBeRun(x)' /\ ToBeRun(x)
        BY <1>1, <1>3, <2>3 DEF ToBeRun, Orphaned
      <3>2. Attempting(x)' \subseteq Attempting(x) \cup {w}
        BY <1>1 DEF Attempting
      <3>3. Cardinality(Attempting(x)') <= Cardinality(Attempting(x)) + 1
            /\ Cardinality(Attempting(x)') \in Nat /\ Cardinality(Attempting(x)) \in Nat
        BY <3>2, AttemptsCounted
      <3>4. Owed(x)' <= Owed(x) /\ Owed(x)' \in Nat /\ Owed(x) \in Nat
        BY <3>1, <3>3 DEF Owed
      <3> QED BY <1>1, <1>2, <1>3, <2>1, <2>3, <3>4
    <2> QED BY <2>2, <2>3
  <1>27. Form9Setting => FieldsGuarded'
    <2> SUFFICES ASSUME Form9Setting, NEW t \in Tickets, NEW f, f = Form9Job(t)
                 PROVE  /\ job'[f].state = "absent" =>
                             fields'[t] = None /\ \A v \in Workers : cur'[v] # f
                        /\ job'[f].state = "delayed" => Tried(f)'
                        /\ job'[f].state = "waiting" /\ fields'[t] # None => Tried(f)'
                        /\ \A v \in Workers : cur'[v] = f =>
                             /\ HoldsLock(v, f)' \/ Tried(f)'
                             /\ fields'[t] # None /\ at'[v] \notin {"returned", "threw"}
                                  => Tried(f)'
      BY DEF FieldsGuarded
    <2>1. /\ job[f].state = "absent" =>
               fields[t] = None /\ \A v \in Workers : cur[v] # f
          /\ job[f].state = "delayed" => Tried(f)
          /\ job[f].state = "waiting" /\ fields[t] # None => Tried(f)
          /\ \A v \in Workers : cur[v] = f =>
               /\ HoldsLock(v, f) \/ Tried(f)
               /\ fields[t] # None /\ at[v] \notin {"returned", "threw"} => Tried(f)
      BY DEF ZohoInv, ZohoParts, FieldsGuarded
    <2>2. f \in Form9Jobs
      BY ZohoIds
    <2> QED BY <1>1, <1>2, <1>3, <1>5, <2>1, <2>2 DEF HoldsLock, Tried
  <1> QED BY <1>20, <1>21, <1>22, <1>23, <1>24, <1>25, <1>26, <1>27
      DEF ZohoParts

(* The moves of an attempt.                                                *)
LEMMA ReadTicketKeeps ==
  ASSUME ZohoInv, NEW w \in Workers, NEW o \in Outcomes, ReadTicket(w, o)
  PROVE  ZohoParts'
  <1>1. /\ job' = job /\ cur' = cur /\ ready' = ready /\ mails' = mails
        /\ told' = told /\ adds' = adds /\ found' = found /\ comments' = comments
        /\ covered' = covered /\ fields' = fields
        /\ at[w] = "reading" /\ w \in Workers
        /\ \A v \in Workers : at'[v] = IF v = w THEN (IF o # "ok" \/ ~ready THEN "threw"
                 ELSE IF cur[w] \in Form9Jobs THEN "classifying" ELSE "drafting") ELSE at[v]
    BY MoveEffect DEF ReadTicket, queues, zohoVars, ZohoInv, ProcessorsInv
  <1>2. /\ faults \in Nat /\ faults' \in Nat /\ faults <= faults'
        /\ faults' = 0 => faults = 0
        /\ faults' = 0 => o = "ok"
    BY FaultsGrow DEF ReadTicket, Outcome
  <1>4. \A x \in ZohoJobs : /\ job[x].state \in States
                            /\ job[x].made \in Nat /\ job[x].stalls \in Nat
    BY ZohoIds DEF ZohoInv, ProcessorsInv, QueuesInv, AnyRecord
  <1>5. /\ Drafts \subseteq ZohoJobs /\ Form9Jobs \subseteq ZohoJobs
        /\ Drafts \cap Form9Jobs = {} /\ Mails \subseteq Drafts /\ Incoming \subseteq Mails
        /\ None \notin ZohoJobs
    BY ZohoIds, ZohoAssumption DEF Drafts
  <1>6. /\ seen' \in [Workers -> SUBSET Mails]
        /\ \A v \in Workers : v # w => seen'[v] = seen[v]
        /\ at'[w] = "drafting" =>
             seen'[w] = {m \in mails : TicketOf[m] = TicketAt(w)}
    BY <1>1 DEF ReadTicket, ZohoInv, ZohoParts, ZohoValues
  <1>7. at'[w] \in {"threw", "classifying", "drafting"}
        /\ (at'[w] = "drafting" => cur[w] \in Drafts \/ cur[w] = None)
    BY <1>1 DEF ZohoInv, ZohoParts, ZohoPlaces, ZohoJobs
  <1>8. cur[w] # None
    BY <1>1, ProcessorsAssumption DEF ZohoInv, ProcessorsInv, Busy
  <1>9. cur[w] \in Mails => TicketAt(w) = TicketOf[cur[w]]
    BY ZohoIds DEF TicketAt
  <1>20. ZohoPlaces'
    BY <1>1, <1>2, <1>4, <1>7, <1>8 DEF ZohoPlaces, ZohoInv, ZohoParts
  <1>21. ZohoValues'
    BY <1>1, <1>2, <1>4, <1>6 DEF ZohoValues, ZohoInv, ZohoParts
  <1>22. Calm'
    BY <1>1, <1>2, <1>4 DEF Calm, ZohoInv, ZohoParts, HoldsLock
  <1>23. MailsFollowed'
    BY <1>1, <1>2, <1>4, <1>6, <1>9 DEF MailsFollowed, ZohoInv, ZohoParts
  <1>24. Accounted'
    BY <1>1, <1>2, <1>4 DEF Accounted, ZohoInv, ZohoParts, Pending
  <1>25. Commented'
    BY <1>1, <1>2, <1>4 DEF Commented, ZohoInv, ZohoParts
  <1>26. DraftSetting => CommentsCounted'
    <2> SUFFICES ASSUME DraftSetting, NEW x \in Drafts
                 PROVE  /\ job'[x].state = "absent" =>
                             comments'[x] = 0 /\ \A v \in Workers : cur'[v] # x
                        /\ comments'[x] + Owed(x)' <= 1 + faults'
      BY DEF CommentsCounted
    <2>1. job[x].state = "absent" => comments[x] = 0 /\ \A v \in Workers : cur[v] # x
      BY DEF ZohoInv, ZohoParts, CommentsCounted
    <2>2. (Attempting(x)' \subseteq Attempting(x)) /\ (ToBeRun(x)' => ToBeRun(x))
      BY <1>1, <1>2, <1>4 DEF Attempting, ToBeRun, Orphaned
    <2> QED BY <1>1, <1>2, <1>4, <1>5, <1>6, <1>7, <2>1, <2>2, CountKept
  <1>27. Form9Setting => FieldsGuarded'
    <2> SUFFICES ASSUME Form9Setting, NEW t \in Tickets, NEW f, f = Form9Job(t)
                 PROVE  /\ job'[f].state = "absent" =>
                             fields'[t] = None /\ \A v \in Workers : cur'[v] # f
                        /\ job'[f].state = "delayed" => Tried(f)'
                        /\ job'[f].state = "waiting" /\ fields'[t] # None => Tried(f)'
                        /\ \A v \in Workers : cur'[v] = f =>
                             /\ HoldsLock(v, f)' \/ Tried(f)'
                             /\ fields'[t] # None /\ at'[v] \notin {"returned", "threw"}
                                  => Tried(f)'
      BY DEF FieldsGuarded
    <2>1. /\ job[f].state = "absent" =>
               fields[t] = None /\ \A v \in Workers : cur[v] # f
          /\ job[f].state = "delayed" => Tried(f)
          /\ job[f].state = "waiting" /\ fields[t] # None => Tried(f)
          /\ \A v \in Workers : cur[v] = f =>
               /\ HoldsLock(v, f) \/ Tried(f)
               /\ fields[t] # None /\ at[v] \notin {"returned", "threw"} => Tried(f)
      BY DEF ZohoInv, ZohoParts, FieldsGuarded
    <2> QED BY <1>1, <1>2, <1>4, <1>5, <1>6, <1>7, <2>1 DEF HoldsLock, Tried
  <1> QED BY <1>20, <1>21, <1>22, <1>23, <1>24, <1>25, <1>26, <1>27
      DEF ZohoParts

LEMMA DraftKeeps ==
  ASSUME ZohoInv, NEW w \in Workers, NEW errs \in BOOLEAN, Draft(w, errs)
  PROVE  ZohoParts'
  <1>1. /\ job' = job /\ cur' = cur /\ ready' = ready /\ mails' = mails
        /\ told' = told /\ adds' = adds /\ seen' = seen /\ found' = found
        /\ comments' = comments /\ covered' = covered /\ fields' = fields
        /\ at[w] = "drafting" /\ w \in Workers
        /\ \A v \in Workers : at'[v] = IF v = w THEN (IF errs THEN "threw" ELSE "commenting") ELSE at[v]
    BY MoveEffect DEF Draft, queues, zohoVars, ZohoInv, ProcessorsInv
  <1>2. /\ faults \in Nat /\ faults' \in Nat /\ faults <= faults'
        /\ faults' = 0 => faults = 0
        /\ faults' = 0 => ~errs
    BY FaultsGrow DEF Draft, Outcome
  <1>4. \A x \in ZohoJobs : /\ job[x].state \in States
                            /\ job[x].made \in Nat /\ job[x].stalls \in Nat
    BY ZohoIds DEF ZohoInv, ProcessorsInv, QueuesInv, AnyRecord
  <1>5. /\ Drafts \subseteq ZohoJobs /\ Form9Jobs \subseteq ZohoJobs
        /\ Drafts \cap Form9Jobs = {} /\ Mails \subseteq Drafts /\ Incoming \subseteq Mails
        /\ None \notin ZohoJobs
    BY ZohoIds, ZohoAssumption DEF Drafts
  <1>20. ZohoPlaces'
    BY <1>1, <1>2, <1>4, <1>5 DEF ZohoPlaces, ZohoInv, ZohoParts
  <1>21. ZohoValues'
    BY <1>1, <1>2, <1>4, <1>5 DEF ZohoValues, ZohoInv, ZohoParts
  <1>22. Calm'
    BY <1>1, <1>2, <1>4, <1>5 DEF Calm, ZohoInv, ZohoParts, HoldsLock
  <1>23. MailsFollowed'
    BY <1>1, <1>2, <1>4, <1>5 DEF MailsFollowed, ZohoInv, ZohoParts
  <1>24. Accounted'
    BY <1>1, <1>2, <1>4, <1>5 DEF Accounted, ZohoInv, ZohoParts, Pending
  <1>25. Commented'
    BY <1>1, <1>2, <1>4, <1>5 DEF Commented, ZohoInv, ZohoParts
  <1>26. DraftSetting => CommentsCounted'
    <2> SUFFICES ASSUME DraftSetting, NEW x \in Drafts
                 PROVE  /\ job'[x].state = "absent" =>
                             comments'[x] = 0 /\ \A v \in Workers : cur'[v] # x
                        /\ comments'[x] + Owed(x)' <= 1 + faults'
      BY DEF CommentsCounted
    <2>1. job[x].state = "absent" => comments[x] = 0 /\ \A v \in Workers : cur[v] # x
      BY DEF ZohoInv, ZohoParts, CommentsCounted
    <2>2. (Attempting(x)' \subseteq Attempting(x)) /\ (ToBeRun(x)' => ToBeRun(x))
      BY <1>1, <1>2, <1>4, <1>5 DEF Attempting, ToBeRun, Orphaned
    <2> QED BY <1>1, <1>2, <2>1, <2>2, CountKept
  <1>27. Form9Setting => FieldsGuarded'
    <2> SUFFICES ASSUME Form9Setting, NEW t \in Tickets, NEW f, f = Form9Job(t)
                 PROVE  /\ job'[f].state = "absent" =>
                             fields'[t] = None /\ \A v \in Workers : cur'[v] # f
                        /\ job'[f].state = "delayed" => Tried(f)'
                        /\ job'[f].state = "waiting" /\ fields'[t] # None => Tried(f)'
                        /\ \A v \in Workers : cur'[v] = f =>
                             /\ HoldsLock(v, f)' \/ Tried(f)'
                             /\ fields'[t] # None /\ at'[v] \notin {"returned", "threw"}
                                  => Tried(f)'
      BY DEF FieldsGuarded
    <2>1. /\ job[f].state = "absent" =>
               fields[t] = None /\ \A v \in Workers : cur[v] # f
          /\ job[f].state = "delayed" => Tried(f)
          /\ job[f].state = "waiting" /\ fields[t] # None => Tried(f)
          /\ \A v \in Workers : cur[v] = f =>
               /\ HoldsLock(v, f) \/ Tried(f)
               /\ fields[t] # None /\ at[v] \notin {"returned", "threw"} => Tried(f)
      BY DEF ZohoInv, ZohoParts, FieldsGuarded
    <2> QED BY <1>1, <1>2, <2>1 DEF HoldsLock, Tried
  <1> QED BY <1>20, <1>21, <1>22, <1>23, <1>24, <1>25, <1>26, <1>27
      DEF ZohoParts

LEMMA AddPrivateCommentKeeps ==
  ASSUME ZohoInv, NEW w \in Workers, NEW o \in Outcomes, AddPrivateComment(w, o)
  PROVE  ZohoParts'
  <1>1. /\ job' = job /\ cur' = cur /\ ready' = ready /\ mails' = mails
        /\ told' = told /\ adds' = adds /\ seen' = seen /\ found' = found
        /\ fields' = fields
        /\ at[w] = "commenting" /\ w \in Workers
        /\ \A v \in Workers : at'[v] = IF v = w THEN (IF o = "ok" THEN "returned" ELSE "threw") ELSE at[v]
    BY MoveEffect
    DEF AddPrivateComment, queues, zohoVars, ZohoInv, ProcessorsInv
  <1>2. /\ faults \in Nat /\ faults' \in Nat /\ faults <= faults'
        /\ faults' = 0 => faults = 0
        /\ IF o = "ok" THEN faults' = faults ELSE faults' = faults + 1
    BY FaultsGrow DEF AddPrivateComment, Outcome
  <1>4. \A x \in ZohoJobs : /\ job[x].state \in States
                            /\ job[x].made \in Nat /\ job[x].stalls \in Nat
    BY ZohoIds DEF ZohoInv, ProcessorsInv, QueuesInv, AnyRecord
  <1>5. /\ Drafts \subseteq ZohoJobs /\ Form9Jobs \subseteq ZohoJobs
        /\ Drafts \cap Form9Jobs = {} /\ Mails \subseteq Drafts /\ Incoming \subseteq Mails
        /\ None \notin ZohoJobs
    BY ZohoIds, ZohoAssumption DEF Drafts
  <1>6. /\ cur[w] \in Drafts /\ covered \subseteq covered'
        /\ o = "ok" => covered' = covered \cup seen[w]
        /\ comments' \in [Drafts -> Nat]
        /\ \A x \in Drafts : x # cur[w] => comments'[x] = comments[x]
        /\ o = "lost" => comments' = comments
        /\ o # "lost" => comments'[cur[w]] = comments[cur[w]] + 1
        /\ comments[cur[w]] \in Nat
    BY DEF AddPrivateComment, ZohoInv, ZohoParts, ZohoValues, ZohoPlaces
  <1>20. ZohoPlaces'
    BY <1>1, <1>2 DEF ZohoPlaces, ZohoInv, ZohoParts
  <1>21. ZohoValues'
    BY <1>1, <1>2, <1>6 DEF ZohoValues, ZohoInv, ZohoParts
  <1>22. Calm'
    BY <1>1, <1>2 DEF Calm, ZohoInv, ZohoParts, HoldsLock
  <1>23. MailsFollowed'
    BY <1>1, <1>2, <1>6 DEF MailsFollowed, ZohoInv, ZohoParts
  <1>24. Accounted'
    BY <1>1, <1>2, <1>6 DEF Accounted, ZohoInv, ZohoParts, Pending
  <1>25. Commented'
    BY <1>1, <1>2, <1>6 DEF Commented, ZohoInv, ZohoParts
  <1>26. DraftSetting => CommentsCounted'
    <2> SUFFICES ASSUME DraftSetting, NEW x \in Drafts
                 PROVE  /\ job'[x].state = "absent" =>
                             comments'[x] = 0 /\ \A v \in Workers : cur'[v] # x
                        /\ comments'[x] + Owed(x)' <= 1 + faults'
      BY DEF CommentsCounted
    <2>1. /\ job[x].state = "absent" =>
               comments[x] = 0 /\ \A v \in Workers : cur[v] # x
          /\ comments[x] \in Nat /\ comments[x] + Owed(x) <= 1 + faults
      BY DEF ZohoInv, ZohoParts, ZohoValues, CommentsCounted
    <2>2. ToBeRun(x)' <=> ToBeRun(x)
      BY <1>1 DEF ToBeRun, Orphaned
    <2>3. Attempting(x)' \subseteq Attempting(x)
      BY <1>1 DEF Attempting
    <2>4. CASE x # cur[w] \/ o = "lost"
      <3>1. comments'[x] = comments[x]
        BY <1>6, <2>4
      <3> QED BY <1>1, <1>2, <2>1, <2>2, <2>3, <3>1, CountKept
    <2>5. CASE x = cur[w] /\ o = "ok"
      <3>1. w \in Attempting(x) /\ w \notin Attempting(x)'
        BY <1>1, <2>5 DEF Attempting
      <3>2. Cardinality(Attempting(x)') + 1 <= Cardinality(Attempting(x))
            /\ Cardinality(Attempting(x)') \in Nat /\ Cardinality(Attempting(x)) \in Nat
        BY <2>3, <3>1, AttemptsCounted
      <3>3. Owed(x)' + 1 <= Owed(x) /\ Owed(x)' \in Nat /\ Owed(x) \in Nat
        BY <2>2, <3>2 DEF Owed
      <3> QED BY <1>1, <1>2, <1>6, <2>1, <2>2, <2>5, <3>3
    <2>6. CASE x = cur[w] /\ o # "lost" /\ o # "ok"
      <3>1. comments'[x] = comments[x] + 1 /\ faults' = faults + 1
        BY <1>2, <1>6, <2>6
      <3>2. /\ Owed(x) \in Nat /\ Owed(x)' \in Nat /\ Owed(x)' <= Owed(x)
        <4>1. Cardinality(Attempting(x)') <= Cardinality(Attempting(x))
              /\ Cardinality(Attempting(x)') \in Nat /\ Cardinality(Attempting(x)) \in Nat
          BY <2>3, AttemptsCounted
        <4> QED BY <2>2, <4>1 DEF Owed
      <3>3. job[x].state # "absent" <=> job'[x].state # "absent"
        BY <1>1
      <3>4. job[x].state # "absent"
        BY <1>1, <2>1, <2>6
      <3> QED BY <1>2, <2>1, <3>1, <3>2, <3>3, <3>4
    <2> QED BY <2>4, <2>5, <2>6
  <1>27. Form9Setting => FieldsGuarded'
    <2> SUFFICES ASSUME Form9Setting, NEW t \in Tickets, NEW f, f = Form9Job(t)
                 PROVE  /\ job'[f].state = "absent" =>
                             fields'[t] = None /\ \A v \in Workers : cur'[v] # f
                        /\ job'[f].state = "delayed" => Tried(f)'
                        /\ job'[f].state = "waiting" /\ fields'[t] # None => Tried(f)'
                        /\ \A v \in Workers : cur'[v] = f =>
                             /\ HoldsLock(v, f)' \/ Tried(f)'
                             /\ fields'[t] # None /\ at'[v] \notin {"returned", "threw"}
                                  => Tried(f)'
      BY DEF FieldsGuarded
    <2>1. /\ job[f].state = "absent" =>
               fields[t] = None /\ \A v \in Workers : cur[v] # f
          /\ job[f].state = "delayed" => Tried(f)
          /\ job[f].state = "waiting" /\ fields[t] # None => Tried(f)
          /\ \A v \in Workers : cur[v] = f =>
               /\ HoldsLock(v, f) \/ Tried(f)
               /\ fields[t] # None /\ at[v] \notin {"returned", "threw"} => Tried(f)
      BY DEF ZohoInv, ZohoParts, FieldsGuarded
    <2> QED BY <1>1, <1>2, <1>4, <1>5, <1>6, <2>1 DEF HoldsLock, Tried
  <1> QED BY <1>20, <1>21, <1>22, <1>23, <1>24, <1>25, <1>26, <1>27
      DEF ZohoParts

LEMMA ClassifyKeeps ==
  ASSUME ZohoInv, NEW w \in Workers, NEW r \in Treatments \cup {None},
         NEW errs \in BOOLEAN, Classify(w, r, errs)
  PROVE  ZohoParts'
  <1>1. /\ job' = job /\ cur' = cur /\ ready' = ready /\ mails' = mails
        /\ told' = told /\ adds' = adds /\ seen' = seen /\ comments' = comments
        /\ covered' = covered /\ fields' = fields
        /\ at[w] = "classifying" /\ w \in Workers
        /\ \A v \in Workers : at'[v] = IF v = w THEN (IF errs THEN "threw"
                 ELSE IF r = None THEN "returned" ELSE "updating") ELSE at[v]
    BY MoveEffect DEF Classify, queues, zohoVars, ZohoInv, ProcessorsInv
  <1>2. /\ faults \in Nat /\ faults' \in Nat /\ faults <= faults'
        /\ faults' = 0 => faults = 0
        /\ faults' = 0 => ~errs
    BY FaultsGrow DEF Classify, Outcome
  <1>4. \A x \in ZohoJobs : /\ job[x].state \in States
                            /\ job[x].made \in Nat /\ job[x].stalls \in Nat
    BY ZohoIds DEF ZohoInv, ProcessorsInv, QueuesInv, AnyRecord
  <1>5. /\ Drafts \subseteq ZohoJobs /\ Form9Jobs \subseteq ZohoJobs
        /\ Drafts \cap Form9Jobs = {} /\ Mails \subseteq Drafts /\ Incoming \subseteq Mails
        /\ None \notin ZohoJobs
    BY ZohoIds, ZohoAssumption DEF Drafts
  <1>6. cur[w] \in Form9Jobs /\ found' \in [Workers -> Treatments \cup {None}]
    BY DEF Classify, ZohoInv, ZohoParts, ZohoValues, ZohoPlaces
  <1>20. ZohoPlaces'
    BY <1>1 DEF ZohoPlaces, ZohoInv, ZohoParts
  <1>21. ZohoValues'
    BY <1>1, <1>6 DEF ZohoValues, ZohoInv, ZohoParts
  <1>22. Calm'
    BY <1>1, <1>2 DEF Calm, ZohoInv, ZohoParts, HoldsLock
  <1>23. MailsFollowed'
    BY <1>1, <1>5, <1>6 DEF MailsFollowed, ZohoInv, ZohoParts
  <1>24. Accounted'
    BY <1>1, <1>2 DEF Accounted, ZohoInv, ZohoParts, Pending
  <1>25. Commented'
    BY <1>1, <1>5, <1>6 DEF Commented, ZohoInv, ZohoParts
  <1>26. DraftSetting => CommentsCounted'
    <2> SUFFICES ASSUME DraftSetting, NEW x \in Drafts
                 PROVE  /\ job'[x].state = "absent" =>
                             comments'[x] = 0 /\ \A v \in Workers : cur'[v] # x
                        /\ comments'[x] + Owed(x)' <= 1 + faults'
      BY DEF CommentsCounted
    <2>1. job[x].state = "absent" => comments[x] = 0 /\ \A v \in Workers : cur[v] # x
      BY DEF ZohoInv, ZohoParts, CommentsCounted
    <2>2. (Attempting(x)' \subseteq Attempting(x)) /\ (ToBeRun(x)' => ToBeRun(x))
      BY <1>1 DEF Attempting, ToBeRun, Orphaned
    <2> QED BY <1>1, <1>2, <1>4, <2>1, <2>2, CountKept
  <1>27. Form9Setting => FieldsGuarded'
    <2> SUFFICES ASSUME Form9Setting, NEW t \in Tickets, NEW f, f = Form9Job(t)
                 PROVE  /\ job'[f].state = "absent" =>
                             fields'[t] = None /\ \A v \in Workers : cur'[v] # f
                        /\ job'[f].state = "delayed" => Tried(f)'
                        /\ job'[f].state = "waiting" /\ fields'[t] # None => Tried(f)'
                        /\ \A v \in Workers : cur'[v] = f =>
                             /\ HoldsLock(v, f)' \/ Tried(f)'
                             /\ fields'[t] # None /\ at'[v] \notin {"returned", "threw"}
                                  => Tried(f)'
      BY DEF FieldsGuarded
    <2>1. /\ job[f].state = "absent" =>
               fields[t] = None /\ \A v \in Workers : cur[v] # f
          /\ job[f].state = "delayed" => Tried(f)
          /\ job[f].state = "waiting" /\ fields[t] # None => Tried(f)
          /\ \A v \in Workers : cur[v] = f =>
               /\ HoldsLock(v, f) \/ Tried(f)
               /\ fields[t] # None /\ at[v] \notin {"returned", "threw"} => Tried(f)
      BY DEF ZohoInv, ZohoParts, FieldsGuarded
    <2> QED BY <1>1, <1>2, <1>4, <2>1 DEF HoldsLock, Tried
  <1> QED BY <1>20, <1>21, <1>22, <1>23, <1>24, <1>25, <1>26, <1>27
      DEF ZohoParts

LEMMA UpdateTicketCustomFieldsKeeps ==
  ASSUME ZohoInv, NEW w \in Workers, NEW o \in Outcomes,
         UpdateTicketCustomFields(w, o)
  PROVE  ZohoParts'
  <1>1. /\ job' = job /\ cur' = cur /\ ready' = ready /\ mails' = mails
        /\ told' = told /\ adds' = adds /\ seen' = seen /\ found' = found
        /\ comments' = comments /\ covered' = covered
        /\ at[w] = "updating" /\ w \in Workers
        /\ \A v \in Workers : at'[v] = IF v = w THEN (IF o = "ok" THEN "returned" ELSE "threw") ELSE at[v]
    BY MoveEffect
    DEF UpdateTicketCustomFields, queues, zohoVars, ZohoInv, ProcessorsInv
  <1>2. /\ faults \in Nat /\ faults' \in Nat /\ faults <= faults'
        /\ faults' = 0 => faults = 0
        /\ faults' = 0 => o = "ok"
    BY FaultsGrow DEF UpdateTicketCustomFields, Outcome
  <1>4. \A x \in ZohoJobs : /\ job[x].state \in States
                            /\ job[x].made \in Nat /\ job[x].stalls \in Nat
    BY ZohoIds DEF ZohoInv, ProcessorsInv, QueuesInv, AnyRecord
  <1>5. /\ Drafts \subseteq ZohoJobs /\ Form9Jobs \subseteq ZohoJobs
        /\ Drafts \cap Form9Jobs = {} /\ Mails \subseteq Drafts /\ Incoming \subseteq Mails
        /\ None \notin ZohoJobs
    BY ZohoIds, ZohoAssumption DEF Drafts
  <1>6. cur[w] \in Form9Jobs /\ cur[w] = Form9Job(cur[w][2]) /\ TicketAt(w) = cur[w][2]
        /\ cur[w][2] \in Tickets
    <2>1. cur[w] \in Form9Jobs
      BY DEF UpdateTicketCustomFields, ZohoInv, ZohoParts, ZohoPlaces
    <2>2. cur[w] \notin Tickets /\ cur[w] \notin Mails
      BY <1>5, <2>1 DEF Drafts
    <2> QED BY <2>1, <2>2, ZohoIds DEF TicketAt
  <1>7. /\ fields' \in [Tickets -> Treatments \cup {None}]
        /\ \A t \in Tickets : t # cur[w][2] => fields'[t] = fields[t]
    BY <1>6 DEF UpdateTicketCustomFields, ZohoInv, ZohoParts, ZohoValues
  <1>20. ZohoPlaces'
    BY <1>1, <1>2 DEF ZohoPlaces, ZohoInv, ZohoParts
  <1>21. ZohoValues'
    BY <1>1, <1>2, <1>7 DEF ZohoValues, ZohoInv, ZohoParts
  <1>22. Calm'
    BY <1>1, <1>2 DEF Calm, ZohoInv, ZohoParts, HoldsLock
  <1>23. MailsFollowed'
    BY <1>1, <1>2, <1>5, <1>6 DEF MailsFollowed, ZohoInv, ZohoParts
  <1>24. Accounted'
    BY <1>1, <1>2 DEF Accounted, ZohoInv, ZohoParts, Pending
  <1>25. Commented'
    BY <1>1, <1>2, <1>5, <1>6 DEF Commented, ZohoInv, ZohoParts
  <1>26. DraftSetting => CommentsCounted'
    <2> SUFFICES ASSUME DraftSetting, NEW x \in Drafts
                 PROVE  /\ job'[x].state = "absent" =>
                             comments'[x] = 0 /\ \A v \in Workers : cur'[v] # x
                        /\ comments'[x] + Owed(x)' <= 1 + faults'
      BY DEF CommentsCounted
    <2>1. job[x].state = "absent" => comments[x] = 0 /\ \A v \in Workers : cur[v] # x
      BY DEF ZohoInv, ZohoParts, CommentsCounted
    <2>2. (Attempting(x)' \subseteq Attempting(x)) /\ (ToBeRun(x)' => ToBeRun(x))
      BY <1>1, <1>2 DEF Attempting, ToBeRun, Orphaned
    <2> QED BY <1>1, <1>2, <1>4, <1>5, <1>6, <2>1, <2>2, CountKept
  <1>27. Form9Setting => FieldsGuarded'
    <2> SUFFICES ASSUME Form9Setting, NEW t \in Tickets, NEW f, f = Form9Job(t)
                 PROVE  /\ job'[f].state = "absent" =>
                             fields'[t] = None /\ \A v \in Workers : cur'[v] # f
                        /\ job'[f].state = "delayed" => Tried(f)'
                        /\ job'[f].state = "waiting" /\ fields'[t] # None => Tried(f)'
                        /\ \A v \in Workers : cur'[v] = f =>
                             /\ HoldsLock(v, f)' \/ Tried(f)'
                             /\ fields'[t] # None /\ at'[v] \notin {"returned", "threw"}
                                  => Tried(f)'
      BY DEF FieldsGuarded
    <2>1. /\ job[f].state = "absent" =>
               fields[t] = None /\ \A v \in Workers : cur[v] # f
          /\ job[f].state = "delayed" => Tried(f)
          /\ job[f].state = "waiting" /\ fields[t] # None => Tried(f)
          /\ \A v \in Workers : cur[v] = f =>
               /\ HoldsLock(v, f) \/ Tried(f)
               /\ fields[t] # None /\ at[v] \notin {"returned", "threw"} => Tried(f)
      BY DEF ZohoInv, ZohoParts, FieldsGuarded
    <2> QED BY <1>1, <1>2, <1>4, <1>5, <1>6, <1>7, <2>1 DEF HoldsLock, Tried
  <1> QED BY <1>20, <1>21, <1>22, <1>23, <1>24, <1>25, <1>26, <1>27
      DEF ZohoParts

(* What the end of an attempt does to the jobs.                            *)
LEMMA TicketEndEffect ==
  ASSUME ZohoInv, NEW w \in Workers, NEW id, id = cur[w], End(w)
  PROVE  /\ id \in ZohoJobs /\ at[w] \in {"returned", "threw"}
         /\ ~HoldsLock(w, id) => job' = job
         /\ HoldsLock(w, id) /\ at[w] = "returned" =>
              /\ \/ job'[id] = NoJob
                 \/ /\ job'[id].state = "completed"
                    /\ job'[id].made = job[id].made
                    /\ job'[id].stalls = job[id].stalls
              /\ \A x \in ZohoJobs : x # id =>
                    \/ job'[x] = job[x]
                    \/ job[x].state = "completed" /\ job'[x] = NoJob
         /\ HoldsLock(w, id) /\ at[w] = "threw" =>
              /\ job'[id].state \in {"failed", "delayed"}
              /\ job'[id].made = job[id].made + 1
              /\ job'[id].stalls = job[id].stalls
              /\ \A x \in ZohoJobs : x # id => job'[x] = job[x]
         /\ \A x \in ZohoJobs : KeepsAll(QueueOf[x]) =>
              /\ x # id => job'[x] = job[x]
              /\ job[x].state # "absent" => job'[x].state # "absent"
  <1>1. /\ id \in Jobs /\ at[w] \in {"returned", "threw"} /\ ProcessorsInv
        /\ ~HoldsLock(w, id) => job' = job
        /\ HoldsLock(w, id) /\ at[w] = "returned" =>
              /\ \/ job'[id] = NoJob
                 \/ /\ job'[id].state = "completed"
                    /\ job'[id].made = job[id].made
                    /\ job'[id].stalls = job[id].stalls
              /\ \A x \in Jobs : x # id =>
                    \/ job'[x] = job[x]
                    \/ /\ job[x].state = "completed" /\ QueueOf[x] = QueueOf[id]
                       /\ job'[x] = NoJob
        /\ HoldsLock(w, id) /\ at[w] = "threw" =>
              /\ job'[id].state = IF LastAttempt(id) THEN "failed" ELSE "delayed"
              /\ job'[id].made = job[id].made + 1
              /\ job'[id].stalls = job[id].stalls
              /\ \A x \in Jobs : x # id => job'[x] = job[x]
    BY EndInv DEF ZohoInv
  <1> HIDE DEF KeepsAll
  <1>2. HoldsLock(w, id) /\ at[w] = "returned" /\ KeepsAll(QueueOf[id]) =>
          /\ job'[id].state = "completed"
          /\ \A x \in Jobs : x # id => job'[x] = job[x]
    BY <1>1, EndInv
  <1>3. id \in ZohoJobs /\ ZohoJobs \subseteq Jobs
    BY <1>1, ZohoIds, ProcessorsAssumption DEF ZohoInv, ZohoParts, ZohoPlaces
  <1>4. \A x \in ZohoJobs : KeepsAll(QueueOf[x]) =>
              /\ x # id => job'[x] = job[x]
              /\ job[x].state # "absent" => job'[x].state # "absent"
    BY <1>1, <1>2, <1>3
  <1> QED BY <1>1, <1>3, <1>4

(* An attempt ends.                                                        *)
LEMMA EndTicketKeeps ==
  ASSUME ZohoInv, NEW w \in Workers, EndTicket(w)
  PROVE  ZohoParts'
  <1> DEFINE id == cur[w]
  <1>1. /\ faults' = faults /\ ready' = ready /\ mails' = mails /\ told' = told
        /\ adds' = adds /\ comments' = comments /\ covered' = covered /\ fields' = fields
        /\ \A v \in Workers : at'[v] = IF v = w THEN "idle" ELSE at[v]
        /\ \A v \in Workers : cur'[v] = IF v = w THEN None ELSE cur[v]
    BY EndEffect DEF EndTicket, ZohoInv, ProcessorsInv
  <1>2. faults \in Nat
    BY ProcessorsAssumption DEF ZohoInv, ProcessorsInv
  <1>4. \A x \in ZohoJobs : /\ job[x].state \in States
                            /\ job[x].made \in Nat /\ job[x].stalls \in Nat
    BY ZohoIds DEF ZohoInv, ProcessorsInv, QueuesInv, AnyRecord
  <1>5. /\ Drafts \subseteq ZohoJobs /\ Form9Jobs \subseteq ZohoJobs
        /\ Drafts \cap Form9Jobs = {} /\ Mails \subseteq Drafts /\ Incoming \subseteq Mails
        /\ None \notin ZohoJobs
    BY ZohoIds, ZohoAssumption DEF Drafts
  <1>6. /\ seen' \in [Workers -> SUBSET Mails]
        /\ found' \in [Workers -> Treatments \cup {None}]
        /\ \A v \in Workers : v # w => seen'[v] = seen[v]
    BY DEF EndTicket, ZohoInv, ZohoParts, ZohoValues
  <1>7. /\ id \in ZohoJobs /\ at[w] \in {"returned", "threw"}
        /\ ~HoldsLock(w, id) => \A x \in ZohoJobs : job'[x] = job[x]
        /\ HoldsLock(w, id) /\ at[w] = "returned" =>
              /\ \/ job'[id].state = "absent" /\ job'[id].stalls = 0
                 \/ /\ job'[id].state = "completed"
                    /\ job'[id].made = job[id].made
                    /\ job'[id].stalls = job[id].stalls
              /\ \A x \in ZohoJobs : x # id =>
                    \/ job'[x] = job[x]
                    \/ /\ job[x].state = "completed"
                       /\ job'[x].state = "absent" /\ job'[x].stalls = 0
        /\ HoldsLock(w, id) /\ at[w] = "threw" =>
              /\ job'[id].state \in {"failed", "delayed"}
              /\ job'[id].made = job[id].made + 1
              /\ job'[id].stalls = job[id].stalls
              /\ \A x \in ZohoJobs : x # id => job'[x] = job[x]
    BY TicketEndEffect DEF EndTicket, NoJob
  <1>8. \A x \in ZohoJobs : KeepsAll(QueueOf[x]) =>
              /\ x # id => job'[x] = job[x]
              /\ job[x].state # "absent" => job'[x].state # "absent"
    BY TicketEndEffect DEF EndTicket
  <1> HIDE DEF id
  <1>9. id = cur[w]
    BY DEF id
  <1>10. \A x \in Drafts \cup Form9Jobs : QueueOf[x] = IF x \in Drafts THEN DraftQueue
                                                  ELSE Form9Queue
    BY ZohoIds
  <1>20. ZohoPlaces'
    BY <1>1, <1>2, <1>7 DEF ZohoPlaces, ZohoInv, ZohoParts, HoldsLock
  <1>21. ZohoValues'
    BY <1>1, <1>2, <1>6 DEF ZohoValues, ZohoInv, ZohoParts
  <1>22. Calm'
    <2> SUFFICES ASSUME faults = 0
                 PROVE  /\ ready
                        /\ \A x \in Drafts :
                             /\ job'[x].stalls = 0
                             /\ job'[x].state \notin {"delayed", "failed"}
                             /\ job'[x].state = "active" => cur'[job'[x].owner] = x
                        /\ \A v \in Workers : cur'[v] \in Drafts =>
                             at'[v] # "threw" /\ HoldsLock(v, cur[v])'
      BY <1>1 DEF Calm, HoldsLock
    <2>1. /\ ready
          /\ \A x \in Drafts :
               /\ job[x].stalls = 0 /\ job[x].state \notin {"delayed", "failed"}
               /\ job[x].state = "active" => cur[job[x].owner] = x
          /\ \A v \in Workers :
               cur[v] \in Drafts => at[v] # "threw" /\ HoldsLock(v, cur[v])
      BY DEF Calm, ZohoInv, ZohoParts
    <2>2. id \in Drafts => at[w] = "returned" /\ HoldsLock(w, id)
      BY <1>7, <1>9, <2>1
    <2>3. \A x \in Drafts : \/ job'[x] = job[x]
                            \/ /\ job'[x].stalls = 0
                               /\ job'[x].state \in {"absent", "completed"}
      BY <1>5, <1>7, <2>1, <2>2
    <2>4. \A x \in Drafts : job'[x] = job[x] /\ job[x].state = "active" =>
            job[x].owner \in Workers /\ job[x].owner # w
      BY <1>5, <1>7, <1>9, <2>1 DEF ZohoInv, ZohoParts, ZohoPlaces, HoldsLock
    <2>5. \A x \in Drafts :
            /\ job'[x].stalls = 0 /\ job'[x].state \notin {"delayed", "failed"}
            /\ job'[x].state = "active" => cur'[job'[x].owner] = x
      BY <1>1, <2>1, <2>3, <2>4
    <2>6. \A v \in Workers : v # w /\ cur[v] \in Drafts => job'[cur[v]] = job[cur[v]]
      BY <1>5, <1>7, <2>1 DEF HoldsLock
    <2>7. \A v \in Workers : cur'[v] \in Drafts =>
             at'[v] # "threw" /\ HoldsLock(v, cur[v])'
      BY <1>1, <1>5, <2>1, <2>6 DEF HoldsLock
    <2> QED BY <2>1, <2>5, <2>7
  <1>23. MailsFollowed'
    BY <1>1, <1>2, <1>5, <1>6, <1>7, <1>9 DEF MailsFollowed, ZohoInv, ZohoParts
  <1>24. Accounted'
    <2> SUFFICES ASSUME faults = 0, NEW m \in Incoming, ThreadAdd(m) \in told
                 PROVE  m \in adds \/ Pending(m)' \/ m \in covered
      BY <1>1 DEF Accounted
    <2>1. m \in adds \/ Pending(m) \/ m \in covered
      BY DEF Accounted, ZohoInv, ZohoParts
    <2>2. CASE m = id
      BY <1>5, <1>7, <1>9, <2>2 DEF Calm, MailsFollowed, ZohoInv, ZohoParts
    <2>3. CASE m # id
      BY <1>5, <1>7, <2>1, <2>3 DEF Pending
    <2> QED BY <2>2, <2>3
  <1>25. Commented'
    BY <1>1, <1>2, <1>5, <1>7, <1>9 DEF Commented, ZohoInv, ZohoParts
  <1>26. DraftSetting => CommentsCounted'
    <2> SUFFICES ASSUME DraftSetting, NEW x \in Drafts
                 PROVE  /\ job'[x].state = "absent" =>
                             comments'[x] = 0 /\ \A v \in Workers : cur'[v] # x
                        /\ comments'[x] + Owed(x)' <= 1 + faults'
      BY DEF CommentsCounted
    <2>1. /\ job[x].state = "absent" =>
               comments[x] = 0 /\ \A v \in Workers : cur[v] # x
          /\ comments[x] \in Nat /\ comments[x] + Owed(x) <= 1 + faults
      BY DEF ZohoInv, ZohoParts, ZohoValues, CommentsCounted
    <2>2. KeepsAll(QueueOf[x])
      BY <1>10 DEF DraftSetting
    <2> HIDE DEF KeepsAll
    <2>3. Attempting(x)' \subseteq Attempting(x)
      BY <1>1, <1>5 DEF Attempting
    <2>4. CASE x # id
      <3>1. job'[x] = job[x]
        BY <1>5, <1>8, <2>2, <2>4
      <3>2. ToBeRun(x)' => ToBeRun(x)
        BY <1>1, <1>5, <1>9, <2>4, <3>1
        DEF ToBeRun, Orphaned, ZohoInv, ZohoParts, ZohoPlaces
      <3> QED BY <1>1, <1>2, <1>5, <2>1, <2>3, <3>1, <3>2, CountKept
    <2>5. CASE x = id
      <3>3. job'[x].state # "absent"
        BY <1>5, <1>8, <1>9, <2>1, <2>2, <2>5
      <3>4. CASE ~HoldsLock(w, id)
        <4>1. job'[x] = job[x]
          BY <1>5, <1>7, <3>4
        <4>2. ToBeRun(x)' => ToBeRun(x)
          BY <1>1, <1>5, <2>5, <3>4, <4>1
          DEF ToBeRun, Orphaned, HoldsLock, ZohoInv, ZohoParts, ZohoPlaces
        <4> QED BY <1>1, <1>2, <2>3, <3>3, <4>2, CountKept
      <3>5. CASE HoldsLock(w, id) /\ at[w] = "returned"
        <4>1. ~ToBeRun(x)'
          BY <1>7, <2>5, <3>3, <3>5 DEF ToBeRun, Orphaned
        <4> QED BY <1>1, <1>2, <2>3, <3>3, <4>1, CountKept
      <3>6. CASE HoldsLock(w, id) /\ at[w] = "threw"
        <4>1. w \in Attempting(x) /\ w \notin Attempting(x)' /\ ~ToBeRun(x)
          BY <1>1, <1>5, <1>9, <2>5, <3>6 DEF Attempting, ToBeRun, Orphaned, HoldsLock
        <4>2. Cardinality(Attempting(x)') + 1 <= Cardinality(Attempting(x))
              /\ Cardinality(Attempting(x)') \in Nat /\ Cardinality(Attempting(x)) \in Nat
          BY <2>3, <4>1, AttemptsCounted
        <4>3. Owed(x)' <= Owed(x) /\ Owed(x)' \in Nat /\ Owed(x) \in Nat
          BY <4>1, <4>2 DEF Owed
        <4> QED BY <1>1, <1>2, <2>1, <3>3, <4>3
      <3> QED BY <1>7, <3>4, <3>5, <3>6
    <2> QED BY <2>4, <2>5
  <1>27. Form9Setting => FieldsGuarded'
    <2> SUFFICES ASSUME Form9Setting, NEW t \in Tickets, NEW f, f = Form9Job(t)
                 PROVE  /\ job'[f].state = "absent" =>
                             fields'[t] = None /\ \A v \in Workers : cur'[v] # f
                        /\ job'[f].state = "delayed" => Tried(f)'
                        /\ job'[f].state = "waiting" /\ fields'[t] # None => Tried(f)'
                        /\ \A v \in Workers : cur'[v] = f =>
                             /\ HoldsLock(v, f)' \/ Tried(f)'
                             /\ fields'[t] # None /\ at'[v] \notin {"returned", "threw"}
                                  => Tried(f)'
      BY DEF FieldsGuarded
    <2>1. /\ job[f].state = "absent" =>
               fields[t] = None /\ \A v \in Workers : cur[v] # f
          /\ job[f].state = "delayed" => Tried(f)
          /\ job[f].state = "waiting" /\ fields[t] # None => Tried(f)
          /\ \A v \in Workers : cur[v] = f =>
               /\ HoldsLock(v, f) \/ Tried(f)
               /\ fields[t] # None /\ at[v] \notin {"returned", "threw"} => Tried(f)
      BY DEF ZohoInv, ZohoParts, FieldsGuarded
    <2>2. f \in Form9Jobs
      BY ZohoIds
    <2>3. KeepsAll(QueueOf[f]) /\ f \notin Drafts
      BY <1>5, <1>10, <2>2 DEF Form9Setting
    <2> HIDE DEF KeepsAll
    <2> QED BY <1>1, <1>2, <1>4, <1>5, <1>6, <1>7, <1>9, <1>8, <2>3, <2>1, <2>2
        DEF HoldsLock, Tried
  <1> QED BY <1>20, <1>21, <1>22, <1>23, <1>24, <1>25, <1>26, <1>27
      DEF ZohoParts

(* The web process dies.                                                   *)
LEMMA CrashZohoKeeps ==
  ASSUME ZohoInv, CrashZoho
  PROVE  ZohoParts'
  <1>1. /\ job' = job /\ mails' = mails /\ told' = told /\ comments' = comments
        /\ covered' = covered /\ fields' = fields
        /\ \A v \in Workers : at'[v] = "idle" /\ cur'[v] = None
        /\ adds' = {}
        /\ seen' \in [Workers -> SUBSET Mails]
        /\ found' \in [Workers -> Treatments \cup {None}]
    BY DEF CrashZoho, Crash, queues
  <1>2. faults \in Nat /\ faults' = faults + 1
    BY FaultsGrow DEF CrashZoho, Crash
  <1>4. \A x \in ZohoJobs : /\ job[x].state \in States
                            /\ job[x].made \in Nat /\ job[x].stalls \in Nat
    BY ZohoIds DEF ZohoInv, ProcessorsInv, QueuesInv, AnyRecord
  <1>5. /\ Drafts \subseteq ZohoJobs /\ Form9Jobs \subseteq ZohoJobs
        /\ Drafts \cap Form9Jobs = {} /\ Mails \subseteq Drafts /\ Incoming \subseteq Mails
        /\ None \notin ZohoJobs
    BY ZohoIds, ZohoAssumption DEF Drafts
  <1>20. ZohoPlaces'
    BY <1>1, <1>2, <1>4, <1>5 DEF ZohoPlaces, ZohoInv, ZohoParts
  <1>21. ZohoValues'
    BY <1>1, <1>2, <1>4, <1>5 DEF ZohoValues, ZohoInv, ZohoParts
  <1>22. Calm'
    BY <1>2, <1>4, <1>5 DEF Calm, ZohoInv, ZohoParts, HoldsLock
  <1>23. MailsFollowed'
    BY <1>1, <1>2, <1>4, <1>5 DEF MailsFollowed, ZohoInv, ZohoParts
  <1>24. Accounted'
    BY <1>2, <1>4, <1>5 DEF Accounted, ZohoInv, ZohoParts, Pending
  <1>25. Commented'
    BY <1>1, <1>2, <1>4, <1>5 DEF Commented, ZohoInv, ZohoParts
  <1>26. DraftSetting => CommentsCounted'
    <2> SUFFICES ASSUME DraftSetting, NEW x \in Drafts
                 PROVE  /\ job'[x].state = "absent" =>
                             comments'[x] = 0 /\ \A v \in Workers : cur'[v] # x
                        /\ comments'[x] + Owed(x)' <= 1 + faults'
      BY DEF CommentsCounted
    <2>1. /\ job[x].state = "absent" =>
               comments[x] = 0 /\ \A v \in Workers : cur[v] # x
          /\ comments[x] \in Nat /\ comments[x] + Owed(x) <= 1 + faults
      BY DEF ZohoInv, ZohoParts, ZohoValues, CommentsCounted
    <2>2. Attempting(x)' = {}
      BY <1>1, <1>5 DEF Attempting
    <2>3. Owed(x) \in Nat /\ Owed(x)' \in {0, 1}
      <3>1. Cardinality(Attempting(x)) \in Nat /\ Cardinality(Attempting(x)') = 0
        BY <2>2, AttemptsCounted
      <3> QED BY <3>1 DEF Owed
    <2> QED BY <1>1, <1>2, <1>5, <2>1, <2>3
  <1>27. Form9Setting => FieldsGuarded'
    <2> SUFFICES ASSUME Form9Setting, NEW t \in Tickets, NEW f, f = Form9Job(t)
                 PROVE  /\ job'[f].state = "absent" =>
                             fields'[t] = None /\ \A v \in Workers : cur'[v] # f
                        /\ job'[f].state = "delayed" => Tried(f)'
                        /\ job'[f].state = "waiting" /\ fields'[t] # None => Tried(f)'
                        /\ \A v \in Workers : cur'[v] = f =>
                             /\ HoldsLock(v, f)' \/ Tried(f)'
                             /\ fields'[t] # None /\ at'[v] \notin {"returned", "threw"}
                                  => Tried(f)'
      BY DEF FieldsGuarded
    <2>1. /\ job[f].state = "absent" =>
               fields[t] = None /\ \A v \in Workers : cur[v] # f
          /\ job[f].state = "delayed" => Tried(f)
          /\ job[f].state = "waiting" /\ fields[t] # None => Tried(f)
          /\ \A v \in Workers : cur[v] = f =>
               /\ HoldsLock(v, f) \/ Tried(f)
               /\ fields[t] # None /\ at[v] \notin {"returned", "threw"} => Tried(f)
      BY DEF ZohoInv, ZohoParts, FieldsGuarded
    <2>2. f \in Form9Jobs
      BY ZohoIds
    <2> QED BY <1>1, <1>2, <1>5, <2>1, <2>2 DEF HoldsLock, Tried
  <1> QED BY <1>20, <1>21, <1>22, <1>23, <1>24, <1>25, <1>26, <1>27
      DEF ZohoParts

LEMMA ZohoBegins == ProcessorsInit /\ ZohoInit => ZohoInv
  <1> SUFFICES ASSUME ProcessorsInit, ZohoInit PROVE ZohoInv
    OBVIOUS
  <1>1. ProcessorsInv
    BY ProcessorsInitInv
  <1>2. /\ \A id \in ZohoJobs : job[id].state = "absent" /\ job[id].stalls = 0
        /\ \A w \in Workers : at[w] = "idle" /\ cur[w] = None
        /\ faults = 0
    BY ZohoIds DEF ProcessorsInit, NoJob
  <1>3. /\ Drafts \subseteq ZohoJobs /\ Form9Jobs \subseteq ZohoJobs
        /\ Mails \subseteq Drafts /\ None \notin ZohoJobs
    BY ZohoIds DEF Drafts
  <1>4. \A t \in Tickets : Form9Job(t) \in ZohoJobs
    BY ZohoIds
  <1>5. /\ ready = TRUE /\ mails = {} /\ told = {} /\ adds = {} /\ covered = {}
        /\ seen = [w \in Workers |-> {}] /\ found = [w \in Workers |-> None]
        /\ comments = [id \in Drafts |-> 0] /\ fields = [t \in Tickets |-> None]
    BY DEF ZohoInit
  <1>6. ZohoPlaces /\ ZohoValues /\ Calm /\ MailsFollowed /\ Accounted /\ Commented
    BY <1>2, <1>3, <1>5
    DEF ZohoPlaces, ZohoValues, Calm, MailsFollowed, Accounted, Commented
  <1>7. CommentsCounted
    <2> SUFFICES ASSUME NEW id \in Drafts
                 PROVE  /\ comments[id] = 0 /\ \A w \in Workers : cur[w] # id
                        /\ comments[id] + Owed(id) <= 1 + faults
      BY DEF CommentsCounted
    <2>1. Attempting(id) = {} /\ ~ToBeRun(id)
      BY <1>2, <1>3 DEF Attempting, ToBeRun, Orphaned
    <2>2. Owed(id) = 0
      BY <2>1, FS_EmptySet DEF Owed
    <2> QED BY <1>2, <1>3, <1>5, <2>2
  <1>8. FieldsGuarded
    BY <1>2, <1>3, <1>4, <1>5 DEF FieldsGuarded
  <1> QED BY <1>1, <1>6, <1>7, <1>8 DEF ZohoInv, ZohoParts

LEMMA ZohoStep ==
  ASSUME ZohoInv, [ZohoNext]_zoho
  PROVE  ZohoInv'
  <1>1. ProcessorsInv'
    BY ZohoIsProcessors, ProcessorsStepInv DEF ZohoInv
  <1>2. ZohoParts'
    <2>1. CASE UNCHANGED zoho
      <3>1. UNCHANGED <<job, at, cur, faults, ready, mails, told, adds, seen, found,
                        comments, covered, fields>>
        BY <2>1 DEF zoho, zohoVars, queues, attempts
      <3>2. ZohoPlaces' /\ ZohoValues' /\ Calm' /\ MailsFollowed' /\ Accounted' /\ Commented'
        BY <3>1
        DEF ZohoInv, ZohoParts, ZohoPlaces, ZohoValues, Calm, MailsFollowed,
            Accounted, Commented, HoldsLock, Pending
      <3>3. DraftSetting => CommentsCounted'
        BY <3>1
        DEF ZohoInv, ZohoParts, CommentsCounted, Owed, Attempting, ToBeRun,
            Orphaned
      <3>4. Form9Setting => FieldsGuarded'
        BY <3>1 DEF ZohoInv, ZohoParts, FieldsGuarded, HoldsLock, Tried
      <3> QED BY <3>2, <3>3, <3>4 DEF ZohoParts
    <2>2. ASSUME NEW m \in Mails, Arrive(m) PROVE ZohoParts'
      BY <2>2, ArriveKeeps
    <2>3. ASSUME NEW b \in Bodies, NEW o \in Outcomes, HandleWebhook(b, o)
          PROVE  ZohoParts'
      BY <2>3, HandleWebhookKeeps
    <2>4. ASSUME NEW id \in ZohoJobs, \/ ZohoTimer(id)
                                      \/ \E o \in Outcomes : AddJob(id, o)
          PROVE  ZohoParts'
      BY <2>4, TicketTimerKeeps, AddJobKeeps
    <2>5. ASSUME NEW w \in Workers, ServeZoho(w) PROVE ZohoParts'
      BY <2>5, TakeTicketKeeps, GiveUpTicketKeeps DEF ServeZoho
    <2>6. ASSUME NEW w \in Workers, AttendZoho(w) PROVE ZohoParts'
      BY <2>6, ReadTicketKeeps, AddPrivateCommentKeeps,
         UpdateTicketCustomFieldsKeeps, EndTicketKeeps
      DEF AttendZoho
    <2>7. ASSUME NEW w \in Workers, NEW errs \in BOOLEAN,
                 \/ Draft(w, errs)
                 \/ \E r \in Treatments \cup {None} : Classify(w, r, errs)
          PROVE  ZohoParts'
      BY <2>7, DraftKeeps, ClassifyKeeps
    <2>8. CASE CrashZoho \/ Bootstrap
      BY <2>8, CrashZohoKeeps, BootstrapKeeps
    <2> QED BY <2>1, <2>2, <2>3, <2>4, <2>5, <2>6, <2>7, <2>8 DEF ZohoNext
  <1> QED BY <1>1, <1>2 DEF ZohoInv

LEMMA ZohoInductive == ZohoSpec => []ZohoInv
  <1>1. ZohoInv /\ [ZohoNext]_zoho => ZohoInv'
    BY ZohoStep
  <1> QED BY <1>1, ZohoBegins, PTL DEF ZohoSpec

(* A job comments once, and once more at most for every call that errors,  *)
(* lock that is lost or restart, and never completes without a comment:    *)
(* on however many processors, where the jobs considered are retained.     *)
THEOREM ZohoCommentsAreDue ==
  ASSUME DraftSetting
  PROVE  ZohoSpec => []CommentsAreDue
  <1>1. ZohoInv => CommentsAreDue
    <2> SUFFICES ASSUME ZohoInv, NEW id \in Drafts
                 PROVE  /\ comments[id] <= 1 + faults
                        /\ job[id].state = "completed" => comments[id] > 0
      BY DEF CommentsAreDue, OneCommentPerJob, CompletedIsCommented
    <2>1. /\ comments[id] \in Nat /\ faults \in Nat
          /\ comments[id] + Owed(id) <= 1 + faults
      BY DEF ZohoInv, ZohoParts, ZohoValues, CommentsCounted, ProcessorsInv
    <2>2. job[id].state = "completed" => comments[id] > 0
      BY DEF ZohoInv, ZohoParts, Commented
    <2>3. Owed(id) \in Nat
      <3>1. Attempting(id) \subseteq Workers /\ IsFiniteSet(Workers)
        BY DEF Attempting, DraftSetting
      <3>2. Cardinality(Attempting(id)) \in Nat
        BY <3>1, FS_Subset, FS_CardinalityType
      <3> QED BY <3>2 DEF Owed
    <2> QED BY <2>1, <2>2, <2>3
  <1> QED BY <1>1, ZohoInductive, PTL

(* In whatever order mails come, are reported and drafted, support has a   *)
(* comment about every reported mail when nothing failed and nothing is    *)
(* left to do.                                                             *)
THEOREM ZohoLeavesNoMail == ZohoSpec => []NoMailLeftBehind
  <1>1. ZohoInv => NoMailLeftBehind
    BY ZohoAssumption
    DEF ZohoInv, ZohoParts, Accounted, NoMailLeftBehind, Drafts
  <1> QED BY <1>1, ZohoInductive, PTL

(* Only a retry overwrites the fields of a ticket.                         *)
THEOREM ZohoFieldsAreFinal ==
  ASSUME Form9Setting
  PROVE  ZohoSpec => FieldsAreFinal
  <1> DEFINE Final == \A t \in Tickets : fields[t] # None /\ fields'[t] # fields[t]
                        => job[Form9Job(t)].made + job[Form9Job(t)].stalls > 0
  <1>1. ASSUME ZohoInv, [ZohoNext]_zoho PROVE [Final]_zoho
    <2>1. CASE UNCHANGED fields
      BY <2>1
    <2>2. ASSUME NEW w \in Workers, NEW o, UpdateTicketCustomFields(w, o)
          PROVE  Final
      <3> SUFFICES ASSUME NEW t \in Tickets, fields[t] # None, fields'[t] # fields[t]
                   PROVE  Tried(Form9Job(t))
        BY DEF Tried
      <3>1. cur[w] \in Form9Jobs /\ at[w] = "updating"
        BY <1>1, <2>2
        DEF UpdateTicketCustomFields, ZohoInv, ZohoParts, ZohoPlaces
      <3>2. TicketAt(w) = cur[w][2] /\ cur[w] = Form9Job(cur[w][2])
        BY <3>1, ZohoIds DEF TicketAt, Drafts
      <3>3. t = cur[w][2]
        BY <2>2, <3>2
        DEF UpdateTicketCustomFields, ZohoInv, ZohoParts, ZohoValues
      <3> QED BY <1>1, <3>1, <3>2, <3>3 DEF ZohoInv, ZohoParts, FieldsGuarded
    <2>3. ASSUME NEW w \in Workers, AttendZoho(w) PROVE UNCHANGED fields \/ Final
      <3>1. ASSUME NEW o, ReadTicket(w, o) \/ AddPrivateComment(w, o)
            PROVE  UNCHANGED fields
        BY <3>1 DEF ReadTicket, AddPrivateComment
      <3>2. CASE EndTicket(w)
        BY <3>2 DEF EndTicket
      <3> HIDE DEF Final
      <3> QED BY <2>2, <2>3, <3>1, <3>2 DEF AttendZoho
    <2>4. ASSUME NEW w \in Workers, ServeZoho(w) PROVE UNCHANGED fields
      BY <2>4 DEF ServeZoho, TakeTicket, zohoVars
    <2>5. ASSUME NEW w \in Workers, NEW errs \in BOOLEAN,
                 \/ Draft(w, errs)
                 \/ \E r \in Treatments \cup {None} : Classify(w, r, errs)
          PROVE  UNCHANGED fields
      BY <2>5 DEF Draft, Classify, zohoVars
    <2>6. ASSUME NEW id \in ZohoJobs, \/ ZohoTimer(id)
                                      \/ \E o \in Outcomes : AddJob(id, o)
          PROVE  UNCHANGED fields
      BY <2>6 DEF ZohoTimer, AddJob, zohoVars
    <2>7. ASSUME NEW b, NEW o, HandleWebhook(b, o) PROVE UNCHANGED fields
      BY <2>7 DEF HandleWebhook
    <2>8. ASSUME NEW m, Arrive(m) PROVE UNCHANGED fields
      BY <2>8 DEF Arrive
    <2>9. CASE CrashZoho \/ Bootstrap
      BY <2>9 DEF CrashZoho, Bootstrap
    <2> HIDE DEF Final
    <2> QED BY <1>1, <2>1, <2>3, <2>4, <2>5, <2>6, <2>7, <2>8, <2>9
        DEF ZohoNext
  <1> QED BY <1>1, ZohoInductive, PTL DEF ZohoSpec, FieldsAreFinal

(* Its two queues behave as JobQueues.                                     *)
THEOREM ZohoQueuesAreJobQueues == ZohoSpec => QueuesAreJobQueues
  <1>1. ZohoInv /\ [ZohoNext]_zoho => [ProcessorsNext]_<<queues, attempts, faults>>
    BY ZohoIsProcessors
  <1> QED BY <1>1, ZohoInductive, ProcessorsAreJobQueues, PTL DEF ZohoSpec

-----------------------------------------------------------------------------
(* The coding agent.                                                       *)

CodingJobs == Tasks \cup Runs

TaskPlaces == {"preparing", "finding", "opening", "generating", "stopping", "saving",
               "writing", "summarizing"}

CodingPlaces ==
    \A w \in Workers :
      /\ cur[w] \in CodingJobs \cup {None}
      /\ at[w] \in TaskPlaces => cur[w] \in Tasks
      /\ at[w] = "posting_summary" => cur[w] \in Runs
      /\ cur[w] \in Tasks => ran[cur[w]] > 0

(* An attempt at a task that began ended as an attempt made or a stall, or *)
(* is the one in progress.                                                 *)
RunsCounted ==
    \A t \in Tasks :
      /\ job[t].state \in {"waiting", "delayed"} => ran[t] <= job[t].made + job[t].stalls
      /\ job[t].state = "active" => ran[t] <= 1 + job[t].made + job[t].stalls

(* A summary that is posted or being posted was reported.                  *)
PostsReported ==
    /\ \A r \in Runs : job[r].state = "completed" => r \in shown
    /\ \A w \in Workers : cur[w] \in Runs =>
         /\ Reported(cur[w])
         /\ at[w] = "returned" => cur[w] \in shown

(* What a session of the thread knows: every reported task, and tasks of   *)
(* the thread alone, whose work was done in the session's repository; all  *)
(* but the work that could not be read.                                    *)
Remembers(th, memory) ==
    \A r \in Runs : Reported(r) /\ ThreadOf[r[1]] = th => r[1] \in memory \cup unread[th]

OfOneRepo(th, memory, repo) ==
    \A t \in memory : ThreadOf[t] = th /\ (t \notin unread[th] => used[t] = repo)

ThreadFollows(th) ==
    /\ file[th].state = "none" => Remembers(th, {})
    /\ file[th].state = "saved" => /\ Remembers(th, file[th].memory)
                                   /\ OfOneRepo(th, file[th].memory, file[th].repo)

WorkerFollows(w) ==
    /\ at[w] \in {"opening", "generating", "stopping", "saving", "writing"} =>
         /\ Remembers(ThreadAt(w), session[w].memory)
         /\ OfOneRepo(ThreadAt(w), session[w].memory, session[w].repo)
         /\ file[ThreadAt(w)].state = "saved" =>
              OfOneRepo(ThreadAt(w), file[ThreadAt(w)].memory, session[w].repo)
    /\ at[w] = "stopping" => used[cur[w]] = session[w].repo
    /\ at[w] \in {"saving", "writing"} => cur[w] \in session[w].memory
    /\ at[w] = "summarizing" => /\ file[ThreadAt(w)].state = "saved"
                                /\ cur[w] \in file[ThreadAt(w)].memory

SessionsFollow ==
    /\ \A th \in Threads : ThreadFollows(th)
    /\ \A w \in Workers : WorkerFollows(w)

(* What returns has queued its summary.                                    *)
Summarized(t) == \E r \in Runs : r[1] = t /\ job[r].state # "absent"

SummariesQueued ==
    \A t \in Tasks :
      /\ job[t].state = "completed" => Summarized(t)
      /\ \A w \in Workers : cur[w] = t /\ at[w] = "returned" => Summarized(t)

(* An agent that is left behind is that of a task in trouble; an attempt   *)
(* that stopped its own has none.                                          *)
LeftoversTried ==
    /\ \A w \in Workers : cur[w] \in Tasks => HoldsLock(w, cur[w]) \/ Tried(cur[w])
    /\ \A w \in Workers : \A r \in live[w] :
         (cur[w] # None /\ r = Run(w)) \/ Tried(r[1])
    /\ \A w \in Workers :
         cur[w] \in Tasks /\ at[w] \in {"saving", "writing", "summarizing", "returned"}
           => Run(w) \notin live[w]

(* Where the theorems about sessions, summaries and leftovers speak: the   *)
(* coding worker runs in one instance, as its disk is attached to one, and *)
(* the queues retain all jobs of the time considered.                      *)
SessionSetting == OneProcessor(TaskQueue)
SummarySetting == KeepsAll(SummaryQueue)
TaskSetting == OneProcessor(TaskQueue) /\ KeepsAll(TaskQueue)

CodingParts ==
    /\ CodingPlaces /\ CodingTypeOK /\ RunsCounted /\ PostsReported
    /\ SessionSetting => SessionsFollow
    /\ SummarySetting => SummariesQueued
    /\ TaskSetting => LeftoversTried

CodingInv == ProcessorsInv /\ CodingParts

(* The ids of the two queues, and what they stand for.                     *)
LEMMA CodingIds ==
  /\ CodingJobs \subseteq Jobs /\ None \notin CodingJobs /\ Tasks \cap Runs = {}
  /\ \A r \in Runs : r[1] \in Tasks /\ r[2] \in 1..MaxRuns /\ r = <<r[1], r[2]>>
  /\ \A t \in Tasks : \A i \in 1..MaxRuns : <<t, i>> \in Runs
  /\ \A t \in Tasks : /\ ThreadOf[t] \in Threads /\ RepoOf[t] \in Repos
                      /\ QueueOf[t] = TaskQueue
                      /\ AttemptsOf[TaskQueue] \in Nat /\ MaxRuns \in Nat
  /\ \A r \in Runs : QueueOf[r] = SummaryQueue
  /\ MaxStalls \in Nat /\ MaxRuns = AttemptsOf[TaskQueue] + MaxStalls
  <1>1. TaskQueue # SummaryQueue
    BY DEF TaskQueue, SummaryQueue
  <1>2. Tasks \cap Runs = {}
    BY <1>1, CodingAssumption
  <1>4. CodingJobs \subseteq Jobs /\ None \notin CodingJobs
    BY CodingAssumption, ProcessorsAssumption DEF CodingJobs
  <1> QED BY <1>2, <1>4, CodingAssumption, ProcessorsAssumption DEF Runs

(* The run that a processor is at.                                         *)
LEMMA RunAt ==
  ASSUME CodingInv, NEW w \in Workers, cur[w] \in Tasks
  PROVE  /\ Run(w) \in Runs /\ Run(w)[1] = cur[w] /\ ThreadAt(w) \in Threads
         /\ at[w] # "idle" /\ ServedBy[w] = TaskQueue
  <1>1. ran[cur[w]] \in 1..MaxRuns
    BY DEF CodingInv, CodingParts, CodingPlaces, CodingTypeOK
  <1>2. at[w] # "idle" /\ ServedBy[w] = TaskQueue
    BY CodingIds, ProcessorsAssumption
    DEF CodingInv, ProcessorsInv, Busy, CodingJobs
  <1> QED BY <1>1, <1>2, CodingIds DEF Run, ThreadAt

LEMMA OneTaskAtATime ==
  ASSUME CodingInv, SessionSetting, NEW w \in Workers, cur[w] \in Tasks
  PROVE  \A v \in Workers : cur[v] \in Tasks => v = w
  BY RunAt DEF SessionSetting, OneProcessor

(* Every step is one of the processors' in general.                        *)
LEMMA CodingIsProcessors ==
  ASSUME CodingInv, [CodingNext]_coding
  PROVE  [ProcessorsNext]_<<queues, attempts, faults>>
  <1> DEFINE Step == ProcessorsNext \/ UNCHANGED <<queues, attempts, faults>>
             Awaits == CodingAwaits \cup {"returned", "threw"}
  <1>0. Awaits \subseteq Places \ {"idle"}
    BY CodingAssumption, ProcessorsAssumption DEF CodingAwaits
  <1>1. ASSUME NEW w \in Workers, NEW place \in Awaits, GoTo(w, place), UNCHANGED cur,
               AddStep, at[w] # "idle", UNCHANGED faults \/ Mishap
        PROVE  Step
    BY <1>0, <1>1 DEF MoveStep, FaultStep, ProcessorsNext
  <1>2. ASSUME NEW o, Outcome(o) PROVE UNCHANGED faults \/ Mishap
    BY <1>2 DEF Outcome
  <1>3. ASSUME NEW o, NEW id \in Jobs, TryEnqueue(id, o) PROVE AddStep
    BY <1>3 DEF TryEnqueue, AddStep
  <1>4. UNCHANGED queues => AddStep
    BY DEF AddStep
  <1>5. CASE UNCHANGED coding
    BY <1>5 DEF coding
  <1>6. ASSUME NEW t \in Tasks, NEW o, Delegate(t, o) PROVE Step
    <2>1. AddStep
      BY <1>3, <1>6, CodingIds DEF Delegate, CodingJobs
    <2> QED BY <1>2, <1>6, <2>1
        DEF Delegate, attempts, MoveStep, FaultStep, ProcessorsNext
  <1>7. ASSUME NEW id \in CodingJobs, CodingTimer(id) PROVE Step
    BY <1>7, CodingIds DEF CodingTimer, ProcessorsNext
  <1>8. ASSUME NEW w \in Workers, ServeCoding(w) PROVE Step
    <2>1. ASSUME NEW t \in Tasks, TakeTask(w, t) PROVE Step
      <3>1. t \in Jobs
        BY CodingIds DEF CodingJobs
      <3> QED BY <1>0, <2>1, <3>1 DEF TakeTask, ProcessorsNext, CodingAwaits
    <2>2. ASSUME NEW r \in Runs, TakeSummary(w, r) PROVE Step
      <3>1. r \in Jobs
        BY CodingIds DEF CodingJobs
      <3> QED BY <1>0, <2>2, <3>1 DEF TakeSummary, ProcessorsNext, CodingAwaits
    <2>3. ASSUME NEW id \in CodingJobs, GiveUp(w, id) PROVE Step
      BY <2>3, CodingIds DEF ProcessorsNext
    <2> HIDE DEF Step
    <2> QED BY <1>8, <2>1, <2>2, <2>3 DEF ServeCoding, CodingJobs
  <1>9. ASSUME NEW w \in Workers, AttendCoding(w) PROVE Step
    <2>1. ASSUME NEW o, \/ MakeWorkspace(w, o) \/ FindSession(w, o) \/ OpenSession(w, o) \/ StopSession(w, o)
                        \/ Truncate(w, o) \/ WriteOut(w, o) \/ PostSummary(w, o)
          PROVE Step
      <3>1. /\ UNCHANGED cur /\ AddStep /\ (UNCHANGED faults \/ Mishap)
            /\ at[w] # "idle"
        BY <1>2, <1>4, <2>1
        DEF MakeWorkspace, FindSession, OpenSession, StopSession, Truncate, WriteOut,
            PostSummary
      <3>2. \E place \in Awaits : GoTo(w, place)
        BY <2>1
        DEF MakeWorkspace, FindSession, OpenSession, StopSession, Truncate, WriteOut,
            PostSummary, CodingAwaits
      <3> QED BY <1>1, <3>1, <3>2
    <2>2. ASSUME NEW o, Summarize(w, o) PROVE Step
      <3>1. cur[w] \in Tasks
        BY <2>2 DEF Summarize, CodingInv, CodingParts, CodingPlaces, TaskPlaces
      <3>2. Run(w) \in Jobs
        BY <3>1, RunAt, CodingIds DEF CodingJobs
      <3>3. AddStep
        BY <1>3, <2>2, <3>2 DEF Summarize
      <3> QED BY <1>1, <1>2, <2>2, <3>3 DEF Summarize, CodingAwaits
    <2>3. CASE EndCoding(w)
      BY <2>3 DEF EndCoding, ProcessorsNext
    <2> HIDE DEF Step
    <2> QED BY <1>9, <2>1, <2>2, <2>3 DEF AttendCoding, Step
  <1>10. ASSUME NEW w \in Workers, NEW ok, Generate(w, ok) PROVE Step
    BY <1>1, <1>4, <1>10 DEF Generate, CodingAwaits
  <1>11. ASSUME NEW w \in Workers, CrashCoding(w) PROVE Step
    BY <1>11 DEF CrashCoding, ProcessorsNext
  <1> HIDE DEF Step
  <1>12. ASSUME CodingNext PROVE Step
    BY <1>6, <1>7, <1>8, <1>9, <1>10, <1>11, <1>12
    DEF CodingNext, CodingJobs, Step
  <1>13. Step
    BY <1>5, <1>12 DEF Step
  <1> QED BY <1>13 DEF Step

(* A processor that goes on to another place.                              *)
LEMMA Moves ==
  ASSUME CodingInv, NEW w \in Workers, NEW place, GoTo(w, place)
  PROVE  \A v \in Workers : at'[v] = IF v = w THEN place ELSE at[v]
  BY DEF GoTo, CodingInv, ProcessorsInv, Busy

(* The places of a task's attempt.                                         *)
LEMMA MakeWorkspaceKeeps ==
  ASSUME CodingInv, NEW w \in Workers, NEW o \in Outcomes, MakeWorkspace(w, o)
  PROVE  CodingParts'
  <1>1. /\ job' = job /\ cur' = cur /\ file' = file /\ session' = session
        /\ ran' = ran /\ live' = live /\ used' = used /\ shown' = shown
        /\ unread' = unread
        /\ at[w] = "preparing"
    BY DEF MakeWorkspace, queues, codingVars
  <1>2. /\ \A v \in Workers : v # w => at'[v] = at[v]
        /\ at'[w] \in {"finding", "threw"}
    BY Moves DEF MakeWorkspace
  <1>3. cur[w] \in Tasks /\ \A r \in Runs : r # cur[w]
    BY <1>1, CodingIds DEF CodingInv, CodingParts, CodingPlaces, TaskPlaces
  <1>20. CodingPlaces'
    BY <1>1, <1>2, <1>3 DEF CodingPlaces, CodingInv, CodingParts, TaskPlaces
  <1>21. CodingTypeOK'
    BY <1>1 DEF CodingTypeOK, CodingInv, CodingParts
  <1>22. RunsCounted'
    BY <1>1 DEF RunsCounted, CodingInv, CodingParts
  <1>23. PostsReported'
    BY <1>1, <1>2, <1>3 DEF PostsReported, CodingInv, CodingParts, Reported
  <1>24. SessionSetting => SessionsFollow'
    <2> SUFFICES ASSUME SessionSetting PROVE SessionsFollow'
      OBVIOUS
    <2>1. SessionsFollow
      BY DEF CodingInv, CodingParts
    <2>2. \A th \in Threads : ThreadFollows(th)'
      BY <1>1, <2>1
      DEF SessionsFollow, ThreadFollows, Remembers, OfOneRepo, Reported
    <2>3. WorkerFollows(w)'
      BY <1>2 DEF WorkerFollows
    <2>4. ASSUME NEW v \in Workers, v # w PROVE WorkerFollows(v)'
      <3>1. at'[v] = at[v]
        BY <1>2, <2>4
      <3> QED BY <1>1, <2>1, <3>1
          DEF SessionsFollow, WorkerFollows, Remembers, OfOneRepo, Reported, ThreadAt
    <2> QED BY <2>2, <2>3, <2>4 DEF SessionsFollow
  <1>25. SummarySetting => SummariesQueued'
    BY <1>1, <1>2, <1>3 DEF SummariesQueued, CodingInv, CodingParts, Summarized
  <1>26. TaskSetting => LeftoversTried'
    BY <1>1, <1>2, <1>3
    DEF LeftoversTried, CodingInv, CodingParts, HoldsLock, Tried, Run
  <1> QED BY <1>20, <1>21, <1>22, <1>23, <1>24, <1>25, <1>26
      DEF CodingParts, SessionSetting, SummarySetting, TaskSetting, KeepsAll,
          OneProcessor, JobsOf

LEMMA FindSessionKeeps ==
  ASSUME CodingInv, NEW w \in Workers, NEW o \in Outcomes, FindSession(w, o)
  PROVE  CodingParts'
  <1>1. /\ job' = job /\ cur' = cur /\ file' = file /\ ran' = ran
        /\ live' = live /\ used' = used /\ shown' = shown
        /\ at[w] = "finding"
    BY DEF FindSession, queues
  <1>2. /\ \A v \in Workers : v # w => at'[v] = at[v]
        /\ at'[w] \in {"opening", "threw"}
    BY Moves DEF FindSession
  <1>3. cur[w] \in Tasks /\ \A r \in Runs : r # cur[w]
    BY <1>1, CodingIds DEF CodingInv, CodingParts, CodingPlaces, TaskPlaces
  <1>4. Run(w) \in Runs /\ Run(w)[1] = cur[w] /\ ThreadAt(w) \in Threads
    BY <1>3, RunAt
  <1>5. SessionSetting => \A v \in Workers : cur[v] \in Tasks => v = w
    BY <1>3, OneTaskAtATime
  <1>6. \A r \in Runs : Reported(r)' <=> Reported(r)
    BY <1>1, <1>3 DEF Reported
  <1>7. LET f == Found(ThreadAt(w), o)
            new == [NoSession EXCEPT !.repo = RepoOf[cur[w]]]
        IN  session' = [session EXCEPT ![w] = IF f.state = "none" THEN new ELSE f]
    BY DEF FindSession
  <1>8. /\ session' \in [Workers -> Sessions]
        /\ \A v \in Workers : v # w => session'[v] = session[v]
        /\ o # "ok" \/ file[ThreadAt(w)].state = "none" => session'[w].memory = {}
        /\ o = "ok" /\ file[ThreadAt(w)].state # "none" => session'[w] = file[ThreadAt(w)]
    BY <1>4, <1>7, CodingIds
    DEF CodingInv, CodingParts, CodingTypeOK, Sessions, NoSession, Found
  <1>9. at'[w] = "opening" /\ o = "ok" => file[ThreadAt(w)].state # "torn"
    BY Moves DEF FindSession, Found
  <1>10. /\ unread' \in [Threads -> SUBSET Tasks]
         /\ \A th \in Threads : unread[th] \subseteq unread'[th]
         /\ o # "ok" => /\ file[ThreadAt(w)].memory \subseteq unread'[ThreadAt(w)]
                        /\ Remembers(ThreadAt(w), {})'
    <2> DEFINE Left == file[ThreadAt(w)].memory \cup
                 {r[1] : r \in {x \in Runs : Reported(x) /\ ThreadOf[x[1]] = ThreadAt(w)}}
    <2>1. unread \in [Threads -> SUBSET Tasks] /\ Left \in SUBSET Tasks
      BY <1>4, CodingIds DEF CodingInv, CodingParts, CodingTypeOK, Sessions
    <2>2. /\ o = "ok" => unread' = unread
          /\ o # "ok" => unread' = [unread EXCEPT ![ThreadAt(w)] = unread[ThreadAt(w)] \cup Left]
      BY DEF FindSession, NotePassedOver
    <2>3. /\ unread' \in [Threads -> SUBSET Tasks]
          /\ \A th \in Threads : unread[th] \subseteq unread'[th]
          /\ o # "ok" => Left \subseteq unread'[ThreadAt(w)]
      <3> HIDE DEF Left
      <3> QED BY <1>4, <2>1, <2>2
    <2>4. \A r \in Runs : Reported(r) /\ ThreadOf[r[1]] = ThreadAt(w) => r[1] \in Left
      OBVIOUS
    <2>5. ThreadAt(w)' = ThreadAt(w)
      BY <1>1 DEF ThreadAt
    <2>6. o # "ok" => Remembers(ThreadAt(w), {})'
      <3> HIDE DEF Left
      <3> QED BY <1>6, <2>3, <2>4, <2>5 DEF Remembers
    <2> QED BY <2>3, <2>6
  <1>20. CodingPlaces'
    BY <1>1, <1>2, <1>3 DEF CodingPlaces, CodingInv, CodingParts, TaskPlaces
  <1>21. CodingTypeOK'
    BY <1>1, <1>2, <1>3, <1>8, <1>10 DEF CodingTypeOK, CodingInv, CodingParts
  <1>22. RunsCounted'
    BY <1>1, <1>2, <1>3 DEF RunsCounted, CodingInv, CodingParts
  <1>23. PostsReported'
    BY <1>1, <1>2, <1>3 DEF PostsReported, CodingInv, CodingParts, Reported
  <1>24. SessionSetting => SessionsFollow'
    <2> SUFFICES ASSUME SessionSetting PROVE SessionsFollow'
      OBVIOUS
    <2>1. SessionsFollow
      BY DEF CodingInv, CodingParts
    <2>2. \A th \in Threads : \A m \in SUBSET Tasks : Remembers(th, m) => Remembers(th, m)'
      BY <1>2, <1>3, <1>6, <1>10 DEF Remembers
    <2>3. /\ \A th \in Threads : file[th].memory \in SUBSET Tasks
          /\ \A v \in Workers : session[v].memory \in SUBSET Tasks
          /\ ThreadAt(w)' = ThreadAt(w)
      BY <1>1, <1>2, <1>3
      DEF CodingInv, CodingParts, CodingTypeOK, Sessions, ThreadAt
    <2>4. \A v \in Workers : v # w => at'[v] \notin TaskPlaces
      BY <1>2, <1>3, <1>5 DEF CodingInv, CodingParts, CodingPlaces
    <2>5. \A th \in Threads : ThreadFollows(th)'
      BY <1>1, <1>2, <1>3, <1>4, <1>5, <1>6, <1>10, <2>1, <2>2, <2>3
      DEF SessionsFollow, ThreadFollows, OfOneRepo
    <2>6. WorkerFollows(w)'
      <3>1. CASE at'[w] # "opening"
        BY <1>2, <3>1 DEF WorkerFollows
      <3>2. CASE at'[w] = "opening" /\ o # "ok"
        <4>1. Remembers(ThreadAt(w), session[w].memory)'
          BY <1>8, <1>10, <2>3, <3>2 DEF Remembers
        <4>2. OfOneRepo(ThreadAt(w), session[w].memory, session[w].repo)'
          BY <1>8, <3>2 DEF OfOneRepo
        <4>3. file[ThreadAt(w)].state = "saved" =>
                OfOneRepo(ThreadAt(w), file[ThreadAt(w)].memory, session[w].repo)'
          BY <1>1, <1>4, <1>10, <2>1, <2>3, <3>2
          DEF SessionsFollow, ThreadFollows, OfOneRepo
        <4> QED BY <1>1, <2>3, <3>2, <4>1, <4>2, <4>3 DEF WorkerFollows
      <3>3. CASE at'[w] = "opening" /\ o = "ok" /\ file[ThreadAt(w)].state = "none"
        <4>1. Remembers(ThreadAt(w), session[w].memory)'
          BY <1>1, <1>4, <1>8, <2>1, <2>2, <2>3, <3>3
          DEF SessionsFollow, ThreadFollows
        <4> QED BY <1>1, <1>8, <2>3, <3>3, <4>1 DEF WorkerFollows, OfOneRepo
      <3>4. CASE at'[w] = "opening" /\ o = "ok" /\ file[ThreadAt(w)].state = "saved"
        <4>1. /\ Remembers(ThreadAt(w), session[w].memory)'
              /\ OfOneRepo(ThreadAt(w), session[w].memory, session[w].repo)'
          BY <1>1, <1>4, <1>8, <1>10, <2>1, <2>2, <2>3, <3>4
          DEF SessionsFollow, ThreadFollows, OfOneRepo
        <4> QED BY <1>1, <1>8, <2>3, <3>4, <4>1 DEF WorkerFollows
      <3> QED BY <1>4, <1>9, <3>1, <3>2, <3>3, <3>4
          DEF CodingInv, CodingParts, CodingTypeOK, Sessions
    <2>7. \A v \in Workers : v # w => WorkerFollows(v)'
      BY <2>4 DEF WorkerFollows, TaskPlaces
    <2> QED BY <2>5, <2>6, <2>7 DEF SessionsFollow
  <1>25. SummarySetting => SummariesQueued'
    BY <1>1, <1>2, <1>3 DEF SummariesQueued, CodingInv, CodingParts, Summarized
  <1>26. TaskSetting => LeftoversTried'
    BY <1>1, <1>2, <1>3
    DEF LeftoversTried, CodingInv, CodingParts, HoldsLock, Tried, Run
  <1> QED BY <1>20, <1>21, <1>22, <1>23, <1>24, <1>25, <1>26
      DEF CodingParts, SessionSetting, SummarySetting, TaskSetting, KeepsAll,
          OneProcessor, JobsOf

LEMMA OpenSessionKeeps ==
  ASSUME CodingInv, NEW w \in Workers, NEW o \in Outcomes, OpenSession(w, o)
  PROVE  CodingParts'
  <1>1. /\ job' = job /\ cur' = cur /\ file' = file /\ session' = session
        /\ ran' = ran /\ unread' = unread /\ used' = used /\ shown' = shown
        /\ at[w] = "opening"
    BY DEF OpenSession, queues
  <1>2. /\ \A v \in Workers : v # w => at'[v] = at[v]
        /\ at'[w] \in {"generating", "threw"}
    BY Moves DEF OpenSession
  <1>3. cur[w] \in Tasks /\ \A r \in Runs : r # cur[w]
    BY <1>1, CodingIds DEF CodingInv, CodingParts, CodingPlaces, TaskPlaces
  <1>4. Run(w) \in Runs /\ Run(w)[1] = cur[w] /\ ThreadAt(w) \in Threads
    BY <1>3, RunAt
  <1>5. SessionSetting => \A v \in Workers : cur[v] \in Tasks => v = w
    BY <1>3, OneTaskAtATime
  <1>6. \A r \in Runs : Reported(r)' <=> Reported(r)
    BY <1>1, <1>3 DEF Reported
  <1>7. live' = live \/ live' = [live EXCEPT ![w] = live[w] \cup {Run(w)}]
    BY DEF OpenSession
  <1>8. /\ live' \in [Workers -> SUBSET Runs]
        /\ \A v \in Workers : v # w => live'[v] = live[v]
        /\ live'[w] \subseteq live[w] \cup {Run(w)}
    BY <1>4, <1>7 DEF CodingInv, CodingParts, CodingTypeOK
  <1>20. CodingPlaces'
    BY <1>1, <1>2 DEF CodingPlaces, CodingInv, CodingParts, TaskPlaces
  <1>21. CodingTypeOK'
    BY <1>1, <1>2, <1>8 DEF CodingTypeOK, CodingInv, CodingParts
  <1>22. RunsCounted'
    BY <1>1, <1>2 DEF RunsCounted, CodingInv, CodingParts
  <1>23. PostsReported'
    BY <1>1, <1>2 DEF PostsReported, CodingInv, CodingParts, Reported
  <1>24. SessionSetting => SessionsFollow'
    <2> SUFFICES ASSUME SessionSetting PROVE SessionsFollow'
      OBVIOUS
    <2>1. SessionsFollow
      BY DEF CodingInv, CodingParts
    <2>2. \A th \in Threads : \A m \in SUBSET Tasks : Remembers(th, m) => Remembers(th, m)'
      BY <1>1, <1>6 DEF Remembers
    <2>3. /\ \A th \in Threads : file[th].memory \in SUBSET Tasks
          /\ \A v \in Workers : session[v].memory \in SUBSET Tasks
          /\ ThreadAt(w)' = ThreadAt(w)
      BY <1>1, <1>2, <1>3
      DEF CodingInv, CodingParts, CodingTypeOK, Sessions, ThreadAt
    <2>4. \A v \in Workers : v # w => at'[v] \notin TaskPlaces
      BY <1>2, <1>3, <1>5 DEF CodingInv, CodingParts, CodingPlaces
    <2>5. \A th \in Threads : ThreadFollows(th)'
      BY <1>1, <1>2, <1>3, <1>4, <1>5, <2>1, <2>2, <2>3
      DEF SessionsFollow, ThreadFollows, OfOneRepo
    <2>6. WorkerFollows(w)'
      BY <1>1, <1>2, <1>3, <1>4, <1>5, <2>1, <2>2, <2>3
      DEF SessionsFollow, WorkerFollows, OfOneRepo
    <2>7. \A v \in Workers : v # w => WorkerFollows(v)'
      BY <2>4 DEF WorkerFollows, TaskPlaces
    <2> QED BY <2>5, <2>6, <2>7 DEF SessionsFollow
  <1>25. SummarySetting => SummariesQueued'
    BY <1>1, <1>2 DEF SummariesQueued, CodingInv, CodingParts, Summarized
  <1>26. TaskSetting => LeftoversTried'
    <2> SUFFICES ASSUME TaskSetting PROVE LeftoversTried'
      OBVIOUS
    <2>1. LeftoversTried
      BY DEF CodingInv, CodingParts
    <2>2. \A v \in Workers : Run(v)' = Run(v)
      BY <1>1 DEF Run
    <2>3. /\ \A v \in Workers : at'[v] \in {"saving", "writing", "summarizing", "returned"}
                                 => at[v] = at'[v] /\ v # w
          /\ None \notin Tasks
      BY <1>2, CodingIds DEF CodingJobs
    <2>4. \A v \in Workers : \A r \in live'[v] : r \in live[v] \/ (v = w /\ r = Run(w))
      BY <1>8
    <2>5. \A v \in Workers : \A r \in live'[v] : (cur[v] # None /\ r = Run(v)) \/ Tried(r[1])
      BY <1>3, <2>1, <2>3, <2>4 DEF LeftoversTried
    <2>6. \A v \in Workers :
            cur[v] \in Tasks /\ at'[v] \in {"saving", "writing", "summarizing", "returned"}
              => Run(v) \notin live'[v]
      BY <1>8, <2>1, <2>3 DEF LeftoversTried
    <2> QED BY <1>1, <2>1, <2>2, <2>5, <2>6
        DEF LeftoversTried, HoldsLock, Tried
  <1> QED BY <1>20, <1>21, <1>22, <1>23, <1>24, <1>25, <1>26
      DEF CodingParts, SessionSetting, SummarySetting, TaskSetting, KeepsAll,
          OneProcessor, JobsOf

LEMMA GenerateKeeps ==
  ASSUME CodingInv, NEW w \in Workers, NEW ok, Generate(w, ok)
  PROVE  CodingParts'
  <1>1. /\ job' = job /\ cur' = cur /\ file' = file /\ session' = session
        /\ ran' = ran /\ unread' = unread /\ live' = live /\ shown' = shown
        /\ at[w] = "generating"
    BY DEF Generate, queues
  <1>2. /\ \A v \in Workers : v # w => at'[v] = at[v]
        /\ at'[w] \in {"stopping", "threw"}
    BY Moves DEF Generate
  <1>3. cur[w] \in Tasks /\ \A r \in Runs : r # cur[w]
    BY <1>1, CodingIds DEF CodingInv, CodingParts, CodingPlaces, TaskPlaces
  <1>4. Run(w) \in Runs /\ Run(w)[1] = cur[w] /\ ThreadAt(w) \in Threads
    BY <1>3, RunAt
  <1>5. SessionSetting => \A v \in Workers : cur[v] \in Tasks => v = w
    BY <1>3, OneTaskAtATime
  <1>6. \A r \in Runs : Reported(r)' <=> Reported(r)
    BY <1>1, <1>3 DEF Reported
  <1>7. used' = [used EXCEPT ![cur[w]] = session[w].repo]
    BY DEF Generate
  <1>8. /\ used' \in [Tasks -> Repos \cup {None}]
        /\ used'[cur[w]] = session[w].repo
        /\ \A t \in Tasks : t # cur[w] => used'[t] = used[t]
    BY <1>3, <1>7 DEF CodingInv, CodingParts, CodingTypeOK, Sessions
  <1>20. CodingPlaces'
    BY <1>1, <1>2 DEF CodingPlaces, CodingInv, CodingParts, TaskPlaces
  <1>21. CodingTypeOK'
    BY <1>1, <1>2, <1>8 DEF CodingTypeOK, CodingInv, CodingParts
  <1>22. RunsCounted'
    BY <1>1, <1>2 DEF RunsCounted, CodingInv, CodingParts
  <1>23. PostsReported'
    BY <1>1, <1>2 DEF PostsReported, CodingInv, CodingParts, Reported
  <1>24. SessionSetting => SessionsFollow'
    <2> SUFFICES ASSUME SessionSetting PROVE SessionsFollow'
      OBVIOUS
    <2>1. SessionsFollow
      BY DEF CodingInv, CodingParts
    <2>2. \A th \in Threads : \A m \in SUBSET Tasks : Remembers(th, m) => Remembers(th, m)'
      BY <1>1, <1>6 DEF Remembers
    <2>3. /\ \A th \in Threads : file[th].memory \in SUBSET Tasks
          /\ \A v \in Workers : session[v].memory \in SUBSET Tasks
          /\ ThreadAt(w)' = ThreadAt(w)
      BY <1>1, <1>2, <1>3
      DEF CodingInv, CodingParts, CodingTypeOK, Sessions, ThreadAt
    <2>4. \A v \in Workers : v # w => at'[v] \notin TaskPlaces
      BY <1>2, <1>3, <1>5 DEF CodingInv, CodingParts, CodingPlaces
    <2>5. \A th \in Threads : ThreadFollows(th)'
      <3> SUFFICES ASSUME NEW th \in Threads, file[th].state = "saved"
                   PROVE  OfOneRepo(th, file[th].memory, file[th].repo)'
        BY <1>1, <2>1, <2>2, <2>3 DEF SessionsFollow, ThreadFollows
      <3>1. OfOneRepo(th, file[th].memory, file[th].repo)
        BY <2>1 DEF SessionsFollow, ThreadFollows
      <3>2. th = ThreadAt(w) => OfOneRepo(th, file[th].memory, session[w].repo)
        BY <1>1, <2>1 DEF SessionsFollow, WorkerFollows
      <3> QED BY <1>1, <1>8, <2>3, <3>1, <3>2 DEF OfOneRepo, ThreadAt
    <2>6. WorkerFollows(w)'
      BY <1>1, <1>2, <1>3, <1>4, <1>5, <1>8, <2>1, <2>2, <2>3
      DEF SessionsFollow, WorkerFollows, OfOneRepo
    <2>7. \A v \in Workers : v # w => WorkerFollows(v)'
      BY <2>4 DEF WorkerFollows, TaskPlaces
    <2> QED BY <2>5, <2>6, <2>7 DEF SessionsFollow
  <1>25. SummarySetting => SummariesQueued'
    BY <1>1, <1>2 DEF SummariesQueued, CodingInv, CodingParts, Summarized
  <1>26. TaskSetting => LeftoversTried'
    BY <1>1, <1>2
    DEF LeftoversTried, CodingInv, CodingParts, HoldsLock, Tried, Run
  <1> QED BY <1>20, <1>21, <1>22, <1>23, <1>24, <1>25, <1>26
      DEF CodingParts, SessionSetting, SummarySetting, TaskSetting, KeepsAll,
          OneProcessor, JobsOf

LEMMA StopSessionKeeps ==
  ASSUME CodingInv, NEW w \in Workers, NEW o \in Outcomes, StopSession(w, o)
  PROVE  CodingParts'
  <1>1. /\ job' = job /\ cur' = cur /\ file' = file /\ ran' = ran
        /\ unread' = unread /\ used' = used /\ shown' = shown
        /\ at[w] = "stopping"
    BY DEF StopSession, queues
  <1>2. /\ \A v \in Workers : v # w => at'[v] = at[v]
        /\ at'[w] \in {"saving", "threw"}
    BY Moves DEF StopSession
  <1>3. cur[w] \in Tasks /\ \A r \in Runs : r # cur[w]
    BY <1>1, CodingIds DEF CodingInv, CodingParts, CodingPlaces, TaskPlaces
  <1>4. Run(w) \in Runs /\ Run(w)[1] = cur[w] /\ ThreadAt(w) \in Threads
    BY <1>3, RunAt
  <1>5. SessionSetting => \A v \in Workers : cur[v] \in Tasks => v = w
    BY <1>3, OneTaskAtATime
  <1>6. \A r \in Runs : Reported(r)' <=> Reported(r)
    BY <1>1, <1>3 DEF Reported
  <1>7. /\ live' = live \/ live' = [live EXCEPT ![w] = live[w] \ {Run(w)}]
        /\ at'[w] = "saving" =>
             /\ live' = [live EXCEPT ![w] = live[w] \ {Run(w)}]
             /\ session' = [session EXCEPT ![w].memory = session[w].memory \cup {cur[w]}]
        /\ at'[w] # "saving" => session' = session
    BY Moves DEF StopSession
  <1>8. /\ live' \in [Workers -> SUBSET Runs]
        /\ \A v \in Workers : v # w => live'[v] = live[v] /\ session'[v] = session[v]
        /\ live'[w] \subseteq live[w]
        /\ at'[w] = "saving" => Run(w) \notin live'[w]
    BY <1>7 DEF CodingInv, CodingParts, CodingTypeOK
  <1>9. /\ session' \in [Workers -> Sessions]
        /\ at'[w] = "saving" => /\ session'[w].memory = session[w].memory \cup {cur[w]}
                                /\ session'[w].repo = session[w].repo
    BY <1>3, <1>7 DEF CodingInv, CodingParts, CodingTypeOK, Sessions
  <1>20. CodingPlaces'
    BY <1>1, <1>2, <1>3 DEF CodingPlaces, CodingInv, CodingParts, TaskPlaces
  <1>21. CodingTypeOK'
    BY <1>1, <1>2, <1>3, <1>8, <1>9 DEF CodingTypeOK, CodingInv, CodingParts
  <1>22. RunsCounted'
    BY <1>1, <1>2, <1>3 DEF RunsCounted, CodingInv, CodingParts
  <1>23. PostsReported'
    BY <1>1, <1>2, <1>3 DEF PostsReported, CodingInv, CodingParts, Reported
  <1>24. SessionSetting => SessionsFollow'
    <2> SUFFICES ASSUME SessionSetting PROVE SessionsFollow'
      OBVIOUS
    <2>1. SessionsFollow
      BY DEF CodingInv, CodingParts
    <2>2. \A th \in Threads : \A m \in SUBSET Tasks : Remembers(th, m) => Remembers(th, m)'
      BY <1>1, <1>6 DEF Remembers
    <2>3. /\ \A th \in Threads : file[th].memory \in SUBSET Tasks
          /\ \A v \in Workers : session[v].memory \in SUBSET Tasks
          /\ ThreadAt(w)' = ThreadAt(w)
      BY <1>1, <1>2, <1>3
      DEF CodingInv, CodingParts, CodingTypeOK, Sessions, ThreadAt
    <2>4. \A v \in Workers : v # w => at'[v] \notin TaskPlaces
      BY <1>2, <1>3, <1>5 DEF CodingInv, CodingParts, CodingPlaces
    <2>5. \A th \in Threads : ThreadFollows(th)'
      BY <1>1, <1>2, <1>3, <1>4, <1>5, <1>6, <2>1, <2>2, <2>3
      DEF SessionsFollow, ThreadFollows, OfOneRepo
    <2>6. WorkerFollows(w)'
      <3>1. CASE at'[w] = "threw"
        BY <3>1 DEF WorkerFollows
      <3>2. CASE at'[w] = "saving"
        <4>1. /\ Remembers(ThreadAt(w), session[w].memory)
              /\ OfOneRepo(ThreadAt(w), session[w].memory, session[w].repo)
              /\ file[ThreadAt(w)].state = "saved" =>
                   OfOneRepo(ThreadAt(w), file[ThreadAt(w)].memory, session[w].repo)
              /\ used[cur[w]] = session[w].repo
          BY <1>1, <2>1 DEF SessionsFollow, WorkerFollows
        <4>2. Remembers(ThreadAt(w), session[w].memory)'
          BY <1>1, <1>9, <1>6, <2>3, <3>2, <4>1 DEF Remembers
        <4>3. OfOneRepo(ThreadAt(w), session[w].memory, session[w].repo)'
          BY <1>1, <1>9, <3>2, <4>1 DEF OfOneRepo, ThreadAt
        <4> QED BY <1>1, <1>9, <2>3, <3>2, <4>1, <4>2, <4>3 DEF WorkerFollows, OfOneRepo
      <3> QED BY <1>2, <3>1, <3>2
    <2>7. \A v \in Workers : v # w => WorkerFollows(v)'
      BY <2>4 DEF WorkerFollows, TaskPlaces
    <2> QED BY <2>5, <2>6, <2>7 DEF SessionsFollow
  <1>25. SummarySetting => SummariesQueued'
    BY <1>1, <1>2, <1>3 DEF SummariesQueued, CodingInv, CodingParts, Summarized
  <1>26. TaskSetting => LeftoversTried'
    BY <1>1, <1>2, <1>3, <1>8
    DEF LeftoversTried, CodingInv, CodingParts, HoldsLock, Tried, Run
  <1> QED BY <1>20, <1>21, <1>22, <1>23, <1>24, <1>25, <1>26
      DEF CodingParts, SessionSetting, SummarySetting, TaskSetting, KeepsAll,
          OneProcessor, JobsOf

LEMMA TruncateKeeps ==
  ASSUME CodingInv, NEW w \in Workers, NEW o \in Outcomes, Truncate(w, o)
  PROVE  CodingParts'
  <1>1. /\ job' = job /\ cur' = cur /\ session' = session /\ ran' = ran
        /\ live' = live /\ unread' = unread /\ used' = used /\ shown' = shown
        /\ at[w] = "saving"
    BY DEF Truncate, queues
  <1>2. /\ \A v \in Workers : v # w => at'[v] = at[v]
        /\ at'[w] \in {"writing", "threw"}
    BY Moves DEF Truncate
  <1>3. cur[w] \in Tasks /\ \A r \in Runs : r # cur[w]
    BY <1>1, CodingIds DEF CodingInv, CodingParts, CodingPlaces, TaskPlaces
  <1>4. Run(w) \in Runs /\ Run(w)[1] = cur[w] /\ ThreadAt(w) \in Threads
    BY <1>3, RunAt
  <1>5. SessionSetting => \A v \in Workers : cur[v] \in Tasks => v = w
    BY <1>3, OneTaskAtATime
  <1>6. \A r \in Runs : Reported(r)' <=> Reported(r)
    BY <1>1, <1>3 DEF Reported
  <1>7. \/ file' = file
        \/ file' = [file EXCEPT ![ThreadAt(w)] = [NoSession EXCEPT !.state = "torn"]]
    BY DEF Truncate
  <1>8. /\ file' \in [Threads -> Sessions]
        /\ \A th \in Threads : \/ file'[th] = file[th]
                               \/ file'[th].state = "torn" /\ th = ThreadAt(w)
    BY <1>7 DEF CodingInv, CodingParts, CodingTypeOK, Sessions, NoSession
  <1>20. CodingPlaces'
    BY <1>1, <1>2 DEF CodingPlaces, CodingInv, CodingParts, TaskPlaces
  <1>21. CodingTypeOK'
    BY <1>1, <1>2, <1>8 DEF CodingTypeOK, CodingInv, CodingParts
  <1>22. RunsCounted'
    BY <1>1, <1>2 DEF RunsCounted, CodingInv, CodingParts
  <1>23. PostsReported'
    BY <1>1, <1>2 DEF PostsReported, CodingInv, CodingParts, Reported
  <1>24. SessionSetting => SessionsFollow'
    <2> SUFFICES ASSUME SessionSetting PROVE SessionsFollow'
      OBVIOUS
    <2>1. SessionsFollow
      BY DEF CodingInv, CodingParts
    <2>2. \A th \in Threads : \A m \in SUBSET Tasks : Remembers(th, m) => Remembers(th, m)'
      BY <1>1, <1>6 DEF Remembers
    <2>3. /\ \A th \in Threads : file[th].memory \in SUBSET Tasks
          /\ \A v \in Workers : session[v].memory \in SUBSET Tasks
          /\ ThreadAt(w)' = ThreadAt(w)
      BY <1>1, <1>2, <1>3
      DEF CodingInv, CodingParts, CodingTypeOK, Sessions, ThreadAt
    <2>4. \A v \in Workers : v # w => at'[v] \notin TaskPlaces
      BY <1>2, <1>3, <1>5 DEF CodingInv, CodingParts, CodingPlaces
    <2>5. \A th \in Threads : ThreadFollows(th)'
      BY <1>1, <1>2, <1>3, <1>4, <1>5, <1>8, <2>1, <2>2, <2>3
      DEF SessionsFollow, ThreadFollows, OfOneRepo
    <2>6. WorkerFollows(w)'
      BY <1>1, <1>2, <1>3, <1>4, <1>5, <1>8, <2>1, <2>2, <2>3
      DEF SessionsFollow, WorkerFollows, OfOneRepo
    <2>7. \A v \in Workers : v # w => WorkerFollows(v)'
      BY <2>4 DEF WorkerFollows, TaskPlaces
    <2> QED BY <2>5, <2>6, <2>7 DEF SessionsFollow
  <1>25. SummarySetting => SummariesQueued'
    BY <1>1, <1>2 DEF SummariesQueued, CodingInv, CodingParts, Summarized
  <1>26. TaskSetting => LeftoversTried'
    BY <1>1, <1>2
    DEF LeftoversTried, CodingInv, CodingParts, HoldsLock, Tried, Run
  <1> QED BY <1>20, <1>21, <1>22, <1>23, <1>24, <1>25, <1>26
      DEF CodingParts, SessionSetting, SummarySetting, TaskSetting, KeepsAll,
          OneProcessor, JobsOf

LEMMA WriteOutKeeps ==
  ASSUME CodingInv, NEW w \in Workers, NEW o \in Outcomes, WriteOut(w, o)
  PROVE  CodingParts'
  <1>1. /\ job' = job /\ cur' = cur /\ session' = session /\ ran' = ran
        /\ live' = live /\ unread' = unread /\ used' = used /\ shown' = shown
        /\ at[w] = "writing"
    BY DEF WriteOut, queues
  <1>2. /\ \A v \in Workers : v # w => at'[v] = at[v]
        /\ at'[w] \in {"summarizing", "threw"}
    BY Moves DEF WriteOut
  <1>3. cur[w] \in Tasks /\ \A r \in Runs : r # cur[w]
    BY <1>1, CodingIds DEF CodingInv, CodingParts, CodingPlaces, TaskPlaces
  <1>4. Run(w) \in Runs /\ Run(w)[1] = cur[w] /\ ThreadAt(w) \in Threads
    BY <1>3, RunAt
  <1>5. SessionSetting => \A v \in Workers : cur[v] \in Tasks => v = w
    BY <1>3, OneTaskAtATime
  <1>6. \A r \in Runs : Reported(r)' <=> Reported(r)
    BY <1>1, <1>3 DEF Reported
  <1>7. /\ \/ file' = file
           \/ file' = [file EXCEPT ![ThreadAt(w)] = [session[w] EXCEPT !.state = "saved"]]
        /\ at'[w] = "summarizing" =>
             file' = [file EXCEPT ![ThreadAt(w)] = [session[w] EXCEPT !.state = "saved"]]
    BY Moves DEF WriteOut
  <1>8. /\ file' \in [Threads -> Sessions]
        /\ \A th \in Threads :
             \/ file'[th] = file[th]
             \/ /\ th = ThreadAt(w) /\ file'[th].state = "saved"
                /\ file'[th].memory = session[w].memory /\ file'[th].repo = session[w].repo
        /\ at'[w] = "summarizing" =>
             /\ file'[ThreadAt(w)].state = "saved"
             /\ file'[ThreadAt(w)].memory = session[w].memory
    BY <1>4, <1>7 DEF CodingInv, CodingParts, CodingTypeOK, Sessions
  <1>20. CodingPlaces'
    BY <1>1, <1>2 DEF CodingPlaces, CodingInv, CodingParts, TaskPlaces
  <1>21. CodingTypeOK'
    BY <1>1, <1>2, <1>8 DEF CodingTypeOK, CodingInv, CodingParts
  <1>22. RunsCounted'
    BY <1>1, <1>2 DEF RunsCounted, CodingInv, CodingParts
  <1>23. PostsReported'
    BY <1>1, <1>2 DEF PostsReported, CodingInv, CodingParts, Reported
  <1>24. SessionSetting => SessionsFollow'
    <2> SUFFICES ASSUME SessionSetting PROVE SessionsFollow'
      OBVIOUS
    <2>1. SessionsFollow
      BY DEF CodingInv, CodingParts
    <2>2. \A th \in Threads : \A m \in SUBSET Tasks : Remembers(th, m) => Remembers(th, m)'
      BY <1>1, <1>6 DEF Remembers
    <2>3. /\ \A th \in Threads : file[th].memory \in SUBSET Tasks
          /\ \A v \in Workers : session[v].memory \in SUBSET Tasks
          /\ ThreadAt(w)' = ThreadAt(w)
      BY <1>1, <1>2, <1>3
      DEF CodingInv, CodingParts, CodingTypeOK, Sessions, ThreadAt
    <2>4. \A v \in Workers : v # w => at'[v] \notin TaskPlaces
      BY <1>2, <1>3, <1>5 DEF CodingInv, CodingParts, CodingPlaces
    <2>5. \A th \in Threads : ThreadFollows(th)'
      <3>1. ASSUME NEW th \in Threads, file'[th] = file[th]
            PROVE  ThreadFollows(th)'
        BY <1>1, <2>1, <2>2, <2>3, <3>1
        DEF SessionsFollow, ThreadFollows, OfOneRepo
      <3>2. ASSUME NEW th \in Threads, th = ThreadAt(w), file'[th].state = "saved",
                   file'[th].memory = session[w].memory, file'[th].repo = session[w].repo
            PROVE  ThreadFollows(th)'
        <4>1. /\ Remembers(th, session[w].memory)
              /\ OfOneRepo(th, session[w].memory, session[w].repo)
          BY <1>1, <2>1, <3>2 DEF SessionsFollow, WorkerFollows
        <4>2. Remembers(th, file[th].memory)'
          BY <2>2, <2>3, <3>2, <4>1 DEF Remembers
        <4>3. OfOneRepo(th, file[th].memory, file[th].repo)'
          BY <1>1, <3>2, <4>1 DEF OfOneRepo
        <4> QED BY <3>2, <4>2, <4>3 DEF ThreadFollows
      <3> QED BY <1>8, <3>1, <3>2
    <2>6. WorkerFollows(w)'
      BY <1>1, <1>2, <1>3, <1>4, <1>5, <1>8, <2>1, <2>3
      DEF SessionsFollow, WorkerFollows, OfOneRepo
    <2>7. \A v \in Workers : v # w => WorkerFollows(v)'
      BY <2>4 DEF WorkerFollows, TaskPlaces
    <2> QED BY <2>5, <2>6, <2>7 DEF SessionsFollow
  <1>25. SummarySetting => SummariesQueued'
    BY <1>1, <1>2 DEF SummariesQueued, CodingInv, CodingParts, Summarized
  <1>26. TaskSetting => LeftoversTried'
    BY <1>1, <1>2
    DEF LeftoversTried, CodingInv, CodingParts, HoldsLock, Tried, Run
  <1> QED BY <1>20, <1>21, <1>22, <1>23, <1>24, <1>25, <1>26
      DEF CodingParts, SessionSetting, SummarySetting, TaskSetting, KeepsAll,
          OneProcessor, JobsOf

LEMMA SummarizeKeeps ==
  ASSUME CodingInv, NEW w \in Workers, NEW o \in Outcomes, Summarize(w, o)
  PROVE  CodingParts'
  <1>1. /\ cur' = cur /\ file' = file /\ session' = session /\ ran' = ran
        /\ live' = live /\ unread' = unread /\ used' = used /\ shown' = shown
        /\ at[w] = "summarizing"
    BY DEF Summarize, codingVars
  <1>2. /\ \A v \in Workers : v # w => at'[v] = at[v]
        /\ at'[w] \in {"returned", "threw"}
    BY Moves DEF Summarize
  <1>3. cur[w] \in Tasks /\ \A r \in Runs : r # cur[w]
    BY <1>1, CodingIds DEF CodingInv, CodingParts, CodingPlaces, TaskPlaces
  <1>4. Run(w) \in Runs /\ Run(w)[1] = cur[w] /\ ThreadAt(w) \in Threads
    BY <1>3, RunAt
  <1>5. /\ Run(w) \in Jobs /\ CodingJobs \subseteq Jobs /\ Runs \subseteq Jobs /\ Tasks \subseteq Jobs
        /\ Run(w) \notin Tasks
    BY <1>4, CodingIds DEF CodingJobs
  <1>6. /\ \A x \in Jobs : x # Run(w) => job'[x] = job[x]
        /\ \/ job'[Run(w)] = job[Run(w)]
           \/ job[Run(w)].state = "absent" /\ job'[Run(w)].state = "waiting"
        /\ o = "ok" => job'[Run(w)].state # "absent"
    <2>1. CASE o = "lost"
      BY <2>1 DEF Summarize, TryEnqueue, queues
    <2>2. CASE o # "lost"
      <3>1. Enqueue(Run(w))
        BY <2>2 DEF Summarize, TryEnqueue
      <3>2. \A x \in Jobs : job'[x] = IF x = Run(w) /\ job[Run(w)].state = "absent"
                                      THEN [NoJob EXCEPT !.state = "waiting"] ELSE job[x]
        BY <1>5, <3>1, EnqueueInv DEF CodingInv, ProcessorsInv
      <3> QED BY <1>5, <3>2 DEF NoJob
    <2> QED BY <2>1, <2>2
  <1>7. at'[w] = "returned" => job'[Run(w)].state # "absent"
    BY <1>6, Moves DEF Summarize
  <1>8. /\ \A t \in Tasks : job'[t] = job[t]
        /\ \A r \in Runs : /\ Reported(r) => Reported(r)'
                           /\ Reported(r)' => Reported(r) \/ r = Run(w)
                           /\ job'[r].state = "completed" => job[r].state = "completed"
                           /\ job[r].state # "absent" => job'[r].state # "absent"
    BY <1>1, <1>5, <1>6 DEF Reported
  <1>20. CodingPlaces'
    BY <1>1, <1>2 DEF CodingPlaces, CodingInv, CodingParts, TaskPlaces
  <1>21. CodingTypeOK'
    BY <1>1 DEF CodingTypeOK, CodingInv, CodingParts
  <1>22. RunsCounted'
    BY <1>1, <1>8 DEF RunsCounted, CodingInv, CodingParts
  <1>23. PostsReported'
    <2>1. PostsReported
      BY DEF CodingInv, CodingParts
    <2>2. \A v \in Workers : cur[v] \in Runs => v # w
      BY <1>3
    <2>3. \A r \in Runs : job'[r].state = "completed" => r \in shown
      BY <1>8, <2>1 DEF PostsReported
    <2>4. ASSUME NEW v \in Workers, cur[v] \in Runs
          PROVE  Reported(cur[v])' /\ (at'[v] = "returned" => cur[v] \in shown)
      <3>1. Reported(cur[v]) /\ (at[v] = "returned" => cur[v] \in shown)
        BY <2>1, <2>4 DEF PostsReported
      <3> QED BY <1>1, <1>2, <1>8, <2>2, <2>4, <3>1 DEF Reported
    <2> QED BY <1>1, <2>3, <2>4 DEF PostsReported
  <1>24. SessionSetting => SessionsFollow'
    <2> SUFFICES ASSUME SessionSetting PROVE SessionsFollow'
      OBVIOUS
    <2>1. SessionsFollow
      BY DEF CodingInv, CodingParts
    <2>2. \A v \in Workers : cur[v] \in Tasks => v = w
      BY <1>3, OneTaskAtATime
    <2>3. \A v \in Workers : WorkerFollows(v)'
      <3>1. \A v \in Workers : at'[v] \notin TaskPlaces
        BY <1>2, <2>2 DEF TaskPlaces, CodingInv, CodingParts, CodingPlaces
      <3> QED BY <3>1 DEF WorkerFollows, TaskPlaces
    <2>4. file[ThreadAt(w)].state = "saved" /\ cur[w] \in file[ThreadAt(w)].memory
      BY <1>1, <2>1 DEF SessionsFollow, WorkerFollows
    <2>5. ASSUME NEW th \in Threads
          PROVE  ThreadFollows(th)'
      <3>1. ThreadFollows(th)
        BY <2>1 DEF SessionsFollow
      <3>3. CASE th # ThreadAt(w)
        <4>1. \A r \in Runs : Reported(r)' /\ ThreadOf[r[1]] = th => Reported(r)
          BY <1>4, <1>8, <3>3 DEF ThreadAt
        <4> QED BY <1>1, <3>1, <4>1 DEF ThreadFollows, Remembers, OfOneRepo
      <3>4. CASE th = ThreadAt(w)
        <4>1. Remembers(th, file[th].memory) /\ OfOneRepo(th, file[th].memory, file[th].repo)
          BY <2>4, <3>1, <3>4 DEF ThreadFollows
        <4>2. Remembers(th, file[th].memory)'
          BY <1>1, <1>4, <1>8, <2>4, <3>4, <4>1 DEF Remembers
        <4>3. OfOneRepo(th, file[th].memory, file[th].repo)'
          BY <1>1, <4>1 DEF OfOneRepo
        <4> QED BY <1>1, <2>4, <3>4, <4>2, <4>3 DEF ThreadFollows
      <3> QED BY <3>3, <3>4
    <2> QED BY <2>3, <2>5 DEF SessionsFollow
  <1>25. SummarySetting => SummariesQueued'
    BY <1>1, <1>2, <1>4, <1>7, <1>8
    DEF SummariesQueued, CodingInv, CodingParts, Summarized
  <1>26. TaskSetting => LeftoversTried'
    <2> SUFFICES ASSUME TaskSetting PROVE LeftoversTried'
      OBVIOUS
    <2>1. LeftoversTried
      BY DEF CodingInv, CodingParts
    <2>2. \A v \in Workers : Run(v)' = Run(v)
      BY <1>1 DEF Run
    <2>3. \A v \in Workers : \A r \in live[v] : r[1] \in Tasks
      BY CodingIds DEF CodingInv, CodingParts, CodingTypeOK
    <2>4. \A v \in Workers : cur[v] \in Tasks /\ at'[v] = "returned" =>
                             at[v] \in {"summarizing", "returned"}
      BY <1>1, <1>2
    <2>5. \A v \in Workers :
            cur[v] \in Tasks /\ at'[v] \in {"saving", "writing", "summarizing", "returned"}
              => Run(v) \notin live[v]
      BY <1>2, <2>1, <2>4 DEF LeftoversTried
    <2>6. \A v \in Workers : cur[v] \in Tasks => (HoldsLock(v, cur[v]) \/ Tried(cur[v]))'
      BY <1>1, <1>8, <2>1 DEF LeftoversTried, HoldsLock, Tried
    <2> QED BY <1>1, <1>8, <2>1, <2>2, <2>3, <2>5, <2>6
        DEF LeftoversTried, Tried
  <1> QED BY <1>20, <1>21, <1>22, <1>23, <1>24, <1>25, <1>26
      DEF CodingParts, SessionSetting, SummarySetting, TaskSetting, KeepsAll,
          OneProcessor, JobsOf

LEMMA PostSummaryKeeps ==
  ASSUME CodingInv, NEW w \in Workers, NEW o \in Outcomes, PostSummary(w, o)
  PROVE  CodingParts'
  <1>1. /\ job' = job /\ cur' = cur /\ file' = file /\ session' = session
        /\ ran' = ran /\ live' = live /\ unread' = unread /\ used' = used
        /\ at[w] = "posting_summary" /\ shown \subseteq shown'
    BY DEF PostSummary, queues
  <1>2. /\ \A v \in Workers : v # w => at'[v] = at[v]
        /\ at'[w] \in {"returned", "threw"}
        /\ at'[w] = "returned" => cur[w] \in shown'
        /\ shown' \subseteq shown \cup {cur[w]}
    BY Moves DEF PostSummary
  <1>3. cur[w] \in Runs /\ cur[w] \notin Tasks
    BY <1>1, CodingIds DEF CodingInv, CodingParts, CodingPlaces
  <1>4. \A r \in Runs : Reported(r)' <=> Reported(r)
    BY <1>1, <1>2, <1>3 DEF Reported, CodingInv, CodingParts, PostsReported
  <1>20. CodingPlaces'
    BY <1>1, <1>2, <1>3, <1>4
    DEF CodingPlaces, CodingInv, CodingParts, TaskPlaces
  <1>21. CodingTypeOK'
    BY <1>1, <1>2, <1>3, <1>4 DEF CodingTypeOK, CodingInv, CodingParts
  <1>22. RunsCounted'
    BY <1>1, <1>2, <1>3, <1>4 DEF RunsCounted, CodingInv, CodingParts
  <1>23. PostsReported'
    BY <1>1, <1>2, <1>3, <1>4
    DEF PostsReported, CodingInv, CodingParts, Reported
  <1>24. SessionSetting => SessionsFollow'
    <2> SUFFICES ASSUME SessionSetting PROVE SessionsFollow'
      OBVIOUS
    <2>1. SessionsFollow
      BY DEF CodingInv, CodingParts
    <2>2. \A th \in Threads : ThreadFollows(th)'
      BY <1>1, <1>4, <2>1
      DEF SessionsFollow, ThreadFollows, Remembers, OfOneRepo
    <2>3. ASSUME NEW v \in Workers, v # w
          PROVE  WorkerFollows(v)'
      <3>1. WorkerFollows(v)
        BY <2>1 DEF SessionsFollow
      <3>2. ThreadAt(v)' = ThreadAt(v)
        BY <1>1 DEF ThreadAt
      <3> QED BY <1>1, <1>2, <1>4, <3>1, <3>2
          DEF WorkerFollows, Remembers, OfOneRepo
    <2>4. WorkerFollows(w)'
      BY <1>2 DEF WorkerFollows
    <2> QED BY <2>2, <2>3, <2>4 DEF SessionsFollow
  <1>25. SummarySetting => SummariesQueued'
    BY <1>1, <1>2, <1>3, <1>4
    DEF SummariesQueued, CodingInv, CodingParts, Summarized
  <1>26. TaskSetting => LeftoversTried'
    BY <1>1, <1>2, <1>3, <1>4
    DEF LeftoversTried, CodingInv, CodingParts, HoldsLock, Tried, Run
  <1> QED BY <1>20, <1>21, <1>22, <1>23, <1>24, <1>25, <1>26
      DEF CodingParts, SessionSetting, SummarySetting, TaskSetting, KeepsAll,
          OneProcessor, JobsOf

(* Steps of the queues.                                                    *)
LEMMA DelegateKeeps ==
  ASSUME CodingInv, NEW t \in Tasks, NEW o \in Outcomes, Delegate(t, o)
  PROVE  CodingParts'
  <1>1. /\ at' = at /\ cur' = cur /\ file' = file /\ session' = session
        /\ ran' = ran /\ live' = live /\ unread' = unread /\ used' = used /\ shown' = shown
        /\ ran[t] = 0
    BY DEF Delegate, attempts, codingVars
  <1>9. /\ \A d \in Tasks : d \in Jobs /\ QueueOf[d] = TaskQueue
        /\ \A r \in Runs : r \in Jobs /\ r[1] \in Tasks /\ r \notin Tasks
        /\ None \notin Tasks /\ None \notin Runs
    BY CodingIds DEF CodingJobs
  <1>2. \A x \in Jobs :
          \/ job'[x] = job[x]
          \/ /\ x = t /\ job[x].state = "absent"
             /\ job'[x].state = "waiting" /\ job'[x].made = 0 /\ job'[x].stalls = 0
    <2>1. CASE o = "lost"
      BY <2>1 DEF Delegate, TryEnqueue, queues
    <2>2. CASE o # "lost"
      <3>1. Enqueue(t)
        BY <2>2 DEF Delegate, TryEnqueue
      <3>2. \A x \in Jobs : job'[x] = IF x = t /\ job[t].state = "absent"
                                      THEN [NoJob EXCEPT !.state = "waiting"] ELSE job[x]
        BY <1>9, <3>1, EnqueueInv DEF CodingInv, ProcessorsInv
      <3> QED BY <3>2 DEF NoJob
    <2> QED BY <2>1, <2>2
  <1>3. job[t].state = "absent" => job[t].made + job[t].stalls = 0
    <2>1. CountsRight(t, job[t])
      BY <1>9 DEF CodingInv, ProcessorsInv, QueuesInv
    <2> QED BY <2>1 DEF CountsRight, NoJob
  <1>4. \A r \in Runs : job'[r] = job[r]
    BY <1>2, <1>9
  <1>5. \A r \in Runs : Reported(r)' <=> Reported(r)
    BY <1>1, <1>4 DEF Reported
  <1>20. CodingPlaces'
    BY <1>1 DEF CodingPlaces, CodingInv, CodingParts, TaskPlaces
  <1>21. CodingTypeOK'
    BY <1>1 DEF CodingTypeOK, CodingInv, CodingParts
  <1>22. RunsCounted'
    BY <1>1, <1>2, <1>9 DEF RunsCounted, CodingInv, CodingParts
  <1>23. PostsReported'
    BY <1>1, <1>4 DEF PostsReported, CodingInv, CodingParts, Reported
  <1>24. SessionSetting => SessionsFollow'
    <2> SUFFICES ASSUME SessionSetting PROVE SessionsFollow'
      OBVIOUS
    <2>1. SessionsFollow
      BY DEF CodingInv, CodingParts
    <2>2. \A th \in Threads : ThreadFollows(th)'
      BY <1>1, <1>5, <2>1
      DEF SessionsFollow, ThreadFollows, Remembers, OfOneRepo
    <2>3. ASSUME NEW v \in Workers, at'[v] \in TaskPlaces, at'[v] \notin {"preparing", "finding"}
          PROVE  WorkerFollows(v)'
      <3>1. WorkerFollows(v)
        BY <2>1 DEF SessionsFollow
      <3>2. at'[v] = at[v] /\ session'[v] = session[v] /\ cur'[v] = cur[v]
        BY <1>1, <1>5, <2>3 DEF TaskPlaces
      <3>3. ThreadAt(v)' = ThreadAt(v)
        BY <3>2 DEF ThreadAt
      <3> QED BY <1>1, <1>5, <3>1, <3>3 DEF WorkerFollows, Remembers, OfOneRepo
    <2>4. ASSUME NEW v \in Workers, ~(at'[v] \in TaskPlaces /\ at'[v] \notin {"preparing", "finding"})
          PROVE  WorkerFollows(v)'
      BY <2>4 DEF WorkerFollows, TaskPlaces
    <2> QED BY <2>2, <2>3, <2>4 DEF SessionsFollow
  <1>25. SummarySetting => SummariesQueued'
    BY <1>1, <1>2, <1>9 DEF SummariesQueued, CodingInv, CodingParts, Summarized
  <1>26. TaskSetting => LeftoversTried'
    <2> SUFFICES ASSUME TaskSetting PROVE LeftoversTried'
      OBVIOUS
    <2>1. LeftoversTried
      BY DEF CodingInv, CodingParts
    <2>2. \A v \in Workers : Run(v)' = Run(v)
      BY <1>1 DEF Run
    <2>3. \A v \in Workers : \A r \in live[v] : r[1] \in Tasks
      BY <1>9 DEF CodingInv, CodingParts, CodingTypeOK
    <2>4. \A d \in Tasks : Tried(d) => Tried(d)'
      BY <1>2, <1>3, <1>9 DEF Tried
    <2>5. \A v \in Workers : cur[v] \in Tasks => (HoldsLock(v, cur[v]) \/ Tried(cur[v]))'
      BY <1>1, <1>2, <1>3, <1>9, <2>1 DEF LeftoversTried, HoldsLock, Tried
    <2> QED BY <1>1, <2>1, <2>2, <2>3, <2>4, <2>5 DEF LeftoversTried
  <1> QED BY <1>20, <1>21, <1>22, <1>23, <1>24, <1>25, <1>26
      DEF CodingParts, SessionSetting, SummarySetting, TaskSetting, KeepsAll,
          OneProcessor, JobsOf

LEMMA CodingTimerKeeps ==
  ASSUME CodingInv, NEW id \in CodingJobs, CodingTimer(id)
  PROVE  CodingParts'
  <1>1. /\ at' = at /\ cur' = cur /\ file' = file /\ session' = session
        /\ ran' = ran /\ live' = live /\ unread' = unread /\ used' = used /\ shown' = shown
    BY DEF CodingTimer, Timer, attempts, codingVars
  <1>9. /\ \A d \in Tasks : d \in Jobs /\ QueueOf[d] = TaskQueue
        /\ \A r \in Runs : r \in Jobs /\ r[1] \in Tasks /\ r \notin Tasks
        /\ None \notin Tasks /\ None \notin Runs
    BY CodingIds DEF CodingJobs
  <1>2. /\ job'[id].state = "waiting" /\ job'[id].made = job[id].made
        /\ \/ job[id].state = "delayed" /\ job'[id].stalls = job[id].stalls
           \/ job[id].state = "active" /\ job'[id].stalls = job[id].stalls + 1
        /\ \A x \in Jobs : x # id => job'[x] = job[x]
    BY TimerInv, CodingIds DEF CodingTimer, CodingInv, ProcessorsInv
  <1>3. job[id].made \in Nat /\ job[id].stalls \in Nat
    BY CodingIds DEF CodingInv, ProcessorsInv, QueuesInv, AnyRecord
  <1>5. \A r \in Runs : Reported(r)' <=> Reported(r)
    BY <1>1, <1>2, <1>9 DEF Reported
  <1>20. CodingPlaces'
    BY <1>1 DEF CodingPlaces, CodingInv, CodingParts, TaskPlaces
  <1>21. CodingTypeOK'
    BY <1>1 DEF CodingTypeOK, CodingInv, CodingParts
  <1>22. RunsCounted'
    BY <1>1, <1>2, <1>3, <1>9 DEF RunsCounted, CodingInv, CodingParts
  <1>23. PostsReported'
    BY <1>1, <1>2, <1>9 DEF PostsReported, CodingInv, CodingParts, Reported
  <1>24. SessionSetting => SessionsFollow'
    <2> SUFFICES ASSUME SessionSetting PROVE SessionsFollow'
      OBVIOUS
    <2>1. SessionsFollow
      BY DEF CodingInv, CodingParts
    <2>2. \A th \in Threads : ThreadFollows(th)'
      BY <1>1, <1>5, <2>1
      DEF SessionsFollow, ThreadFollows, Remembers, OfOneRepo
    <2>3. ASSUME NEW v \in Workers, at'[v] \in TaskPlaces, at'[v] \notin {"preparing", "finding"}
          PROVE  WorkerFollows(v)'
      <3>1. WorkerFollows(v)
        BY <2>1 DEF SessionsFollow
      <3>2. at'[v] = at[v] /\ session'[v] = session[v] /\ cur'[v] = cur[v]
        BY <1>1, <1>5, <2>3 DEF TaskPlaces
      <3>3. ThreadAt(v)' = ThreadAt(v)
        BY <3>2 DEF ThreadAt
      <3> QED BY <1>1, <1>5, <3>1, <3>3 DEF WorkerFollows, Remembers, OfOneRepo
    <2>4. ASSUME NEW v \in Workers, ~(at'[v] \in TaskPlaces /\ at'[v] \notin {"preparing", "finding"})
          PROVE  WorkerFollows(v)'
      BY <2>4 DEF WorkerFollows, TaskPlaces
    <2> QED BY <2>2, <2>3, <2>4 DEF SessionsFollow
  <1>25. SummarySetting => SummariesQueued'
    BY <1>1, <1>2, <1>9 DEF SummariesQueued, CodingInv, CodingParts, Summarized
  <1>26. TaskSetting => LeftoversTried'
    <2> SUFFICES ASSUME TaskSetting PROVE LeftoversTried'
      OBVIOUS
    <2>1. LeftoversTried
      BY DEF CodingInv, CodingParts
    <2>2. \A v \in Workers : Run(v)' = Run(v)
      BY <1>1 DEF Run
    <2>3. \A v \in Workers : \A r \in live[v] : r[1] \in Tasks
      BY <1>9 DEF CodingInv, CodingParts, CodingTypeOK
    <2>4. \A d \in Tasks : Tried(d) => Tried(d)'
      BY <1>2, <1>3, <1>9 DEF Tried
    <2>5. \A v \in Workers : cur[v] \in Tasks => (HoldsLock(v, cur[v]) \/ Tried(cur[v]))'
      BY <1>1, <1>2, <1>3, <1>9, <2>1 DEF LeftoversTried, HoldsLock, Tried
    <2> QED BY <1>1, <2>1, <2>2, <2>3, <2>4, <2>5 DEF LeftoversTried
  <1> QED BY <1>20, <1>21, <1>22, <1>23, <1>24, <1>25, <1>26
      DEF CodingParts, SessionSetting, SummarySetting, TaskSetting, KeepsAll,
          OneProcessor, JobsOf

LEMMA GiveUpKeeps ==
  ASSUME CodingInv, NEW w \in Workers, NEW id \in CodingJobs, GiveUp(w, id), UNCHANGED codingVars
  PROVE  CodingParts'
  <1>1. /\ at' = at /\ cur' = cur /\ file' = file /\ session' = session
        /\ ran' = ran /\ live' = live /\ unread' = unread /\ used' = used /\ shown' = shown
    BY DEF GiveUp, attempts, codingVars
  <1>9. /\ \A d \in Tasks : d \in Jobs /\ QueueOf[d] = TaskQueue
        /\ \A r \in Runs : r \in Jobs /\ r[1] \in Tasks /\ r \notin Tasks
        /\ None \notin Tasks /\ None \notin Runs
    BY CodingIds DEF CodingJobs
  <1>2. /\ job[id].state = "waiting" /\ Doomed(id) /\ job'[id].state = "failed"
        /\ job'[id].made = job[id].made + 1 /\ job'[id].stalls = job[id].stalls
        /\ \A x \in Jobs : x # id => job'[x] = job[x]
    BY GiveUpInv, CodingIds DEF CodingInv, ProcessorsInv
  <1>3. job[id].made \in Nat /\ job[id].stalls \in Nat
    BY CodingIds DEF CodingInv, ProcessorsInv, QueuesInv, AnyRecord
  <1>5. \A r \in Runs : Reported(r)' <=> Reported(r)
    BY <1>1, <1>2, <1>9 DEF Reported
  <1>20. CodingPlaces'
    BY <1>1 DEF CodingPlaces, CodingInv, CodingParts, TaskPlaces
  <1>21. CodingTypeOK'
    BY <1>1 DEF CodingTypeOK, CodingInv, CodingParts
  <1>22. RunsCounted'
    BY <1>1, <1>2, <1>9 DEF RunsCounted, CodingInv, CodingParts
  <1>23. PostsReported'
    BY <1>1, <1>2, <1>9 DEF PostsReported, CodingInv, CodingParts, Reported
  <1>24. SessionSetting => SessionsFollow'
    <2> SUFFICES ASSUME SessionSetting PROVE SessionsFollow'
      OBVIOUS
    <2>1. SessionsFollow
      BY DEF CodingInv, CodingParts
    <2>2. \A th \in Threads : ThreadFollows(th)'
      BY <1>1, <1>5, <2>1
      DEF SessionsFollow, ThreadFollows, Remembers, OfOneRepo
    <2>3. ASSUME NEW v \in Workers, at'[v] \in TaskPlaces, at'[v] \notin {"preparing", "finding"}
          PROVE  WorkerFollows(v)'
      <3>1. WorkerFollows(v)
        BY <2>1 DEF SessionsFollow
      <3>2. at'[v] = at[v] /\ session'[v] = session[v] /\ cur'[v] = cur[v]
        BY <1>1, <1>5, <2>3 DEF TaskPlaces
      <3>3. ThreadAt(v)' = ThreadAt(v)
        BY <3>2 DEF ThreadAt
      <3> QED BY <1>1, <1>5, <3>1, <3>3 DEF WorkerFollows, Remembers, OfOneRepo
    <2>4. ASSUME NEW v \in Workers, ~(at'[v] \in TaskPlaces /\ at'[v] \notin {"preparing", "finding"})
          PROVE  WorkerFollows(v)'
      BY <2>4 DEF WorkerFollows, TaskPlaces
    <2> QED BY <2>2, <2>3, <2>4 DEF SessionsFollow
  <1>25. SummarySetting => SummariesQueued'
    BY <1>1, <1>2, <1>9 DEF SummariesQueued, CodingInv, CodingParts, Summarized
  <1>26. TaskSetting => LeftoversTried'
    <2> SUFFICES ASSUME TaskSetting PROVE LeftoversTried'
      OBVIOUS
    <2>1. LeftoversTried
      BY DEF CodingInv, CodingParts
    <2>2. \A v \in Workers : Run(v)' = Run(v)
      BY <1>1 DEF Run
    <2>3. \A v \in Workers : \A r \in live[v] : r[1] \in Tasks
      BY <1>9 DEF CodingInv, CodingParts, CodingTypeOK
    <2>4. \A d \in Tasks : Tried(d) => Tried(d)'
      BY <1>2, <1>3, <1>9 DEF Tried
    <2>5. \A v \in Workers : cur[v] \in Tasks => (HoldsLock(v, cur[v]) \/ Tried(cur[v]))'
      BY <1>1, <1>2, <1>3, <1>9, <2>1 DEF LeftoversTried, HoldsLock, Tried
    <2> QED BY <1>1, <2>1, <2>2, <2>3, <2>4, <2>5 DEF LeftoversTried
  <1> QED BY <1>20, <1>21, <1>22, <1>23, <1>24, <1>25, <1>26
      DEF CodingParts, SessionSetting, SummarySetting, TaskSetting, KeepsAll,
          OneProcessor, JobsOf

(* The beginning and the end of an attempt.                                *)
LEMMA TakeTaskKeeps ==
  ASSUME CodingInv, NEW w \in Workers, NEW t \in Tasks, TakeTask(w, t)
  PROVE  CodingParts'
  <1>1. /\ file' = file /\ session' = session /\ live' = live /\ unread' = unread /\ used' = used
        /\ shown' = shown
        /\ ran' = [ran EXCEPT ![t] = ran[t] + 1]
    BY DEF TakeTask
  <1>2. Begin(w, t, "preparing")
    BY DEF TakeTask
  <1>9. /\ \A d \in Tasks : d \in Jobs /\ QueueOf[d] = TaskQueue
        /\ \A r \in Runs : r \in Jobs /\ r[1] \in Tasks /\ r \notin Tasks
        /\ None \notin Tasks /\ None \notin Runs
    BY CodingIds DEF CodingJobs
  <1>3. /\ at[w] = "idle" /\ cur[w] = None
        /\ job[t].state = "waiting" /\ QueueOf[t] = ServedBy[w]
        /\ job'[t].state = "active" /\ job'[t].owner = w
        /\ job'[t].made = job[t].made /\ job'[t].stalls = job[t].stalls
        /\ \A x \in Jobs : x # t => job'[x] = job[x]
    BY <1>2, <1>9, BeginInv DEF CodingInv, ProcessorsInv, Busy
  <1>4. /\ \A v \in Workers : v # w => at'[v] = at[v] /\ cur'[v] = cur[v]
        /\ at'[w] = "preparing" /\ cur'[w] = t
    BY <1>2 DEF Begin, GoTo, CodingInv, ProcessorsInv, Busy
  <1>5. \A r \in Runs : Reported(r)' <=> Reported(r)
    BY <1>1, <1>3, <1>9 DEF Reported
  <1>6. /\ ran[t] \in Nat /\ ran[t] + 1 <= MaxRuns
        /\ ran[t] <= job[t].made + job[t].stalls
    <2>1. /\ ran[t] \in 0..MaxRuns /\ ran[t] <= job[t].made + job[t].stalls
      BY <1>3 DEF CodingInv, CodingParts, CodingTypeOK, RunsCounted
    <2>2. CountsRight(t, job[t]) /\ job[t].made \in Nat /\ job[t].stalls \in Nat
      BY <1>9 DEF CodingInv, ProcessorsInv, QueuesInv, AnyRecord
    <2>3. job[t].made < AttemptsOf[TaskQueue] /\ job[t].stalls <= MaxStalls
      BY <1>2, <1>3, <2>2, CodingIds DEF CountsRight, Begin, Doomed
    <2> QED BY <2>1, <2>2, <2>3, CodingIds
  <1>7. /\ ran' \in [Tasks -> 0..MaxRuns]
        /\ ran'[t] = ran[t] + 1
        /\ \A d \in Tasks : d # t => ran'[d] = ran[d]
    BY <1>1, <1>6, CodingIds DEF CodingInv, CodingParts, CodingTypeOK
  <1>8. \A d \in Tasks : job[d].made \in Nat /\ job[d].stalls \in Nat
    BY <1>9 DEF CodingInv, ProcessorsInv, QueuesInv, AnyRecord
  <1>20. CodingPlaces'
    <2>1. CodingPlaces
      BY DEF CodingInv, CodingParts
    <2>2. ASSUME NEW v \in Workers, v # w
          PROVE  /\ cur'[v] \in CodingJobs \cup {None}
                 /\ at'[v] \in TaskPlaces => cur'[v] \in Tasks
                 /\ at'[v] = "posting_summary" => cur'[v] \in Runs
                 /\ cur'[v] \in Tasks => ran'[cur'[v]] > 0
      <3>1. /\ cur[v] \in CodingJobs \cup {None}
            /\ at[v] \in TaskPlaces => cur[v] \in Tasks
            /\ at[v] = "posting_summary" => cur[v] \in Runs
            /\ cur[v] \in Tasks => ran[cur[v]] > 0
        BY <2>1 DEF CodingPlaces
      <3>2. cur[v] \in Tasks => ran'[cur[v]] > 0
        BY <1>6, <1>7, <3>1
      <3> QED BY <1>4, <2>2, <3>1, <3>2
    <2>3. /\ cur'[w] \in CodingJobs \cup {None}
          /\ at'[w] \in TaskPlaces => cur'[w] \in Tasks
          /\ at'[w] = "posting_summary" => cur'[w] \in Runs
          /\ cur'[w] \in Tasks => ran'[cur'[w]] > 0
      BY <1>4, <1>6, <1>7, CodingIds DEF CodingJobs
    <2> QED BY <2>2, <2>3 DEF CodingPlaces
  <1>21. CodingTypeOK'
    BY <1>1, <1>3, <1>4, <1>6 DEF CodingTypeOK, CodingInv, CodingParts
  <1>22. RunsCounted'
    BY <1>3, <1>4, <1>6, <1>7, <1>8, <1>9
    DEF RunsCounted, CodingInv, CodingParts
  <1>23. PostsReported'
    BY <1>1, <1>3, <1>4, <1>9
    DEF PostsReported, CodingInv, CodingParts, Reported
  <1>24. SessionSetting => SessionsFollow'
    <2> SUFFICES ASSUME SessionSetting PROVE SessionsFollow'
      OBVIOUS
    <2>1. SessionsFollow
      BY DEF CodingInv, CodingParts
    <2>2. \A th \in Threads : ThreadFollows(th)'
      BY <1>1, <1>4, <1>5, <2>1
      DEF SessionsFollow, ThreadFollows, Remembers, OfOneRepo
    <2>3. ASSUME NEW v \in Workers, at'[v] \in TaskPlaces, at'[v] \notin {"preparing", "finding"}
          PROVE  WorkerFollows(v)'
      <3>1. WorkerFollows(v)
        BY <2>1 DEF SessionsFollow
      <3>2. at'[v] = at[v] /\ session'[v] = session[v] /\ cur'[v] = cur[v]
        BY <1>1, <1>4, <1>5, <2>3 DEF TaskPlaces
      <3>3. ThreadAt(v)' = ThreadAt(v)
        BY <3>2 DEF ThreadAt
      <3> QED BY <1>1, <1>4, <1>5, <3>1, <3>3
          DEF WorkerFollows, Remembers, OfOneRepo
    <2>4. ASSUME NEW v \in Workers, ~(at'[v] \in TaskPlaces /\ at'[v] \notin {"preparing", "finding"})
          PROVE  WorkerFollows(v)'
      BY <2>4 DEF WorkerFollows, TaskPlaces
    <2> QED BY <2>2, <2>3, <2>4 DEF SessionsFollow
  <1>25. SummarySetting => SummariesQueued'
    BY <1>3, <1>4, <1>9 DEF SummariesQueued, CodingInv, CodingParts, Summarized
  <1>26. TaskSetting => LeftoversTried'
    <2> SUFFICES ASSUME TaskSetting PROVE LeftoversTried'
      OBVIOUS
    <2>1. LeftoversTried
      BY DEF CodingInv, CodingParts
    <2>2. \A v \in Workers : v # w => cur[v] \notin Tasks
      <3>1. \A v \in Workers : cur[v] \in Tasks => ServedBy[v] = TaskQueue
        BY RunAt
      <3>2. ServedBy[w] = TaskQueue
        BY <1>3, <1>9
      <3> QED BY <3>1, <3>2 DEF TaskSetting, OneProcessor
    <2>3. \A v \in Workers : \A r \in live[v] : r[1] \in Tasks /\ r = <<r[1], r[2]>>
      BY CodingIds DEF CodingInv, CodingParts, CodingTypeOK
    <2>4. \A v \in Workers : \A r \in live[v] : ~(cur[v] # None /\ r = Run(v))
      <3> SUFFICES ASSUME NEW v \in Workers, NEW r \in live[v], cur[v] # None, r = Run(v)
                   PROVE  FALSE
        OBVIOUS
      <3>1. r[1] = cur[v]
        BY DEF Run
      <3> QED BY <1>3, <2>2, <2>3, <3>1
    <2>5. \A v \in Workers : \A r \in live[v] : Tried(r[1])
      BY <2>1, <2>4 DEF LeftoversTried
    <2>6. \A d \in Tasks : Tried(d) => Tried(d)'
      BY <1>3, <1>9 DEF Tried
    <2>7. \A v \in Workers : cur'[v] \in Tasks => v = w
      BY <1>4, <2>2
    <2>8. HoldsLock(w, cur[w])'
      BY <1>3, <1>4 DEF HoldsLock
    <2> QED BY <1>1, <1>4, <2>3, <2>5, <2>6, <2>7, <2>8 DEF LeftoversTried
  <1> QED BY <1>20, <1>21, <1>22, <1>23, <1>24, <1>25, <1>26
      DEF CodingParts, SessionSetting, SummarySetting, TaskSetting, KeepsAll,
          OneProcessor, JobsOf

LEMMA TakeSummaryKeeps ==
  ASSUME CodingInv, NEW w \in Workers, NEW s \in Runs, TakeSummary(w, s)
  PROVE  CodingParts'
  <1>1. /\ file' = file /\ session' = session /\ ran' = ran /\ live' = live
        /\ unread' = unread /\ used' = used /\ shown' = shown
    BY DEF TakeSummary, codingVars
  <1>2. Begin(w, s, "posting_summary")
    BY DEF TakeSummary
  <1>9. /\ \A d \in Tasks : d \in Jobs /\ QueueOf[d] = TaskQueue
        /\ \A r \in Runs : r \in Jobs /\ r[1] \in Tasks /\ r \notin Tasks
        /\ None \notin Tasks /\ None \notin Runs
    BY CodingIds DEF CodingJobs
  <1>3. /\ at[w] = "idle" /\ cur[w] = None
        /\ job[s].state = "waiting" /\ QueueOf[s] = ServedBy[w]
        /\ job'[s].state = "active" /\ job'[s].owner = w
        /\ job'[s].made = job[s].made /\ job'[s].stalls = job[s].stalls
        /\ \A x \in Jobs : x # s => job'[x] = job[x]
    BY <1>2, <1>9, BeginInv DEF CodingInv, ProcessorsInv, Busy
  <1>4. /\ \A v \in Workers : v # w => at'[v] = at[v] /\ cur'[v] = cur[v]
        /\ at'[w] = "posting_summary" /\ cur'[w] = s
    BY <1>2 DEF Begin, GoTo, CodingInv, ProcessorsInv, Busy
  <1>5. \A r \in Runs : Reported(r)' <=> Reported(r)
    BY <1>1, <1>3, <1>9 DEF Reported
  <1>20. CodingPlaces'
    <2>1. CodingPlaces
      BY DEF CodingInv, CodingParts
    <2>2. ASSUME NEW v \in Workers, v # w
          PROVE  /\ cur'[v] \in CodingJobs \cup {None}
                 /\ at'[v] \in TaskPlaces => cur'[v] \in Tasks
                 /\ at'[v] = "posting_summary" => cur'[v] \in Runs
                 /\ cur'[v] \in Tasks => ran'[cur'[v]] > 0
      <3>1. /\ cur[v] \in CodingJobs \cup {None}
            /\ at[v] \in TaskPlaces => cur[v] \in Tasks
            /\ at[v] = "posting_summary" => cur[v] \in Runs
            /\ cur[v] \in Tasks => ran[cur[v]] > 0
        BY <2>1 DEF CodingPlaces
      <3>2. cur[v] \in Tasks => ran'[cur[v]] > 0
        BY <1>1, <3>1
      <3> QED BY <1>4, <2>2, <3>1, <3>2
    <2>3. /\ cur'[w] \in CodingJobs \cup {None}
          /\ at'[w] \in TaskPlaces => cur'[w] \in Tasks
          /\ at'[w] = "posting_summary" => cur'[w] \in Runs
          /\ cur'[w] \in Tasks => ran'[cur'[w]] > 0
      BY <1>4, <1>9, CodingIds DEF CodingJobs, TaskPlaces
    <2> QED BY <2>2, <2>3 DEF CodingPlaces
  <1>21. CodingTypeOK'
    BY <1>1 DEF CodingTypeOK, CodingInv, CodingParts
  <1>22. RunsCounted'
    BY <1>1, <1>3, <1>9 DEF RunsCounted, CodingInv, CodingParts
  <1>23. PostsReported'
    BY <1>1, <1>3, <1>4, <1>9
    DEF PostsReported, CodingInv, CodingParts, Reported
  <1>24. SessionSetting => SessionsFollow'
    <2> SUFFICES ASSUME SessionSetting PROVE SessionsFollow'
      OBVIOUS
    <2>1. SessionsFollow
      BY DEF CodingInv, CodingParts
    <2>2. \A th \in Threads : ThreadFollows(th)'
      BY <1>1, <1>4, <1>5, <2>1
      DEF SessionsFollow, ThreadFollows, Remembers, OfOneRepo
    <2>3. ASSUME NEW v \in Workers, at'[v] \in TaskPlaces, at'[v] \notin {"preparing", "finding"}
          PROVE  WorkerFollows(v)'
      <3>1. WorkerFollows(v)
        BY <2>1 DEF SessionsFollow
      <3>2. at'[v] = at[v] /\ session'[v] = session[v] /\ cur'[v] = cur[v]
        BY <1>1, <1>4, <1>5, <2>3 DEF TaskPlaces
      <3>3. ThreadAt(v)' = ThreadAt(v)
        BY <3>2 DEF ThreadAt
      <3> QED BY <1>1, <1>4, <1>5, <3>1, <3>3
          DEF WorkerFollows, Remembers, OfOneRepo
    <2>4. ASSUME NEW v \in Workers, ~(at'[v] \in TaskPlaces /\ at'[v] \notin {"preparing", "finding"})
          PROVE  WorkerFollows(v)'
      BY <2>4 DEF WorkerFollows, TaskPlaces
    <2> QED BY <2>2, <2>3, <2>4 DEF SessionsFollow
  <1>25. SummarySetting => SummariesQueued'
    BY <1>3, <1>4, <1>5, <1>9
    DEF SummariesQueued, CodingInv, CodingParts, Summarized
  <1>26. TaskSetting => LeftoversTried'
    <2> SUFFICES ASSUME TaskSetting PROVE LeftoversTried'
      OBVIOUS
    <2>1. LeftoversTried
      BY DEF CodingInv, CodingParts
    <2>2. \A v \in Workers : v # w => Run(v)' = Run(v)
      BY <1>1, <1>4 DEF Run
    <2>3. \A v \in Workers : \A r \in live[v] : r[1] \in Tasks
      BY CodingIds DEF CodingInv, CodingParts, CodingTypeOK
    <2> QED BY <1>1, <1>3, <1>4, <1>9, <2>1, <2>2, <2>3
        DEF LeftoversTried, Tried, HoldsLock
  <1> QED BY <1>20, <1>21, <1>22, <1>23, <1>24, <1>25, <1>26
      DEF CodingParts, SessionSetting, SummarySetting, TaskSetting, KeepsAll,
          OneProcessor, JobsOf

LEMMA EndCodingKeeps ==
  ASSUME CodingInv, NEW w \in Workers, EndCoding(w)
  PROVE  CodingParts'
  <1>1. /\ file' = file /\ ran' = ran /\ live' = live /\ unread' = unread /\ used' = used
        /\ shown' = shown
        /\ session' = [session EXCEPT ![w] = NoSession]
    BY DEF EndCoding
  <1>9. /\ \A d \in Tasks : d \in Jobs /\ QueueOf[d] = TaskQueue
        /\ \A r \in Runs : r \in Jobs /\ r[1] \in Tasks /\ r \notin Tasks
        /\ None \notin Tasks /\ None \notin Runs
    BY CodingIds DEF CodingJobs
  <1> DEFINE id == cur[w]
  <1>2. /\ id \in Jobs /\ id \in CodingJobs /\ at[w] \in {"returned", "threw"}
        /\ ~HoldsLock(w, id) => job' = job
        /\ HoldsLock(w, id) /\ at[w] = "returned" =>
             /\ \/ job'[id] = NoJob
                \/ /\ job'[id].state = "completed"
                   /\ job'[id].made = job[id].made
                   /\ job'[id].stalls = job[id].stalls
             /\ \A x \in Jobs : x # id =>
                   \/ job'[x] = job[x]
                   \/ /\ job[x].state = "completed" /\ QueueOf[x] = QueueOf[id]
                      /\ job'[x] = NoJob
             /\ KeepsAll(QueueOf[id]) =>
                   /\ job'[id].state = "completed"
                   /\ \A x \in Jobs : x # id => job'[x] = job[x]
        /\ HoldsLock(w, id) /\ at[w] = "threw" =>
             /\ job'[id].state = IF LastAttempt(id) THEN "failed" ELSE "delayed"
             /\ job'[id].made = job[id].made + 1
             /\ job'[id].stalls = job[id].stalls
             /\ \A x \in Jobs : x # id => job'[x] = job[x]
    <2>1. End(w)
      BY DEF EndCoding
    <2>2. id \in Jobs
      BY <2>1, EndInv DEF CodingInv
    <2>3. id \in CodingJobs
      BY <2>2, ProcessorsAssumption DEF CodingInv, CodingParts, CodingPlaces
    <2> HIDE DEF id
    <2>4. id = cur[w]
      BY DEF id
    <2> QED BY <2>1, <2>3, <2>4, EndInv DEF CodingInv
  <1>3. /\ \A v \in Workers : v # w => at'[v] = at[v] /\ cur'[v] = cur[v]
        /\ at'[w] = "idle" /\ cur'[w] = None
        /\ \A v \in Workers : v # w => session'[v] = session[v]
        /\ session' \in [Workers -> Sessions]
    <2>1. NoSession \in Sessions
      BY DEF NoSession, Sessions
    <2>2. /\ at' = [at EXCEPT ![w] = "idle"] /\ cur' = [cur EXCEPT ![w] = None]
      BY DEF EndCoding, End, Forget, GoTo
    <2> QED BY <1>1, <2>1, <2>2
        DEF CodingInv, CodingParts, CodingTypeOK, ProcessorsInv, Busy
  <1> HIDE DEF id
  <1>4. id = cur[w] /\ (HoldsLock(w, id) => job[id].state = "active")
    BY DEF id, HoldsLock
  <1>5. \A d \in Tasks : job[d].made \in Nat /\ job[d].stalls \in Nat
    BY <1>9 DEF CodingInv, ProcessorsInv, QueuesInv, AnyRecord
  <1>6. NoJob.state = "absent"
    BY DEF NoJob
  <1>7. \A r \in Runs : /\ job'[r].state = "completed" => r \in shown
                        /\ job'[r].state # "absent" => job[r].state # "absent"
                        /\ job[r].state # "absent" => job'[r].state # "absent" \/ r \in shown
    <2> SUFFICES ASSUME NEW r \in Runs
                 PROVE  /\ job'[r].state = "completed" => r \in shown
                        /\ job'[r].state # "absent" => job[r].state # "absent"
                        /\ job[r].state # "absent" => job'[r].state # "absent" \/ r \in shown
      OBVIOUS
    <2>1. /\ job[r].state = "completed" => r \in shown
          /\ r = id /\ at[w] = "returned" => r \in shown
      BY <1>4 DEF CodingInv, CodingParts, PostsReported
    <2>2. CASE job'[r] = job[r]
      BY <2>1, <2>2
    <2>3. CASE job'[r] # job[r] /\ r # id
      BY <1>2, <1>9, <2>1, <2>3
    <2>4. CASE job'[r] # job[r] /\ r = id
      BY <1>2, <1>4, <1>9, <2>1
    <2> QED BY <2>2, <2>3, <2>4
  <1>8. \A r \in Runs : Reported(r)' <=> Reported(r)
    BY <1>1, <1>7 DEF Reported
  <1>20. CodingPlaces'
    BY <1>1, <1>2, <1>3, <1>4, <1>9
    DEF CodingPlaces, CodingInv, CodingParts, TaskPlaces
  <1>21. CodingTypeOK'
    BY <1>1, <1>2, <1>3, <1>4 DEF CodingTypeOK, CodingInv, CodingParts
  <1>22. RunsCounted'
    <2> SUFFICES ASSUME NEW t \in Tasks
                 PROVE  /\ job'[t].state \in {"waiting", "delayed"} =>
                             ran[t] <= job'[t].made + job'[t].stalls
                        /\ job'[t].state = "active" =>
                             ran[t] <= 1 + job'[t].made + job'[t].stalls
      BY <1>1 DEF RunsCounted
    <2>1. /\ job[t].state \in {"waiting", "delayed"} => ran[t] <= job[t].made + job[t].stalls
          /\ job[t].state = "active" => ran[t] <= 1 + job[t].made + job[t].stalls
          /\ ran[t] \in Nat
      BY DEF CodingInv, CodingParts, RunsCounted, CodingTypeOK
    <2>2. CASE job'[t] = job[t]
      BY <2>1, <2>2
    <2>3. CASE t # id /\ job'[t] # job[t]
      BY <1>2, <1>6, <1>9, <2>3
    <2>4. CASE t = id /\ job'[t] # job[t]
      BY <1>2, <1>4, <1>5, <1>6, <1>9, <2>1
    <2> QED BY <2>2, <2>3, <2>4
  <1>23. PostsReported'
    BY <1>1, <1>2, <1>3, <1>4, <1>9
    DEF PostsReported, CodingInv, CodingParts, Reported
  <1>24. SessionSetting => SessionsFollow'
    <2> SUFFICES ASSUME SessionSetting PROVE SessionsFollow'
      OBVIOUS
    <2>1. SessionsFollow
      BY DEF CodingInv, CodingParts
    <2>2. \A th \in Threads : ThreadFollows(th)'
      BY <1>1, <1>3, <1>8, <2>1
      DEF SessionsFollow, ThreadFollows, Remembers, OfOneRepo
    <2>3. ASSUME NEW v \in Workers, at'[v] \in TaskPlaces, at'[v] \notin {"preparing", "finding"}
          PROVE  WorkerFollows(v)'
      <3>1. WorkerFollows(v)
        BY <2>1 DEF SessionsFollow
      <3>2. at'[v] = at[v] /\ session'[v] = session[v] /\ cur'[v] = cur[v]
        BY <1>3, <1>8, <2>3 DEF TaskPlaces
      <3>3. ThreadAt(v)' = ThreadAt(v)
        BY <3>2 DEF ThreadAt
      <3> QED BY <1>1, <1>3, <1>8, <3>1, <3>3
          DEF WorkerFollows, Remembers, OfOneRepo
    <2>4. ASSUME NEW v \in Workers, ~(at'[v] \in TaskPlaces /\ at'[v] \notin {"preparing", "finding"})
          PROVE  WorkerFollows(v)'
      BY <2>4 DEF WorkerFollows, TaskPlaces
    <2> QED BY <2>2, <2>3, <2>4 DEF SessionsFollow
  <1>25. SummarySetting => SummariesQueued'
    <2> SUFFICES ASSUME SummarySetting PROVE SummariesQueued'
      OBVIOUS
    <2>1. \A r \in Runs : job[r].state # "absent" => job'[r].state # "absent"
      <3>1. \A r \in Runs : QueueOf[r] = SummaryQueue
        BY CodingIds
      <3>2. KeepsAll(SummaryQueue) /\ TaskQueue # SummaryQueue
        BY DEF SummarySetting, TaskQueue, SummaryQueue
      <3> TAKE r \in Runs
      <3>4. CASE job' = job
        BY <3>4
      <3>5. CASE HoldsLock(w, id) /\ at[w] = "returned"
        BY <1>2, <1>9, <3>1, <3>2
      <3>6. CASE HoldsLock(w, id) /\ at[w] = "threw"
        BY <1>2, <1>9, <3>6
      <3> QED BY <1>2, <3>4, <3>5, <3>6
    <2>2. \A t \in Tasks : Summarized(t) => Summarized(t)'
      BY <2>1 DEF Summarized
    <2>3. SummariesQueued
      BY DEF CodingInv, CodingParts
    <2>4. \A t \in Tasks : job'[t].state = "completed" => Summarized(t)
      <3> TAKE t \in Tasks
      <3>1. CASE t # id
        BY <1>2, <1>9, <2>3, <3>1 DEF SummariesQueued
      <3>2. CASE t = id
        BY <1>2, <1>4, <2>3, <3>2 DEF SummariesQueued
      <3> QED BY <3>1, <3>2
    <2>5. ASSUME NEW t \in Tasks, NEW v \in Workers, cur'[v] = t, at'[v] = "returned"
          PROVE  Summarized(t)
      BY <1>3, <2>3, <2>5 DEF SummariesQueued
    <2> QED BY <2>2, <2>4, <2>5 DEF SummariesQueued
  <1>26. TaskSetting => LeftoversTried'
    <2> SUFFICES ASSUME TaskSetting PROVE LeftoversTried'
      OBVIOUS
    <2>1. LeftoversTried
      BY DEF CodingInv, CodingParts
    <2>2. \A t \in Tasks : /\ t # id => job'[t] = job[t]
                           /\ Tried(t) => Tried(t)'
      <3> TAKE t \in Tasks
      <3>1. KeepsAll(TaskQueue) /\ TaskQueue # SummaryQueue
        BY DEF TaskSetting, TaskQueue, SummaryQueue
      <3>4. t # id => job'[t] = job[t]
        BY <1>2, <1>9, <3>1
      <3>5. t = id => (Tried(t) => Tried(t)')
        <4>1. CASE ~HoldsLock(w, id)
          BY <1>2, <4>1 DEF Tried
        <4>2. CASE HoldsLock(w, id) /\ at[w] = "returned"
          BY <1>2, <1>6, <1>9, <3>1, <4>2 DEF Tried
        <4>3. CASE HoldsLock(w, id) /\ at[w] = "threw"
          BY <1>2, <1>5, <4>3 DEF Tried
        <4> QED BY <1>2, <4>1, <4>2, <4>3
      <3>6. t # id => (Tried(t) => Tried(t)')
        BY <3>4 DEF Tried
      <3> QED BY <3>4, <3>5, <3>6
    <2>3. id \in Tasks => \A v \in Workers : v # w => cur[v] \notin Tasks
      BY <1>4, OneTaskAtATime DEF TaskSetting, SessionSetting
    <2>4. ASSUME NEW v \in Workers, cur'[v] \in Tasks
          PROVE  /\ v # w /\ cur'[v] = cur[v] /\ cur[v] # id
                 /\ (HoldsLock(v, cur[v]) \/ Tried(cur[v]))'
      <3>1. v # w /\ cur'[v] = cur[v] /\ at'[v] = at[v]
        BY <1>3, <1>9, <2>4
      <3>2. cur[v] # id
        BY <2>3, <2>4, <3>1
      <3>3. HoldsLock(v, cur[v]) \/ Tried(cur[v])
        BY <2>1, <2>4, <3>1 DEF LeftoversTried
      <3> QED BY <2>2, <2>4, <3>1, <3>2, <3>3 DEF HoldsLock, Tried
    <2>5. \A v \in Workers : \A r \in live[v] : r[1] \in Tasks
      BY <1>9 DEF CodingInv, CodingParts, CodingTypeOK
    <2>6. \A v \in Workers : v # w => Run(v)' = Run(v)
      BY <1>1, <1>3 DEF Run
    <2>7. \A r \in live[w] : Tried(r[1])'
      <3> TAKE r \in live[w]
      <3>1. CASE Tried(r[1])
        BY <2>2, <2>5, <3>1
      <3>2. CASE ~Tried(r[1])
        <4>1. r = Run(w)
          BY <2>1, <3>2 DEF LeftoversTried
        <4>2. r[1] = id
          BY <1>4, <4>1 DEF Run
        <4>3. id \in Tasks
          BY <2>5, <4>2
        <4>4. at[w] = "threw"
          BY <1>2, <1>4, <2>1, <4>1, <4>3 DEF LeftoversTried
        <4>5. HoldsLock(w, id)
          BY <1>4, <2>1, <3>2, <4>2, <4>3 DEF LeftoversTried
        <4> QED BY <1>2, <1>5, <4>2, <4>3, <4>4, <4>5 DEF Tried
      <3> QED BY <3>1, <3>2
    <2>8. \A v \in Workers : \A r \in live[v] :
            (cur'[v] # None /\ r = Run(v)') \/ Tried(r[1])'
      <3> SUFFICES ASSUME NEW v \in Workers, v # w, NEW r \in live[v]
                   PROVE  (cur'[v] # None /\ r = Run(v)') \/ Tried(r[1])'
        BY <2>7
      <3>1. (cur[v] # None /\ r = Run(v)) \/ Tried(r[1])
        BY <2>1 DEF LeftoversTried
      <3> QED BY <1>3, <2>2, <2>5, <2>6, <3>1
    <2>9. ASSUME NEW v \in Workers, cur'[v] \in Tasks,
                 at'[v] \in {"saving", "writing", "summarizing", "returned"}
          PROVE  Run(v)' \notin live[v]
      <3>1. v # w /\ cur'[v] = cur[v] /\ at'[v] = at[v]
        BY <1>3, <1>9, <2>9
      <3>2. Run(v) \notin live[v]
        BY <2>1, <2>9, <3>1 DEF LeftoversTried
      <3> QED BY <2>6, <3>1, <3>2
    <2> QED BY <1>1, <2>4, <2>8, <2>9 DEF LeftoversTried
  <1> QED BY <1>20, <1>21, <1>22, <1>23, <1>24, <1>25, <1>26
      DEF CodingParts, SessionSetting, SummarySetting, TaskSetting, KeepsAll,
          OneProcessor, JobsOf

LEMMA CrashCodingKeeps ==
  ASSUME CodingInv, NEW w \in Workers, CrashCoding(w)
  PROVE  CodingParts'
  <1>1. /\ job' = job /\ file' = file /\ ran' = ran /\ unread' = unread /\ used' = used
        /\ shown' = shown
        /\ session' = [session EXCEPT ![w] = NoSession]
        /\ live' = [live EXCEPT ![w] = {}]
    BY DEF CrashCoding, Crash, queues
  <1>2. /\ \A v \in Workers : v # w => at'[v] = at[v] /\ cur'[v] = cur[v]
        /\ at'[w] = "idle" /\ cur'[w] = None
    BY DEF CrashCoding, Crash
  <1>3. /\ session' \in [Workers -> Sessions] /\ live' \in [Workers -> SUBSET Runs]
        /\ \A v \in Workers : v # w => session'[v] = session[v] /\ live'[v] = live[v]
        /\ live'[w] = {}
    <2>1. NoSession \in Sessions
      BY DEF NoSession, Sessions
    <2> QED BY <1>1, <2>1 DEF CodingInv, CodingParts, CodingTypeOK
  <1>9. /\ \A d \in Tasks : d \in Jobs /\ QueueOf[d] = TaskQueue
        /\ \A r \in Runs : r \in Jobs /\ r[1] \in Tasks /\ r \notin Tasks
        /\ None \notin Tasks /\ None \notin Runs
    BY CodingIds DEF CodingJobs
  <1>4. \A r \in Runs : Reported(r)' <=> Reported(r)
    BY <1>1 DEF Reported
  <1>20. CodingPlaces'
    BY <1>1, <1>2, <1>9 DEF CodingPlaces, CodingInv, CodingParts, TaskPlaces
  <1>21. CodingTypeOK'
    BY <1>1, <1>3 DEF CodingTypeOK, CodingInv, CodingParts
  <1>22. RunsCounted'
    BY <1>1 DEF RunsCounted, CodingInv, CodingParts
  <1>23. PostsReported'
    BY <1>1, <1>2, <1>9 DEF PostsReported, CodingInv, CodingParts, Reported
  <1>24. SessionSetting => SessionsFollow'
    <2> SUFFICES ASSUME SessionSetting PROVE SessionsFollow'
      OBVIOUS
    <2>1. SessionsFollow
      BY DEF CodingInv, CodingParts
    <2>2. \A th \in Threads : ThreadFollows(th)'
      BY <1>1, <1>4, <2>1
      DEF SessionsFollow, ThreadFollows, Remembers, OfOneRepo
    <2>3. ASSUME NEW v \in Workers, at'[v] \in TaskPlaces, at'[v] \notin {"preparing", "finding"}
          PROVE  WorkerFollows(v)'
      <3>1. WorkerFollows(v)
        BY <2>1 DEF SessionsFollow
      <3>2. at'[v] = at[v] /\ session'[v] = session[v] /\ cur'[v] = cur[v]
        BY <1>2, <1>3, <1>4, <2>3 DEF TaskPlaces
      <3>3. ThreadAt(v)' = ThreadAt(v)
        BY <3>2 DEF ThreadAt
      <3> QED BY <1>1, <1>2, <1>4, <3>1, <3>3
          DEF WorkerFollows, Remembers, OfOneRepo
    <2>4. ASSUME NEW v \in Workers, ~(at'[v] \in TaskPlaces /\ at'[v] \notin {"preparing", "finding"})
          PROVE  WorkerFollows(v)'
      BY <2>4 DEF WorkerFollows, TaskPlaces
    <2> QED BY <2>2, <2>3, <2>4 DEF SessionsFollow
  <1>25. SummarySetting => SummariesQueued'
    BY <1>1, <1>2 DEF SummariesQueued, CodingInv, CodingParts, Summarized
  <1>26. TaskSetting => LeftoversTried'
    <2> SUFFICES ASSUME TaskSetting PROVE LeftoversTried'
      OBVIOUS
    <2>1. LeftoversTried
      BY DEF CodingInv, CodingParts
    <2>2. \A v \in Workers : v # w => Run(v)' = Run(v)
      BY <1>1, <1>2 DEF Run
    <2> QED BY <1>1, <1>2, <1>3, <1>9, <2>1, <2>2
        DEF LeftoversTried, Tried, HoldsLock
  <1> QED BY <1>20, <1>21, <1>22, <1>23, <1>24, <1>25, <1>26
      DEF CodingParts, SessionSetting, SummarySetting, TaskSetting, KeepsAll,
          OneProcessor, JobsOf

LEMMA CodingBegins == ProcessorsInit /\ CodingInit => CodingInv
  <1> SUFFICES ASSUME ProcessorsInit, CodingInit PROVE CodingInv
    OBVIOUS
  <1>1. ProcessorsInv
    BY ProcessorsInitInv
  <1>2. /\ \A id \in CodingJobs : job[id].state = "absent"
        /\ \A w \in Workers : at[w] = "idle" /\ cur[w] = None
    BY CodingIds DEF ProcessorsInit, NoJob
  <1>3. /\ Tasks \subseteq CodingJobs /\ Runs \subseteq CodingJobs /\ None \notin CodingJobs
        /\ \A t \in Tasks : 0 \in 0..MaxRuns
    BY CodingIds DEF CodingJobs
  <1>4. /\ file = [th \in Threads |-> NoSession]
        /\ session = [w \in Workers |-> NoSession]
        /\ ran = [t \in Tasks |-> 0] /\ live = [w \in Workers |-> {}]
        /\ used = [t \in Tasks |-> None] /\ shown = {}
        /\ unread = [th \in Threads |-> {}]
        /\ NoSession \in Sessions /\ NoSession.state = "none"
    BY DEF CodingInit, NoSession, Sessions
  <1>5. CodingPlaces /\ CodingTypeOK /\ RunsCounted /\ PostsReported
    BY <1>2, <1>3, <1>4
    DEF CodingPlaces, TaskPlaces, CodingTypeOK, RunsCounted, PostsReported
  <1>6. SessionsFollow
    <2>1. \A r \in Runs : ~Reported(r)
      BY <1>2, <1>3, <1>4 DEF Reported
    <2> QED BY <1>2, <1>4, <2>1
        DEF SessionsFollow, ThreadFollows, WorkerFollows, Remembers
  <1>7. SummariesQueued /\ LeftoversTried
    BY <1>2, <1>3, <1>4 DEF SummariesQueued, LeftoversTried
  <1> QED BY <1>1, <1>5, <1>6, <1>7 DEF CodingInv, CodingParts

LEMMA CodingStep ==
  ASSUME CodingInv, [CodingNext]_coding
  PROVE  CodingInv'
  <1>1. ProcessorsInv'
    BY CodingIsProcessors, ProcessorsStepInv DEF CodingInv
  <1>2. CodingParts'
    <2>1. CASE UNCHANGED coding
      <3>1. UNCHANGED <<job, at, cur, file, session, ran, live, used, shown, unread>>
        BY <2>1 DEF coding, codingVars, queues, attempts
      <3>2. CodingPlaces' /\ CodingTypeOK' /\ RunsCounted' /\ PostsReported'
        BY <3>1
        DEF CodingInv, CodingParts, CodingPlaces, CodingTypeOK, RunsCounted,
            PostsReported, Reported
      <3>3. SessionSetting => SessionsFollow'
        BY <3>1
        DEF CodingInv, CodingParts, SessionsFollow, ThreadFollows,
            WorkerFollows, Remembers, OfOneRepo, Reported, ThreadAt
      <3>4. SummarySetting => SummariesQueued'
        BY <3>1 DEF CodingInv, CodingParts, SummariesQueued, Summarized
      <3>5. TaskSetting => LeftoversTried'
        BY <3>1
        DEF CodingInv, CodingParts, LeftoversTried, HoldsLock, Tried, Run
      <3> QED BY <3>2, <3>3, <3>4, <3>5
          DEF CodingParts, SessionSetting, SummarySetting, TaskSetting
    <2>2. ASSUME NEW t \in Tasks, NEW o \in Outcomes, Delegate(t, o) PROVE CodingParts'
      BY <2>2, DelegateKeeps
    <2>3. ASSUME NEW id \in CodingJobs, CodingTimer(id) PROVE CodingParts'
      BY <2>3, CodingTimerKeeps
    <2>4. ASSUME NEW w \in Workers, ServeCoding(w) PROVE CodingParts'
      BY <2>4, TakeTaskKeeps, TakeSummaryKeeps, GiveUpKeeps
      DEF ServeCoding, CodingJobs
    <2>5. ASSUME NEW w \in Workers, AttendCoding(w) PROVE CodingParts'
      BY <2>5, MakeWorkspaceKeeps, FindSessionKeeps, OpenSessionKeeps, StopSessionKeeps,
         TruncateKeeps, WriteOutKeeps, SummarizeKeeps, PostSummaryKeeps,
         EndCodingKeeps
      DEF AttendCoding
    <2>6. ASSUME NEW w \in Workers, NEW ok, Generate(w, ok) PROVE CodingParts'
      BY <2>6, GenerateKeeps
    <2>7. ASSUME NEW w \in Workers, CrashCoding(w) PROVE CodingParts'
      BY <2>7, CrashCodingKeeps
    <2> QED BY <2>1, <2>2, <2>3, <2>4, <2>5, <2>6, <2>7
        DEF CodingNext, CodingJobs
  <1> QED BY <1>1, <1>2 DEF CodingInv

LEMMA CodingInductive == CodingSpec => []CodingInv
  <1>1. CodingInv /\ [CodingNext]_coding => CodingInv'
    BY CodingStep
  <1> QED BY <1>1, CodingBegins, PTL DEF CodingSpec

(* Where one coding worker runs, every run finds the work its thread was   *)
(* told of in its session, and no session mixes two repositories, whatever *)
(* fails in the middle of a save: the work that was there when a find was  *)
(* rejected, and the session started anew, is all that can be lost.        *)
THEOREM CodingSessionIsKept ==
  ASSUME SessionSetting
  PROVE  CodingSpec => []SessionIsKept
  <1>1. CodingInv => SessionIsKept
    <2> SUFFICES ASSUME CodingInv PROVE SessionIsKept
      OBVIOUS
    <2>1. SessionsFollow
      BY DEF CodingInv, CodingParts
    <2>2. ContinuesTheThread
      BY <2>1
      DEF SessionsFollow, WorkerFollows, Remembers, Reported,
          ContinuesTheThread
    <2>3. OneRepoPerSession
      BY <2>1 DEF SessionsFollow, ThreadFollows, OfOneRepo, OneRepoPerSession
    <2> QED BY <2>2, <2>3 DEF SessionIsKept
  <1> QED BY <1>1, CodingInductive, PTL

(* Where one coding worker runs and the jobs considered are retained, a    *)
(* completed task has queued its summary, and an agent is left running     *)
(* only by an attempt that failed or lost its lock.                        *)
THEOREM CodingWorkEndsClean ==
  ASSUME SummarySetting, TaskSetting
  PROVE  CodingSpec => []WorkEndsClean
  <1>1. CodingInv => WorkEndsClean
    <2> SUFFICES ASSUME CodingInv PROVE WorkEndsClean
      OBVIOUS
    <2>1. CompletedIsSummarized
      BY DEF CodingInv, CodingParts, SummariesQueued, Summarized,
           CompletedIsSummarized
    <2>2. \A w \in Workers : \A r \in live[w] :
            /\ (cur[w] # None /\ r = Run(w)) \/ Tried(r[1])
            /\ job[r[1]].made \in Nat /\ job[r[1]].stalls \in Nat
      <3>1. \A w \in Workers : \A r \in live[w] : r[1] \in Jobs
        BY CodingIds DEF CodingInv, CodingParts, CodingTypeOK, CodingJobs
      <3>2. \A id \in Jobs : job[id].made \in Nat /\ job[id].stalls \in Nat
        BY DEF CodingInv, ProcessorsInv, QueuesInv, AnyRecord
      <3> QED BY <3>1, <3>2 DEF CodingInv, CodingParts, LeftoversTried
    <2>3. LeftoversHadTrouble
      BY <2>2 DEF LeftoversHadTrouble, Tried
    <2> QED BY <2>1, <2>3 DEF WorkEndsClean
  <1> QED BY <1>1, CodingInductive, PTL

(* Its two queues behave as JobQueues.                                     *)
THEOREM CodingQueuesAreJobQueues == CodingSpec => QueuesAreJobQueues
  <1>1. CodingInv /\ [CodingNext]_coding => [ProcessorsNext]_<<queues, attempts, faults>>
    BY CodingIsProcessors
  <1> QED BY <1>1, CodingInductive, ProcessorsAreJobQueues, PTL DEF CodingSpec

-----------------------------------------------------------------------------
(* A command that was reported as a success did succeed, whatever was      *)
(* aborted, killed or left in the background.                              *)

(* bash exits with a code only when it ends by itself, and what holds its  *)
(* streams was started while it ran, so that none comes after the end.     *)
SandboxInv ==
    /\ bash \in {"none", "running", "dying", "gone"}
    /\ phase = "token" => bash = "none"
    /\ bash # "gone" => code = Killed
    /\ phase = "returned" /\ exitCode = 0 => bash = "gone" /\ code = 0 /\ ~background

LEMMA SandboxStepInv == SandboxInv /\ [SandboxNext]_sandboxVars => SandboxInv'
  BY DEF SandboxInv, SandboxNext, sandboxVars, Spawn, SpawnFails, TokenFails,
       Abort, Background, BashExits, BashIsKilled, BackgroundEnds, Close

(* exitCode 0 is answered only for a bash that was started, exited by      *)
(* itself with 0, and left nothing in the background.                      *)
THEOREM SandboxSuccessIsReal == SandboxInit /\ [][SandboxNext]_sandboxVars => []SuccessIsReal
  <1>1. SandboxInit => SandboxInv
    BY SandboxAssumption DEF SandboxInit, SandboxInv
  <1>2. SandboxInv => SuccessIsReal
    BY DEF SandboxInv, SuccessIsReal
  <1> QED BY <1>1, <1>2, SandboxStepInv, PTL

-----------------------------------------------------------------------------
(* The assistant listens only when it is fully equipped, and replies once  *)
(* to a mention, for any servers, mentions and faults of Slack.            *)

(* Once registered, no server is still being connected to, so that the     *)
(* tools that were handed over stay all there are.                         *)
Equipped ==
    /\ registered => tools = Available /\ \A c \in Clients : client[c] # "connecting"
    /\ listening => registered

(* Nothing is posted before a handler ends; an error moves troubles on     *)
(* before anything else happens.                                           *)
RepliesAddUp ==
    \A m \in Mentions :
      /\ reply[m] # "ended" => said[m].answers = 0 /\ said[m].apologies = 0
      /\ reply[m] = "ended" => said[m].answers + said[m].apologies <= 1
      /\ reply[m] = "ended" /\ m \notin stopped =>
           said[m].answers + said[m].apologies = 1

QuietReplies == troubles = 0 => RepliesAddUp

StartOK ==
    /\ client \in [Clients -> {"connecting", "connected", "unavailable"}]
    /\ registered \in BOOLEAN /\ listening \in BOOLEAN

ReplyOK ==
    /\ reply \in [Mentions -> {"new", "typing", "reading", "generating",
                               "answering", "failing", "caught", "ended"}]
    /\ said \in [Mentions -> [answers : Nat, apologies : Nat]]
    /\ troubles \in Nat

EquipInv == StartOK /\ Equipped
ReplyInv == ReplyOK /\ QuietReplies

-----------------------------------------------------------------------------
LEMMA EquipInit == AssistantInit => EquipInv
  BY DEF AssistantInit, EquipInv, StartOK, Equipped

(* What handles mentions leaves the start alone.                           *)
LEMMA RepliesKeepStart ==
    ASSUME NEW m \in Mentions,
           \/ OnNewMention(m) \/ Handle(m) \/ StopReply(m)
           \/ \E r \in {"text", "empty", "tool-calls", "threw"} : GenerateReply(m, r)
    PROVE  UNCHANGED startVars
  BY DEF OnNewMention, Handle, StopReply, GenerateReply, StartTyping, ReadThreadHistory,
         PostAnswer, PostFailure, Apologize, startVars

LEMMA EquipStep == EquipInv /\ [AssistantNext]_assistantVars => EquipInv'
  <1> SUFFICES ASSUME EquipInv, [AssistantNext]_assistantVars PROVE EquipInv'
    OBVIOUS
  <1> USE DEF EquipInv, StartOK, Equipped, Available
  <1>1. CASE UNCHANGED startVars
    BY <1>1 DEF startVars
  <1>2. ASSUME NEW c \in Clients, NEW ok \in BOOLEAN, Connect(c, ok) PROVE EquipInv'
    <2>1. ~registered /\ ~listening
      BY <1>2 DEF Connect
    <2> QED BY <1>2, <2>1 DEF Connect
  <1>3. CASE Register
    BY <1>3 DEF Register
  <1>4. CASE Listen
    BY <1>4 DEF Listen
  <1>5. CASE Restart
    BY <1>5 DEF Restart
  <1>6. CASE UNCHANGED assistantVars
    BY <1>1, <1>6 DEF assistantVars, startVars
  <1> QED BY <1>1, <1>2, <1>3, <1>4, <1>5, <1>6, RepliesKeepStart DEF AssistantNext, Start

(* While webhooks are answered, the assistant is registered and has the    *)
(* tools of every server that was reached: onApplicationBootstrap comes    *)
(* after every onModuleInit, and app.listen after it.                      *)
THEOREM AssistantListensEquipped == AssistantSpec => []ListensFullyEquipped
  <1>1. EquipInv => ListensFullyEquipped
    BY DEF EquipInv, Equipped, ListensFullyEquipped
  <1> QED BY <1>1, EquipInit, EquipStep, PTL DEF AssistantSpec

-----------------------------------------------------------------------------
LEMMA ReplyInit == AssistantInit => ReplyInv
  BY DEF AssistantInit, ReplyInv, ReplyOK, QuietReplies, RepliesAddUp

(* A step that counts an error owes nothing to the order of the replies.   *)
LEMMA TroubledKeeps ==
    ASSUME ReplyOK', troubles' # 0
    PROVE  ReplyInv'
  BY DEF ReplyInv, QuietReplies

(* A step of one handler that ends at to, and posts or not.                *)
LEMMA HandlerKeeps ==
    ASSUME ReplyInv, NEW m \in Mentions, reply[m] # "ended",
           UNCHANGED <<stopped, troubles>>,
           NEW to \in {"typing", "reading", "generating", "answering", "failing",
                       "caught", "ended"},
           reply' = [reply EXCEPT ![m] = to],
           \/ UNCHANGED said /\ (to = "ended" => m \in stopped)
           \/ to = "ended" /\ said' = [said EXCEPT ![m]["answers"] = @ + 1]
           \/ to = "ended" /\ said' = [said EXCEPT ![m]["apologies"] = @ + 1]
    PROVE  ReplyInv'
  <1> USE DEF ReplyInv, ReplyOK
  <1>1. ReplyOK'
    OBVIOUS
  <1>2. ASSUME troubles' = 0 PROVE RepliesAddUp'
    <2> SUFFICES ASSUME NEW n \in Mentions
                 PROVE  /\ reply'[n] # "ended" => said'[n].answers = 0 /\ said'[n].apologies = 0
                        /\ reply'[n] = "ended" => said'[n].answers + said'[n].apologies <= 1
                        /\ reply'[n] = "ended" /\ n \notin stopped' =>
                             said'[n].answers + said'[n].apologies = 1
      BY DEF RepliesAddUp
    <2>1. RepliesAddUp
      BY <1>2 DEF QuietReplies
    <2>2. CASE n # m
      <3>1. reply'[n] = reply[n] /\ said'[n] = said[n]
        BY <2>2
      <3> QED BY <3>1, <2>1 DEF RepliesAddUp
    <2>3. CASE n = m
      <3>1. reply'[n] = to
        BY <2>3
      <3>2. said[n].answers = 0 /\ said[n].apologies = 0
        BY <2>1, <2>3 DEF RepliesAddUp
      <3>3. CASE UNCHANGED said /\ (to = "ended" => m \in stopped)
        BY <3>1, <3>2, <3>3, <2>3
      <3>4. CASE to = "ended" /\ said' = [said EXCEPT ![m]["answers"] = @ + 1]
        <4>1. said'[n].answers = 1 /\ said'[n].apologies = 0
          BY <3>2, <3>4, <2>3
        <4> QED BY <3>1, <3>4, <4>1
      <3>5. CASE to = "ended" /\ said' = [said EXCEPT ![m]["apologies"] = @ + 1]
        <4>1. said'[n].answers = 0 /\ said'[n].apologies = 1
          BY <3>2, <3>5, <2>3
        <4> QED BY <3>1, <3>5, <4>1
      <3> QED BY <3>3, <3>4, <3>5
    <2> QED BY <2>2, <2>3
  <1> QED BY <1>1, <1>2 DEF QuietReplies

(* A call that errs is counted, whatever it does otherwise.                *)
LEMMA ErredIsCounted ==
    ASSUME ReplyOK, NEW o, Answered(o), o # "ok"
    PROVE  troubles' \in Nat /\ troubles' # 0
  BY DEF ReplyOK, Answered, Trouble

LEMMA ReplyTypes ==
    ASSUME ReplyOK, NEW m \in Mentions,
           NEW to \in {"typing", "reading", "generating", "answering", "failing",
                       "caught", "ended"},
           reply' = [reply EXCEPT ![m] = to],
           NEW what \in {"answers", "apologies"}, NEW o,
           UNCHANGED said \/ Say(m, what, o),
           troubles' \in Nat
    PROVE  ReplyOK'
  <1>1. said' \in [Mentions -> [answers : Nat, apologies : Nat]]
    <2>1. CASE UNCHANGED said
      BY <2>1 DEF ReplyOK
    <2>2. CASE what = "answers" /\ Say(m, what, o)
      BY <2>2 DEF ReplyOK, Say
    <2>3. CASE what = "apologies" /\ Say(m, what, o)
      BY <2>3 DEF ReplyOK, Say
    <2> QED BY <2>1, <2>2, <2>3
  <1> QED BY <1>1 DEF ReplyOK

LEMMA HandleKeeps ==
    ASSUME ReplyInv, NEW m \in Mentions, registered \in BOOLEAN, Handle(m)
    PROVE  ReplyInv'
  <1>1. PICK o \in Answers : \/ StartTyping(m, o) \/ ReadThreadHistory(m, o)
                             \/ PostAnswer(m, o) \/ PostFailure(m, o) \/ Apologize(m, o)
    BY DEF Handle
  <1> USE DEF Caught
  <1>2. Answered(o)
    BY <1>1 DEF StartTyping, ReadThreadHistory, PostAnswer, PostFailure, Apologize
  <1>3. CASE o # "ok"
    <2>1. troubles' \in Nat /\ troubles' # 0
      BY <1>2, <1>3, ErredIsCounted DEF ReplyInv
    <2>2. ReplyOK
      BY DEF ReplyInv
    <2>3. ReplyOK'
      <3>1. CASE StartTyping(m, o)
        BY <3>1, <1>3, <2>1, <2>2, ReplyTypes DEF StartTyping
      <3>2. CASE ReadThreadHistory(m, o)
        BY <3>2, <1>3, <2>1, <2>2, ReplyTypes DEF ReadThreadHistory
      <3>3. CASE PostAnswer(m, o)
        BY <3>3, <1>3, <2>1, <2>2, ReplyTypes DEF PostAnswer
      <3>4. CASE PostFailure(m, o)
        BY <3>4, <1>3, <2>1, <2>2, ReplyTypes DEF PostFailure
      <3>5. CASE Apologize(m, o)
        BY <3>5, <1>3, <2>1, <2>2, ReplyTypes DEF Apologize
      <3> QED BY <1>1, <3>1, <3>2, <3>3, <3>4, <3>5
    <2> QED BY <2>1, <2>3, TroubledKeeps
  <1>4. CASE o = "ok"
    <2>0. UNCHANGED troubles
      BY <1>2, <1>4 DEF Answered
    <2>1. CASE StartTyping(m, o)
      BY <2>0, <2>1, <1>4, HandlerKeeps DEF StartTyping
    <2>2. CASE ReadThreadHistory(m, o)
      BY <2>0, <2>2, <1>4, HandlerKeeps DEF ReadThreadHistory
    <2>3. CASE PostAnswer(m, o)
      BY <2>0, <2>3, <1>4, HandlerKeeps DEF PostAnswer, Say
    <2>4. CASE PostFailure(m, o)
      BY <2>0, <2>4, <1>4, HandlerKeeps DEF PostFailure, Say
    <2>5. CASE Apologize(m, o)
      BY <2>0, <2>5, <1>4, HandlerKeeps DEF Apologize, Say
    <2> QED BY <1>1, <2>1, <2>2, <2>3, <2>4, <2>5
  <1> QED BY <1>3, <1>4

LEMMA ReplyStep == EquipInv /\ ReplyInv /\ [AssistantNext]_assistantVars => ReplyInv'
  <1> SUFFICES ASSUME EquipInv, ReplyInv, [AssistantNext]_assistantVars PROVE ReplyInv'
    OBVIOUS
  <1>1. CASE UNCHANGED <<replyVars, troubles>>
    BY <1>1 DEF replyVars, ReplyInv, ReplyOK, QuietReplies, RepliesAddUp
  <1>2. CASE Restart
    BY <1>2, TroubledKeeps DEF Restart, Trouble, ReplyInv, ReplyOK
  <1>3. ASSUME NEW m \in Mentions, OnNewMention(m) PROVE ReplyInv'
    BY <1>3, HandlerKeeps DEF OnNewMention
  <1>4. ASSUME NEW m \in Mentions, Handle(m) PROVE ReplyInv'
    BY <1>4, HandleKeeps DEF EquipInv, StartOK
  <1>5. ASSUME NEW m \in Mentions, StopReply(m) PROVE ReplyInv'
    BY <1>5 DEF StopReply, ReplyInv, ReplyOK, QuietReplies, RepliesAddUp
  <1>6. ASSUME NEW m \in Mentions, NEW r, GenerateReply(m, r) PROVE ReplyInv'
    BY <1>6, HandlerKeeps DEF GenerateReply, Caught
  <1>7. CASE Start
    BY <1>1, <1>7 DEF Start, Connect, Register, Listen, replyVars
  <1>8. CASE UNCHANGED assistantVars
    BY <1>1, <1>8 DEF assistantVars, replyVars
  <1> QED BY <1>2, <1>3, <1>4, <1>5, <1>6, <1>7, <1>8 DEF AssistantNext

(* Unless Slack errs or the process dies, a mention gets an answer or an   *)
(* apology, not both and not neither, unless the user stopped the reply.   *)
THEOREM AssistantRepliesOnce == AssistantSpec => []OneReplyPerMention
  <1>1. ReplyInv => OneReplyPerMention
    BY DEF ReplyInv, ReplyOK, QuietReplies, RepliesAddUp, OneReplyPerMention
  <1> QED BY <1>1, EquipInit, EquipStep, ReplyInit, ReplyStep, PTL DEF AssistantSpec

-----------------------------------------------------------------------------
(* The file tools of the artifact builder.                                 *)

(* Induction, in terms of the set of numbers for which a fact holds.       *)
LEMMA Induction ==
  ASSUME NEW S, 0 \in S, \A n \in S \cap Nat : n + 1 \in S
  PROVE  Nat \subseteq S
  <1> SUFFICES ASSUME Nat \ S # {} PROVE FALSE
    OBVIOUS
  <1> DEFINE Rest == Nat \ S
  <1>1. PICK n \in Rest : \A i \in Rest : ~(<<i, n>> \in OpToRel(<, Nat))
    <2>1. Rest \subseteq Nat /\ Rest # {}
      OBVIOUS
    <2> HIDE DEF Rest
    <2> QED BY <2>1, NatLessThanWellFounded, WFMin, Zenon
  <1>2. n \in Rest /\ \A i \in Rest : ~(i < n)
    BY <1>1, Zenon DEF OpToRel
  <1>3. n - 1 \in Nat
    BY <1>2
  <1>4. n - 1 \in S
    BY <1>2, <1>3
  <1>5. n - 1 + 1 \in S
    BY <1>3, <1>4
  <1> QED BY <1>2, <1>3, <1>5

(* How often a string occurs from each position on.                        *)
Counts(text, old, from) ==
    \A i \in 1..(2 * Len(text) + Len(old) + 1) :
      from[i] = IF i > Len(text) THEN 0
                ELSE IF MatchesAt(text, old, i) THEN 1 + from[i + Len(old)]
                ELSE from[i + 1]

(* The definition of Occurrences defines a function: there is one that     *)
(* conforms to it from any position on.                                    *)
LEMMA OccurrencesCount ==
  ASSUME NEW text \in Seq(Characters), NEW old \in Seq(Characters), old # <<>>
  PROVE  \E from : from[1] = Occurrences(text, old) /\ Counts(text, old, from)
  <1> DEFINE len == Len(text)
             step == Len(old)
             last == 2 * len + step + 1
             Rule(g, i) == IF i > len THEN 0
                           ELSE IF MatchesAt(text, old, i) THEN 1 + g[i + step]
                           ELSE g[i + 1]
             Conforms(g, n) == \A i \in 1..last : i + n > len => g[i] = Rule(g, i)
             S == {n \in Nat : \E g : g = [i \in 1..last |-> g[i]] /\ Conforms(g, n)}
             from[i \in 1..last] == Rule(from, i)
  <1>1. len \in Nat /\ step \in Nat /\ step > 0
    OBVIOUS
  <1> HIDE DEF len, step
  <1>2. 0 \in S
    <2> DEFINE g == [i \in 1..last |-> 0]
    <2>1. Conforms(g, 0)
      BY <1>1
    <2>2. g = [i \in 1..last |-> g[i]]
      OBVIOUS
    <2> QED BY <2>1, <2>2
  <1>3. ASSUME NEW n \in S \cap Nat PROVE n + 1 \in S
    <2>1. PICK g : g = [i \in 1..last |-> g[i]] /\ Conforms(g, n)
      OBVIOUS
    <2> DEFINE here == len - n
               h == [i \in 1..last |-> IF i = here THEN Rule(g, i) ELSE g[i]]
    <2>2. h = [i \in 1..last |-> h[i]]
      OBVIOUS
    <2>3. ASSUME NEW i \in 1..last, i + n + 1 > len PROVE h[i] = Rule(h, i)
      <3>1. h[i] = Rule(g, i)
        <4>1. CASE i = here
          BY <2>3, <4>1
        <4>2. CASE i # here
          <5>1. i + n > len
            BY <1>1, <2>3, <4>2
          <5>2. g[i] = Rule(g, i)
            BY <2>1, <2>3, <5>1
          <5> QED BY <2>3, <4>2, <5>2
        <4> QED BY <4>1, <4>2
      <3>2. i <= len => i + step \in 1..last /\ i + 1 \in 1..last
                        /\ i + step # here /\ i + 1 # here
        BY <1>1, <2>3
      <3>3. i <= len => h[i + step] = g[i + step] /\ h[i + 1] = g[i + 1]
        BY <3>2
      <3>4. CASE i > len
        BY <3>1, <3>4
      <3>5. CASE ~(i > len)
        <4>1. h[i + step] = g[i + step] /\ h[i + 1] = g[i + 1]
          BY <1>1, <2>3, <3>3, <3>5
        <4> HIDE DEF h
        <4> QED BY <3>1, <3>5, <4>1
      <3> QED BY <3>4, <3>5
    <2>4. Conforms(h, n + 1)
      <3> HIDE DEF h, Rule
      <3> SUFFICES ASSUME NEW i \in 1..last, i + (n + 1) > len PROVE h[i] = Rule(h, i)
        OBVIOUS
      <3> QED BY <1>1, <2>3
    <2>5. \E f : f = [i \in 1..last |-> f[i]] /\ Conforms(f, n + 1)
      <3> HIDE DEF h, Conforms, last
      <3> QED BY <2>2, <2>4
    <2>6. n + 1 \in Nat
      OBVIOUS
    <2> HIDE DEF Conforms, last
    <2> QED BY <2>5, <2>6
  <1>4. len \in S
    <2> HIDE DEF S
    <2> QED BY <1>1, <1>2, <1>3, Induction
  <1>5. PICK g : g = [i \in 1..last |-> g[i]] /\ Conforms(g, len)
    BY <1>4
  <1>6. g = [i \in 1..last |-> Rule(g, i)]
    <2>1. ASSUME NEW i \in 1..last PROVE g[i] = Rule(g, i)
      <3>1. i + len > len
        BY <1>1
      <3> HIDE DEF Rule, last
      <3> QED BY <1>5, <3>1
    <2> HIDE DEF Rule, last
    <2> QED BY <1>5, <2>1
  <1>7. from = [i \in 1..last |-> Rule(from, i)]
    <2> HIDE DEF Rule, last
    <2> QED BY <1>6 DEF from
  <1>8. from[1] = Occurrences(text, old)
    BY DEF Occurrences, from, Rule, last, len, step
  <1>9. Counts(text, old, from)
    <2> HIDE DEF from
    <2> QED BY <1>7 DEF Counts, len, step
  <1> QED BY <1>8, <1>9

(* What a count of none, and of one, says about the matches.               *)
NoneFrom(text, old, i) ==
    \A k \in 1..Len(text) : k >= i => ~MatchesAt(text, old, k)

OneFrom(text, old, i) ==
    \E m \in i..Len(text) :
      /\ MatchesAt(text, old, m)
      /\ \A k \in 1..Len(text) : k >= i /\ k < m => ~MatchesAt(text, old, k)
      /\ NoneFrom(text, old, m + Len(old))

LEMMA CountIsRight ==
  ASSUME NEW text \in Seq(Characters), NEW old \in Seq(Characters), old # <<>>,
         NEW from, Counts(text, old, from)
  PROVE  \A i \in 1..(Len(text) + Len(old)) :
           /\ from[i] \in Nat
           /\ from[i] = 0 => NoneFrom(text, old, i)
           /\ from[i] = 1 => OneFrom(text, old, i)
  <1> DEFINE len == Len(text)
             step == Len(old)
             Right(i) == /\ from[i] \in Nat
                         /\ from[i] = 0 => NoneFrom(text, old, i)
                         /\ from[i] = 1 => OneFrom(text, old, i)
             S == {n \in Nat : \A i \in 1..(len + step) : i + n > len => Right(i)}
  <1>1. len \in Nat /\ step \in Nat /\ step > 0
    OBVIOUS
  <1>2. \A i \in 1..(len + step) :
          from[i] = IF i > len THEN 0
                    ELSE IF MatchesAt(text, old, i) THEN 1 + from[i + step]
                    ELSE from[i + 1]
    BY <1>1 DEF Counts
  <1>3. NoneFrom(text, old, len + 1) /\ \A i \in Nat : i > len => NoneFrom(text, old, i)
    BY <1>1 DEF NoneFrom
  <1>4. 0 \in S
    <2>1. ASSUME NEW i \in 1..(len + step), i > len PROVE Right(i)
      BY <1>1, <1>2, <1>3, <2>1
    <2> HIDE DEF Right, len, step
    <2> QED BY <1>1, <2>1
  <1>5. ASSUME NEW n \in S \cap Nat PROVE n + 1 \in S
    <2>1. ASSUME NEW i \in 1..(len + step), i + (n + 1) > len PROVE Right(i)
      <3>1. CASE i > len
        BY <1>1, <1>2, <1>3, <3>1
      <3>2. CASE i <= len /\ MatchesAt(text, old, i)
        <4>1. /\ i + step \in 1..(len + step)
              /\ i + step + n > len
          BY <1>1, <2>1, <3>2
        <4>2. Right(i + step)
          <5> HIDE DEF Right, len, step
          <5> QED BY <4>1
        <4>3. from[i] = 1 + from[i + step]
          BY <1>1, <1>2, <3>2
        <4>4. from[i] = 1 => NoneFrom(text, old, i + step)
          BY <4>2, <4>3
        <4>5. from[i] = 1 => OneFrom(text, old, i)
          BY <1>1, <3>2, <4>4 DEF OneFrom
        <4> QED BY <4>2, <4>3, <4>5
      <3>3. CASE i <= len /\ ~MatchesAt(text, old, i)
        <4>1. /\ i + 1 \in 1..(len + step)
              /\ i + 1 + n > len
          BY <1>1, <2>1, <3>3
        <4>2. Right(i + 1)
          <5> HIDE DEF Right, len, step
          <5> QED BY <4>1
        <4>3. from[i] = from[i + 1]
          BY <1>1, <1>2, <3>3
        <4>4. NoneFrom(text, old, i + 1) => NoneFrom(text, old, i)
          BY <1>1, <3>3 DEF NoneFrom
        <4>5. OneFrom(text, old, i + 1) => OneFrom(text, old, i)
          BY <1>1, <3>3 DEF OneFrom
        <4> QED BY <4>2, <4>3, <4>4, <4>5
      <3> QED BY <1>1, <3>1, <3>2, <3>3
    <2>2. n + 1 \in Nat
      OBVIOUS
    <2> HIDE DEF Right, len, step
    <2> QED BY <2>1, <2>2
  <1>6. len \in S
    <2> HIDE DEF S
    <2> QED BY <1>1, <1>4, <1>5, Induction
  <1>7. ASSUME NEW i \in 1..(len + step) PROVE Right(i)
    <2>1. i + len > len
      BY <1>1
    <2> HIDE DEF Right, len, step
    <2> QED BY <1>6, <2>1
  <1> QED BY <1>7

(* A string that occurs once has a first match, which all others overlap.  *)
LEMMA OccursOnce ==
  ASSUME NEW text \in Seq(Characters), NEW old \in Seq(Characters), old # <<>>,
         Occurrences(text, old) = 1
  PROVE  OneFrom(text, old, 1)
  <1>1. PICK from : from[1] = Occurrences(text, old) /\ Counts(text, old, from)
    BY OccurrencesCount
  <1>2. 1 \in 1..(Len(text) + Len(old))
    OBVIOUS
  <1> QED BY <1>1, <1>2, CountIsRight

LEMMA EditIsOnce ==
  ASSUME NEW text \in Seq(Characters), text # NoPage,
         NEW e \in [old : Seq(Characters) \ {<<>>}, new : Seq(Characters)],
         ApplyEdit(text, e) # NoPage
  PROVE  EditsOnce(text, ApplyEdit(text, e), e)
  <1>1. Occurrences(text, e.old) = 1 /\ ApplyEdit(text, e) = ReplaceFirst(text, e)
    BY DEF ApplyEdit
  <1>2. OneFrom(text, e.old, 1)
    BY <1>1, OccursOnce
  <1> DEFINE First(k) == /\ MatchesAt(text, e.old, k)
                         /\ \A m \in 1..(k - 1) : ~MatchesAt(text, e.old, m)
             i == CHOOSE k \in 1..Len(text) : First(k)
  <1>3. PICK m \in 1..Len(text) : First(m) /\ NoneFrom(text, e.old, m + Len(e.old))
    BY <1>2 DEF OneFrom
  <1>4. i \in 1..Len(text) /\ First(i)
    BY <1>3
  <1>5. i = m
    <2> HIDE DEF i
    <2> QED BY <1>3, <1>4
  <1>6. ReplaceFirst(text, e) = SubSeq(text, 1, i - 1) \o e.new
                                \o SubSeq(text, i + Len(e.old), Len(text))
    BY DEF ReplaceFirst
  <1> HIDE DEF i
  <1>7. \A k \in 1..Len(text) : MatchesAt(text, e.old, k) /\ k # i =>
          k < i + Len(e.old) /\ i < k + Len(e.old)
    BY <1>3, <1>4, <1>5 DEF NoneFrom
  <1> QED BY <1>1, <1>4, <1>6, <1>7 DEF EditsOnce

(* The texts between the edits of a call: the definition of Applied        *)
(* defines a function.                                                     *)
Stages(text, edits, after) ==
    /\ after[0] = text
    /\ \A k \in 1..Len(edits) : after[k] = ApplyEdit(after[k - 1], edits[k])

LEMMA AppliedInStages ==
  ASSUME NEW text, NEW edits \in EditLists
  PROVE  \E after : after[Len(edits)] = Applied(text, edits)
                    /\ Stages(text, edits, after)
  <1> DEFINE len == Len(edits)
             Rule(g, k) == IF k = 0 THEN text ELSE ApplyEdit(g[k - 1], edits[k])
             Conforms(g, n) == \A k \in 0..len : k <= n => g[k] = Rule(g, k)
             S == {n \in Nat : \E g : g = [k \in 0..len |-> g[k]] /\ Conforms(g, n)}
             after[k \in 0..len] == Rule(after, k)
  <1>1. len \in Nat
    BY FilesAssumption
  <1> HIDE DEF len
  <1>2. 0 \in S
    <2> DEFINE g == [k \in 0..len |-> text]
    <2>1. Conforms(g, 0)
      BY <1>1
    <2>2. g = [k \in 0..len |-> g[k]]
      OBVIOUS
    <2> HIDE DEF g, Conforms
    <2> QED BY <2>1, <2>2
  <1>3. ASSUME NEW n \in S \cap Nat PROVE n + 1 \in S
    <2>1. PICK g : g = [k \in 0..len |-> g[k]] /\ Conforms(g, n)
      OBVIOUS
    <2> DEFINE h == [k \in 0..len |-> IF k = n + 1 THEN Rule(g, k) ELSE g[k]]
    <2>2. h = [k \in 0..len |-> h[k]]
      OBVIOUS
    <2>3. ASSUME NEW k \in 0..len, k <= n + 1 PROVE h[k] = Rule(h, k)
      <3>1. h[k] = Rule(g, k)
        <4>1. CASE k = n + 1
          BY <4>1
        <4>2. CASE k # n + 1
          <5>1. k <= n
            BY <1>1, <2>3, <4>2
          <5>2. g[k] = Rule(g, k)
            BY <2>1, <2>3, <5>1
          <5> QED BY <2>3, <4>2, <5>2
        <4> QED BY <4>1, <4>2
      <3>2. k # 0 => k - 1 \in 0..len /\ k - 1 # n + 1
        BY <1>1, <2>3
      <3>3. k # 0 => h[k - 1] = g[k - 1]
        BY <3>2
      <3> HIDE DEF h
      <3> QED BY <3>1, <3>3
    <2>4. Conforms(h, n + 1)
      <3> HIDE DEF h, Rule
      <3> QED BY <2>3
    <2>5. n + 1 \in Nat
      OBVIOUS
    <2> HIDE DEF Conforms, h
    <2> QED BY <2>2, <2>4, <2>5
  <1>4. len \in S
    <2> HIDE DEF S
    <2> QED BY <1>1, <1>2, <1>3, Induction
  <1>5. PICK g : g = [k \in 0..len |-> g[k]] /\ Conforms(g, len)
    BY <1>4
  <1>6. g = [k \in 0..len |-> Rule(g, k)]
    <2>1. ASSUME NEW k \in 0..len PROVE g[k] = Rule(g, k)
      <3>1. k <= len
        BY <1>1
      <3> HIDE DEF Rule
      <3> QED BY <1>5, <3>1
    <2> HIDE DEF Rule
    <2> QED BY <1>5, <2>1
  <1>7. after = [k \in 0..len |-> Rule(after, k)]
    <2> HIDE DEF Rule
    <2> QED BY <1>6 DEF after
  <1>8. after[len] = Applied(text, edits)
    BY DEF Applied, after, Rule, len
  <1>9. Stages(text, edits, after)
    <2> HIDE DEF after
    <2>1. ASSUME NEW k \in 0..len PROVE after[k] = Rule(after, k)
      <3> HIDE DEF Rule
      <3> QED BY <1>7
    <2>2. \A k \in 1..len : k \in 0..len /\ k # 0
      BY <1>1
    <2>3. 0 \in 0..len
      BY <1>1
    <2> QED BY <2>1, <2>2, <2>3 DEF Stages, len
  <1> QED BY <1>8, <1>9 DEF len

(* Every stage is a text until an edit throws, and none after it.          *)
LEMMA StagesAreTexts ==
  ASSUME NEW text \in Texts \cup {NoPage}, NEW edits \in EditLists,
         NEW after, Stages(text, edits, after)
  PROVE  /\ \A k \in 0..Len(edits) : after[k] \in Texts \cup {NoPage}
         /\ after[Len(edits)] # NoPage => \A k \in 0..Len(edits) : after[k] # NoPage
  <1> DEFINE len == Len(edits)
             S == {n \in Nat : n <= len => after[n] \in Texts \cup {NoPage}}
             T == {n \in Nat : n <= len /\ after[len - n] = NoPage => after[len] = NoPage}
  <1>1. len \in Nat /\ DOMAIN edits = 1..len
    BY FilesAssumption
  <1>2. \A k \in 1..len : after[k] = ApplyEdit(after[k - 1], edits[k])
    BY DEF Stages
  <1> HIDE DEF len
  <1>3. 0 \in S
    BY DEF Stages
  <1>4. ASSUME NEW n \in S \cap Nat PROVE n + 1 \in S
    <2>1. n + 1 \in Nat
      OBVIOUS
    <2>2. ASSUME n + 1 <= len PROVE after[n + 1] \in Texts \cup {NoPage}
      <3>1. n + 1 \in 1..len /\ n <= len /\ n + 1 - 1 = n
        BY <1>1, <2>2
      <3>2. after[n + 1] = ApplyEdit(after[n], edits[n + 1])
        BY <1>2, <3>1
      <3>3. after[n] \in Texts \cup {NoPage}
        BY <3>1
      <3>4. CASE after[n] = NoPage
        BY <3>2, <3>4 DEF ApplyEdit
      <3>5. CASE after[n] \in Texts
        BY <1>1, <3>1, <3>2, <3>5, TextsAssumption
      <3> QED BY <3>3, <3>4, <3>5
    <2> QED BY <2>1, <2>2
  <1>5. Nat \subseteq S
    <2> HIDE DEF S
    <2> QED BY <1>3, <1>4, Induction
  <1>6. 0 \in T
    BY <1>1
  <1>7. ASSUME NEW n \in T \cap Nat PROVE n + 1 \in T
    <2>1. n + 1 \in Nat
      OBVIOUS
    <2>2. ASSUME n + 1 <= len, after[len - (n + 1)] = NoPage PROVE after[len] = NoPage
      <3>1. len - n \in 1..len /\ n <= len /\ len - n - 1 = len - (n + 1)
        BY <1>1, <2>2
      <3>2. after[len - n] = ApplyEdit(after[len - (n + 1)], edits[len - n])
        BY <1>2, <3>1
      <3>3. after[len - n] = NoPage
        BY <2>2, <3>2 DEF ApplyEdit
      <3> QED BY <3>1, <3>3
    <2> QED BY <2>1, <2>2
  <1>8. Nat \subseteq T
    <2> HIDE DEF T
    <2> QED BY <1>6, <1>7, Induction
  <1>9. ASSUME NEW k \in 0..len, after[k] = NoPage PROVE after[len] = NoPage
    <2>1. len - k \in T /\ len - k <= len /\ len - (len - k) = k
      <3>1. len - k \in Nat
        BY <1>1
      <3> QED BY <1>1, <1>8, <3>1
    <2> QED BY <1>9, <2>1
  <1>10. ASSUME NEW k \in 0..len PROVE after[k] \in Texts \cup {NoPage}
    <2>1. k \in S /\ k <= len
      BY <1>1, <1>5
    <2> QED BY <2>1
  <1> QED BY <1>9, <1>10 DEF len

(* What a call of the edit tool leaves: nothing, or every edit made.       *)
LEMMA EditsAreMade ==
  ASSUME NEW text \in Texts \cup {NoPage}, NEW edits \in EditLists
  PROVE  /\ Applied(text, edits) \in Texts \cup {NoPage}
         /\ Applied(text, edits) # NoPage =>
              /\ EditsInOrder(text, Applied(text, edits), edits)
              /\ text # NoPage
  <1> DEFINE len == Len(edits)
             Step == [old : Seq(Characters) \ {<<>>}, new : Seq(Characters)]
  <1>1. len \in Nat \ {0} /\ \A k \in 1..len : edits[k] \in Step
    <2>1. edits # <<>> /\ edits \in Seq(Step)
      BY FilesAssumption
    <2> HIDE DEF Step
    <2> QED BY <2>1
  <1>2. PICK after : after[len] = Applied(text, edits) /\ Stages(text, edits, after)
    BY AppliedInStages
  <1>3. /\ \A k \in 0..len : after[k] \in Texts \cup {NoPage}
        /\ after[len] # NoPage => \A k \in 0..len : after[k] # NoPage
    BY <1>2, StagesAreTexts
  <1>4. /\ after[0] = text
        /\ \A k \in 1..len : after[k] = ApplyEdit(after[k - 1], edits[k])
    BY <1>2 DEF Stages
  <1>5. ASSUME after[len] # NoPage PROVE EditsInOrder(text, after[len], edits)
    <2> DEFINE between == [k \in 1..(len - 1) |-> after[k]]
               Text(k) == IF k = 0 THEN text ELSE IF k = len THEN after[len] ELSE between[k]
    <2> HIDE DEF len
    <2>1. \A k \in 0..len : after[k] \in Texts
      BY <1>3, <1>5
    <2>2. between \in [1..(len - 1) -> Texts]
      BY <1>1, <2>1
    <2>3. ASSUME NEW k \in 0..len PROVE Text(k) = after[k]
      BY <1>1, <1>4
    <2>4. ASSUME NEW k \in 1..len PROVE EditsOnce(Text(k - 1), Text(k), edits[k])
      <3>1. k \in 0..len /\ k - 1 \in 0..len
        BY <1>1
      <3>2. after[k - 1] \in Seq(Characters) /\ after[k - 1] # NoPage
        BY <2>1, <3>1, FilesAssumption
      <3>3. ApplyEdit(after[k - 1], edits[k]) # NoPage
            /\ ApplyEdit(after[k - 1], edits[k]) = after[k]
        BY <1>3, <1>4, <1>5, <3>1
      <3>4. EditsOnce(after[k - 1], after[k], edits[k])
        BY <1>1, <3>2, <3>3, EditIsOnce
      <3> HIDE DEF Text
      <3> QED BY <2>3, <3>1, <3>4
    <2> QED BY <2>2, <2>4 DEF EditsInOrder, len
  <1>6. len \in 0..len /\ 0 \in 0..len
    BY <1>1
  <1> QED BY <1>2, <1>3, <1>4, <1>5, <1>6

(* Only the first of the calls has read, and what it read, if it could,    *)
(* still stands.                                                           *)
FilesInv ==
    /\ FilesTypeOK
    /\ read # {} => /\ read \subseteq {page, NoPage}
                    /\ pending # <<>> /\ ~IsWrite(Head(pending))

LEMMA FilesInitInv == FilesInit => FilesInv
  BY FilesAssumption DEF FilesInit, FilesInv, FilesTypeOK

LEMMA CallKinds ==
  /\ \A c \in WriteCalls : IsWrite(c) /\ c.write \in Pages
  /\ \A c \in EditCalls : ~IsWrite(c) /\ c.edits \in EditLists
  BY DEF WriteCalls, EditCalls, IsWrite

LEMMA FilesStep ==
  ASSUME FilesInv, FilesNext
  PROVE  FilesInv' /\ (Len(calls') > Len(calls) => WholeOrNone)
  <1> DEFINE AnyCall == WriteCalls \cup EditCalls
             Fair == Len(calls') > Len(calls) => WholeOrNone
  <1>1. ASSUME NEW c \in AnyCall, Call(c) PROVE FilesInv' /\ Fair
    <2>1. pending' \in Seq(AnyCall) /\ (pending # <<>> => Head(pending') = Head(pending))
          /\ pending' # <<>>
      BY <1>1 DEF Call, FilesInv, FilesTypeOK
    <2> QED BY <1>1, <2>1 DEF Call, FilesInv, FilesTypeOK
  <1>2. ASSUME Read PROVE FilesInv' /\ Fair
    BY <1>2 DEF Read, FilesInv, FilesTypeOK
  <1>3. ASSUME pending # <<>>, EndCall
        PROVE  /\ pending' \in Seq(AnyCall) /\ calls' \in Seq(AnyCall)
               /\ Len(calls) \in Nat /\ Len(calls') = Len(calls) + 1
               /\ calls'[Len(calls')] = Head(pending)
    <2>1. Head(pending) \in AnyCall
      BY <1>3 DEF FilesInv, FilesTypeOK
    <2> QED BY <1>3, <2>1 DEF EndCall, FilesInv, FilesTypeOK
  <1>4. ASSUME pending # <<>>, Threw, EndCall, page' = page, UNCHANGED broken, read' = {}
        PROVE  FilesInv' /\ Fair
    <2>1. /\ failed' \in SUBSET (1..Len(calls')) /\ broken' \in SUBSET failed'
          /\ Len(calls') \in failed'
      <3> DEFINE n == Len(calls)
                 m == Len(calls')
      <3>1. n \in Nat /\ m = n + 1 /\ failed \in SUBSET (1..n) /\ broken \in SUBSET failed
        BY <1>3, <1>4 DEF FilesInv, FilesTypeOK
      <3>2. failed' = failed \cup {n + 1} /\ broken' = broken
        BY <1>4 DEF Threw
      <3> HIDE DEF n, m
      <3>3. failed' \in SUBSET (1..m) /\ broken' \in SUBSET failed' /\ m \in failed'
        BY <3>1, <3>2
      <3> QED BY <3>3 DEF m
    <2>2. FilesInv'
      BY <1>3, <1>4, <2>1 DEF FilesInv, FilesTypeOK
    <2>3. WholeOrNone
      BY <1>4, <2>1 DEF WholeOrNone
    <2> QED BY <2>2, <2>3
  <1>5. ASSUME NEW new \in Texts, pending # <<>>, Whole(Head(pending), new),
               WriteFile(new), read' = {}
        PROVE  FilesInv' /\ Fair
    <2>1. EndCall
      BY <1>5 DEF WriteFile
    <2>2. Beginnings(new) \subseteq Texts
      BY FilesAssumption DEF Beginnings
    <2>3. CASE page' = new /\ UNCHANGED <<failed, broken>>
      <3>1. /\ failed' \in SUBSET (1..Len(calls')) /\ broken' \in SUBSET failed'
            /\ Len(calls') \notin failed'
        BY <1>3, <1>5, <2>1, <2>3 DEF FilesInv, FilesTypeOK
      <3>2. FilesInv'
        BY <1>3, <1>5, <2>1, <2>3, <3>1 DEF FilesInv, FilesTypeOK
      <3>3. WholeOrNone
        BY <1>3, <1>5, <2>1, <2>3, <3>1 DEF WholeOrNone
      <3> QED BY <3>2, <3>3
    <2>4. CASE /\ page' \in {page} \cup Beginnings(new) /\ Threw
               /\ broken' = broken \cup {Len(calls) + 1}
      <3>1. /\ failed' \in SUBSET (1..Len(calls')) /\ broken' \in SUBSET failed'
            /\ Len(calls') \in failed' /\ Len(calls') \in broken'
        <4> DEFINE n == Len(calls)
                   m == Len(calls')
        <4>1. n \in Nat /\ m = n + 1 /\ failed \in SUBSET (1..n) /\ broken \in SUBSET failed
          BY <1>3, <1>5, <2>1 DEF FilesInv, FilesTypeOK
        <4>2. failed' = failed \cup {n + 1} /\ broken' = broken \cup {n + 1}
          BY <2>4 DEF Threw
        <4> HIDE DEF n, m
        <4>3. /\ failed' \in SUBSET (1..m) /\ broken' \in SUBSET failed'
              /\ m \in failed' /\ m \in broken'
          BY <4>1, <4>2
        <4> QED BY <4>3 DEF m
      <3>2. FilesInv'
        BY <1>3, <1>5, <2>1, <2>2, <2>4, <3>1 DEF FilesInv, FilesTypeOK
      <3>3. WholeOrNone
        BY <1>3, <1>5, <2>1, <2>4, <3>1 DEF WholeOrNone
      <3> QED BY <3>2, <3>3
    <2> QED BY <1>5, <2>3, <2>4 DEF WriteFile
  <1>6. ASSUME NEW i \in 1..MaxCalls, Write(i) PROVE FilesInv' /\ Fair
    <2>1. pending # <<>> /\ IsWrite(Head(pending)) /\ WriteFile(Head(pending).write)
      BY <1>6 DEF Write, FilesInv, FilesTypeOK
    <2>2. Head(pending) \in AnyCall
      BY <2>1 DEF FilesInv, FilesTypeOK
    <2>3. Head(pending).write \in Texts
      BY <2>1, <2>2, CallKinds, FilesAssumption
    <2>4. read' = {}
      BY <1>6, <2>1 DEF Write, FilesInv, FilesTypeOK
    <2>5. Whole(Head(pending), Head(pending).write)
      BY <2>1 DEF Whole
    <2> QED BY <1>5, <2>1, <2>3, <2>4, <2>5
  <1>7. ASSUME Edit PROVE FilesInv' /\ Fair
    <2>1. PICK text \in read :
            LET new == Applied(text, Head(pending).edits)
            IN  \/ new # NoPage /\ WriteFile(new)
                \/ new = NoPage /\ Threw /\ EndCall /\ UNCHANGED <<page, broken>>
      BY <1>7 DEF Edit
    <2>2. text \in {page, NoPage} /\ pending # <<>> /\ ~IsWrite(Head(pending)) /\ read' = {}
      BY <1>7, <2>1 DEF Edit, FilesInv, FilesTypeOK
    <2>3. Head(pending) \in AnyCall
      BY <2>2 DEF FilesInv, FilesTypeOK
    <2>4. Head(pending).edits \in EditLists
      BY <2>2, <2>3, CallKinds
    <2> DEFINE new == Applied(text, Head(pending).edits)
    <2>5. /\ new \in Texts \cup {NoPage}
          /\ new # NoPage => /\ EditsInOrder(text, new, Head(pending).edits)
                            /\ text # NoPage
      BY <2>2, <2>4, EditsAreMade DEF FilesInv, FilesTypeOK
    <2>6. \/ new # NoPage /\ WriteFile(new)
          \/ new = NoPage /\ Threw /\ EndCall /\ UNCHANGED <<page, broken>>
      BY <2>1
    <2> HIDE DEF new
    <2>7. new # NoPage => Whole(Head(pending), new)
      BY <2>2, <2>5 DEF Whole
    <2> QED BY <1>4, <1>5, <2>2, <2>5, <2>6, <2>7
  <1> QED BY <1>1, <1>2, <1>6, <1>7 DEF FilesNext

(* "either all apply or none do": whatever the agent calls at once, a call *)
(* that returned made each of its edits, of a text that occurred exactly   *)
(* once when its turn came, and one that threw changed nothing, unless its *)
(* writeFile was rejected; then the page is as it was or a beginning of    *)
(* what all of the edits make.                                             *)
THEOREM EditsAreAllOrNothing == FilesInit /\ [][FilesNext]_filesVars => AllOrNothing
  <1>1. FilesInv /\ [FilesNext]_filesVars => FilesInv'
    <2>1. FilesInv /\ UNCHANGED filesVars => FilesInv'
      BY DEF FilesInv, FilesTypeOK, filesVars
    <2> QED BY <2>1, FilesStep
  <1>2. FilesInv /\ [FilesNext]_filesVars =>
          [Len(calls') > Len(calls) => WholeOrNone]_filesVars
    BY FilesStep
  <1> QED BY <1>1, <1>2, FilesInitInv, PTL DEF AllOrNothing

-----------------------------------------------------------------------------
(* The coding worker as a whole, of which one part is engaged.             *)
WorkerInv == CodingInv /\ FilesInv /\ SandboxTypeOK

LEMMA SandboxTypesStep == SandboxTypeOK /\ [SandboxNext]_sandboxVars => SandboxTypeOK'
  <1> SUFFICES ASSUME SandboxTypeOK, [SandboxNext]_sandboxVars PROVE SandboxTypeOK'
    OBVIOUS
  <1> USE SandboxAssumption DEF SandboxTypeOK
  <1>1. CASE UNCHANGED sandboxVars
    BY <1>1 DEF sandboxVars
  <1>2. CASE Spawn \/ SpawnFails \/ TokenFails
    BY <1>2 DEF Spawn, SpawnFails, TokenFails
  <1>3. CASE Abort \/ Background \/ BashIsKilled \/ BackgroundEnds
    BY <1>3 DEF Abort, Background, BashIsKilled, BackgroundEnds
  <1>4. ASSUME NEW c \in ExitCodes, BashExits(c) PROVE SandboxTypeOK'
    BY <1>4 DEF BashExits
  <1>5. CASE Close
    BY <1>5 DEF Close
  <1> QED BY <1>1, <1>2, <1>3, <1>4, <1>5 DEF SandboxNext

LEMMA WorkerBegins == WorkerInit => WorkerInv
  <1>1. SandboxInit => SandboxTypeOK
    BY SandboxAssumption DEF SandboxInit, SandboxTypeOK
  <1> QED BY <1>1, CodingBegins, FilesInitInv DEF WorkerInit, WorkerInv

LEMMA WorkerStep == WorkerInv /\ [WorkerNext]_workerVars => WorkerInv'
  <1> SUFFICES ASSUME WorkerInv, [WorkerNext]_workerVars PROVE WorkerInv'
    OBVIOUS
  <1>1. [CodingNext]_coding
    BY DEF WorkerNext, workerVars, Tasking, Filing, Running, coding, queues, attempts
  <1>2. FilesInv'
    <2>1. FilesNext \/ UNCHANGED filesVars
      BY DEF WorkerNext, workerVars, Tasking, Filing, Running
    <2>2. CASE UNCHANGED filesVars
      BY <2>2 DEF WorkerInv, FilesInv, FilesTypeOK, filesVars
    <2> QED BY <2>1, <2>2, FilesStep DEF WorkerInv
  <1>3. [SandboxNext]_sandboxVars
    BY DEF WorkerNext, workerVars, Tasking, Filing, Running
  <1> QED BY <1>1, <1>2, <1>3, CodingStep, SandboxTypesStep DEF WorkerInv

(* WorkerTypesOK: whatever the worker is engaged in, and however many      *)
(* tasks, threads, repositories, texts and exit codes there are, it keeps  *)
(* its types; among them, that no task runs more often than its attempts   *)
(* and the stalls it survives allow, and that a command that has answered  *)
(* has an exit code, also when a signal killed bash.                       *)
THEOREM WorkerTypes == WorkerSpec => []WorkerTypesOK
  <1>1. WorkerInv => WorkerTypesOK
    BY ProcessorsTypes DEF WorkerInv, CodingInv, CodingParts, FilesInv, WorkerTypesOK
  <1> QED BY <1>1, WorkerBegins, WorkerStep, PTL DEF WorkerSpec

-----------------------------------------------------------------------------
(* The web process as a whole, of which one part moves.                    *)

(* What the theorems on customer support had no use for: drafts cover only *)
(* mails there are, and fields are written only with something found.      *)
ZohoKept ==
    /\ ready \in BOOLEAN
    /\ told \subseteq UNION Bodies
    /\ covered \subseteq mails /\ \A w \in Workers : seen[w] \subseteq mails
    /\ \A w \in Workers : at[w] = "updating" => found[w] # None

LEMMA ZohoKeptStep ==
  ASSUME ZohoInv, ZohoKept, [ZohoNext]_zoho
  PROVE  ZohoKept'
  <1>0. /\ at \in [Workers -> Places] /\ seen \in [Workers -> SUBSET Mails]
        /\ found \in [Workers -> Treatments \cup {None}] /\ None \notin Treatments
    BY ZohoAssumption DEF ZohoInv, ZohoParts, ZohoValues, ProcessorsInv, Busy
  <1> USE DEF ZohoKept
  <1>1. CASE UNCHANGED zoho
    BY <1>1 DEF zoho, zohoVars, attempts
  <1>2. CASE Bootstrap \/ \E m \in Mails : Arrive(m)
    BY <1>2 DEF Bootstrap, Arrive, attempts
  <1>3. ASSUME NEW b \in Bodies, NEW o, HandleWebhook(b, o) PROVE ZohoKept'
    <2>1. told' \subseteq told \cup b
      BY <1>3 DEF HandleWebhook
    <2> QED BY <1>3, <2>1 DEF HandleWebhook, attempts
  <1>4. ASSUME NEW id \in ZohoJobs, NEW o, AddJob(id, o) \/ ZohoTimer(id)
        PROVE  ZohoKept'
    BY <1>4 DEF AddJob, ZohoTimer, Timer, zohoVars, attempts
  <1>5. ASSUME NEW w \in Workers, NEW place, GoTo(w, place), place # "updating",
               UNCHANGED <<ready, told, mails, covered, seen, found>>
        PROVE  ZohoKept'
    BY <1>0, <1>5 DEF GoTo
  <1>6. ASSUME NEW w \in Workers, ServeZoho(w) PROVE ZohoKept'
    <2>1. ASSUME NEW id, TakeTicket(w, id) PROVE ZohoKept'
      BY <1>5, <2>1 DEF TakeTicket, Begin, zohoVars
    <2>2. ASSUME NEW id, GiveUp(w, id), UNCHANGED zohoVars PROVE ZohoKept'
      BY <2>2 DEF GiveUp, zohoVars, attempts
    <2> QED BY <1>6, <2>1, <2>2 DEF ServeZoho
  <1>7. ASSUME NEW w \in Workers, NEW o, ReadTicket(w, o) PROVE ZohoKept'
    <2>1. CASE UNCHANGED seen
      BY <1>5, <1>7, <2>1 DEF ReadTicket
    <2>2. CASE seen' = [seen EXCEPT ![w] = {m \in mails : TicketOf[m] = TicketAt(w)}]
               /\ GoTo(w, "drafting")
      BY <1>0, <1>7, <2>2 DEF ReadTicket, GoTo
    <2> QED BY <1>7, <2>1, <2>2 DEF ReadTicket
  <1>8. ASSUME NEW w \in Workers, NEW o, AddPrivateComment(w, o) PROVE ZohoKept'
    <2>1. covered' \subseteq covered \cup seen[w]
      BY <1>8 DEF AddPrivateComment
    <2>2. at' = [at EXCEPT ![w] = IF o = "ok" THEN "returned" ELSE "threw"]
      BY <1>8 DEF AddPrivateComment, GoTo
    <2> QED BY <1>0, <1>8, <2>1, <2>2 DEF AddPrivateComment
  <1>9. ASSUME NEW w \in Workers, NEW o, UpdateTicketCustomFields(w, o) PROVE ZohoKept'
    BY <1>5, <1>9 DEF UpdateTicketCustomFields
  <1>10. ASSUME NEW w \in Workers, NEW errs, Draft(w, errs) PROVE ZohoKept'
    BY <1>5, <1>10 DEF Draft, zohoVars
  <1>11. ASSUME NEW w \in Workers, NEW r \in Treatments \cup {None}, NEW errs,
                Classify(w, r, errs)
         PROVE  ZohoKept'
    <2>1. /\ at' = [at EXCEPT ![w] = IF errs THEN "threw"
                                     ELSE IF r = None THEN "returned" ELSE "updating"]
          /\ found' = [found EXCEPT ![w] = r]
          /\ UNCHANGED <<ready, told, mails, covered, seen>>
          /\ errs => r = None
      BY <1>11 DEF Classify, GoTo
    <2> QED BY <1>0, <2>1
  <1>12. ASSUME NEW w \in Workers, EndTicket(w) PROVE ZohoKept'
    <2>1. /\ at' = [at EXCEPT ![w] = "idle"]
          /\ seen' = [seen EXCEPT ![w] = {}] /\ found' = [found EXCEPT ![w] = None]
          /\ UNCHANGED <<ready, told, mails, covered>>
      BY <1>12 DEF EndTicket, End, Forget, GoTo
    <2> QED BY <1>0, <2>1
  <1>13. CASE CrashZoho
    BY <1>13 DEF CrashZoho, Crash
  <1> HIDE DEF ZohoKept
  <1>14. ASSUME NEW w \in Workers, AttendZoho(w) PROVE ZohoKept'
    BY <1>7, <1>8, <1>9, <1>12, <1>14 DEF AttendZoho
  <1> QED BY <1>1, <1>2, <1>3, <1>4, <1>6, <1>10, <1>11, <1>13, <1>14 DEF ZohoNext

(* No processor of Kong's jobs is ever where those of tickets write.       *)
NoneUpdating == \A w \in Workers : at[w] # "updating"

LEMMA KongNoneUpdating ==
  ASSUME KongInv, NoneUpdating, [KongNext]_kong
  PROVE  NoneUpdating'
  <1>0. at \in [Workers -> Places]
    BY DEF KongInv, ProcessorsInv, Busy
  <1> USE DEF NoneUpdating
  <1>1. ASSUME UNCHANGED at PROVE NoneUpdating'
    BY <1>1
  <1>2. ASSUME NEW w \in Workers, NEW place, GoTo(w, place), place # "updating"
        PROVE  NoneUpdating'
    BY <1>0, <1>2 DEF GoTo
  <1>3. ASSUME NEW ws, Crash(ws) PROVE NoneUpdating'
    BY <1>3 DEF Crash
  <1> HIDE DEF NoneUpdating
  <1>4. ASSUME UNCHANGED kong \/ \E d \in Deliveries, o \in Outcomes : OnPullRequestClosed(d, o)
        PROVE  NoneUpdating'
    BY <1>1, <1>4 DEF kong, OnPullRequestClosed, attempts
  <1>5. ASSUME NEW id \in KongJobs, KongTimer(id) PROVE NoneUpdating'
    BY <1>1, <1>5 DEF KongTimer, Timer, attempts
  <1>6. ASSUME CrashCodingWorker \/ CrashWeb PROVE NoneUpdating'
    BY <1>3, <1>6 DEF CrashCodingWorker, CrashWeb
  <1>7. ASSUME NEW w \in Workers, ServeKong(w) PROVE NoneUpdating'
    <2>1. ASSUME NEW id, NEW place, Begin(w, id, place), place # "updating"
          PROVE  NoneUpdating'
      BY <1>2, <2>1 DEF Begin
    <2>2. ASSUME NEW id, GiveUp(w, id) PROVE NoneUpdating'
      BY <1>1, <2>2 DEF GiveUp, attempts
    <2> QED BY <1>7, <2>1, <2>2 DEF ServeKong, TakeDetect, TakeSync, TakeNotice
  <1>8. ASSUME NEW w \in Workers, AttendKong(w) PROVE NoneUpdating'
    <2>1. CASE EndKong(w)
      BY <1>2, <2>1 DEF EndKong, End, Forget
    <2>2. ASSUME NEW o, \/ ListFiles(w, o) \/ FindAuthor(w, o) \/ QueueSync(w, o)
                        \/ OpenSync(w, o) \/ QueueNotice(w, o)
          PROVE  NoneUpdating'
      BY <1>2, <2>2 DEF ListFiles, FindAuthor, QueueSync, OpenSync, QueueNotice
    <2>3. ASSUME NEW o, \/ StopSync(w, o) \/ LookUpUser(w, o) \/ PostDirectMessage(w, o)
          PROVE  NoneUpdating'
      BY <1>2, <2>3 DEF StopSync, LookUpUser, PostDirectMessage
    <2> QED BY <1>8, <2>1, <2>2, <2>3 DEF AttendKong
  <1>9. ASSUME NEW w \in Workers, NEW r, Sync(w, r) PROVE NoneUpdating'
    BY <1>2, <1>9 DEF Sync
  <1> QED BY <1>4, <1>5, <1>6, <1>7, <1>8, <1>9 DEF KongNext

(* A handler posts one thing before its catch, and one more in it; one     *)
(* that has not come that far has posted nothing.                          *)
PostsCounted ==
    \A m \in Mentions :
      /\ reply[m] \notin {"caught", "ended"} =>
           said[m].answers = 0 /\ said[m].apologies = 0
      /\ reply[m] = "caught" => said[m].apologies <= 1

AssistantTyped == AssistantTypeOK /\ PostsCounted

(* A step of one handler that moves it on to the place to, and may post.   *)
LEMMA PostingKeeps ==
  ASSUME AssistantTyped, NEW m \in Mentions, reply[m] # "ended",
         NEW to \in {"typing", "reading", "generating", "answering", "failing",
                     "caught", "ended"},
         reply[m] = "caught" => to = "ended",
         reply' = [reply EXCEPT ![m] = to], UNCHANGED <<startVars, stopped>>,
         UNCHANGED troubles \/ Trouble,
         \/ UNCHANGED said
         \/ /\ to \in {"caught", "ended"} /\ reply[m] # "caught"
            /\ said' = [said EXCEPT ![m]["answers"] = @ + 1]
         \/ /\ to \in {"caught", "ended"}
            /\ said' = [said EXCEPT ![m]["apologies"] = @ + 1]
  PROVE  AssistantTyped'
  <1> USE DEF AssistantTyped, AssistantTypeOK
  <1>1. troubles' \in 0..MaxTroubles
    BY AssistantAssumption DEF Trouble
  <1>2. /\ said[m] \in [answers : 0..1, apologies : 0..2]
        /\ reply[m] # "caught" => said[m].answers = 0 /\ said[m].apologies = 0
        /\ reply[m] = "caught" => said[m].apologies <= 1
    BY DEF PostsCounted
  <1>3. /\ said' \in [Mentions -> [answers : 0..1, apologies : 0..2]]
        /\ \A n \in Mentions : n # m => said'[n] = said[n]
        /\ to \notin {"caught", "ended"} => said'[m].answers = 0 /\ said'[m].apologies = 0
        /\ to = "caught" => said'[m].apologies <= 1
    <2>0. said \in [Mentions -> [answers : 0..1, apologies : 0..2]]
      OBVIOUS
    <2>1. CASE UNCHANGED said
      <3>1. said'[m] = said[m]
        BY <2>1
      <3> QED BY <1>2, <2>0, <2>1, <3>1
    <2>2. CASE /\ to \in {"caught", "ended"} /\ reply[m] # "caught"
               /\ said' = [said EXCEPT ![m]["answers"] = @ + 1]
      <3>1. said[m].answers + 1 = 1
        BY <1>2, <2>2
      <3>2. [said[m] EXCEPT !["answers"] = @ + 1] \in [answers : 0..1, apologies : 0..2]
        BY <1>2, <3>1
      <3>3. said'[m].apologies = 0
        BY <1>2, <2>0, <2>2
      <3> QED BY <2>0, <2>2, <3>2, <3>3
    <2>3. CASE /\ to \in {"caught", "ended"}
               /\ said' = [said EXCEPT ![m]["apologies"] = @ + 1]
      <3>1. said[m].apologies + 1 \in 0..2
        BY <1>2
      <3>2. [said[m] EXCEPT !["apologies"] = @ + 1] \in [answers : 0..1, apologies : 0..2]
        BY <1>2, <3>1
      <3>3. said'[m].apologies = said[m].apologies + 1
        BY <1>2, <2>0, <2>3
      <3>4. to = "caught" => said'[m].apologies <= 1
        BY <1>2, <3>3
      <3> QED BY <2>0, <2>3, <3>2, <3>4
    <2> QED BY <2>1, <2>2, <2>3
  <1>4. AssistantTypeOK'
    BY <1>1, <1>3 DEF startVars
  <1>5. PostsCounted'
    BY <1>3 DEF PostsCounted
  <1> QED BY <1>4, <1>5

LEMMA AssistantTypedStep ==
  ASSUME AssistantTyped, [AssistantNext]_assistantVars
  PROVE  AssistantTyped'
  <1> USE DEF AssistantTyped
  <1>1. CASE UNCHANGED assistantVars
    BY <1>1 DEF assistantVars, startVars, replyVars, AssistantTypeOK, PostsCounted
  <1>2. CASE Start
    <2>1. UNCHANGED <<replyVars, troubles>>
      BY <1>2 DEF Start, Connect, Register, Listen
    <2>2. AssistantTypeOK'
      BY <1>2, <2>1
      DEF Start, Connect, Register, Listen, Available, replyVars, AssistantTypeOK
    <2> QED BY <2>1, <2>2 DEF replyVars, PostsCounted
  <1>3. CASE Restart
    <2>1. troubles' \in 0..MaxTroubles
      BY <1>3, AssistantAssumption DEF Restart, Trouble, AssistantTypeOK
    <2>2. AssistantTypeOK'
      BY <1>3, <2>1 DEF Restart, AssistantTypeOK
    <2> QED BY <1>3, <2>2 DEF Restart, AssistantTypeOK, PostsCounted
  <1>4. ASSUME NEW m \in Mentions, StopReply(m) PROVE AssistantTyped'
    BY <1>4 DEF StopReply, startVars, AssistantTypeOK, PostsCounted
  <1>5. ASSUME NEW m \in Mentions, OnNewMention(m) PROVE AssistantTyped'
    BY <1>5, PostingKeeps DEF OnNewMention
  <1>6. ASSUME NEW m \in Mentions, NEW r, GenerateReply(m, r) PROVE AssistantTyped'
    BY <1>6, PostingKeeps DEF GenerateReply, Caught
  <1>7. ASSUME NEW m \in Mentions, Handle(m) PROVE AssistantTyped'
    <2>1. PICK o \in Answers : \/ StartTyping(m, o) \/ ReadThreadHistory(m, o)
                               \/ PostAnswer(m, o) \/ PostFailure(m, o) \/ Apologize(m, o)
      BY <1>7 DEF Handle
    <2>2. Answered(o) => UNCHANGED troubles \/ Trouble
      BY DEF Answered
    <2>3. Caught(m) \in {"caught", "ended"}
      BY DEF Caught
    <2>4. CASE StartTyping(m, o)
      BY <2>2, <2>4, PostingKeeps DEF StartTyping
    <2>5. CASE ReadThreadHistory(m, o)
      BY <2>2, <2>3, <2>5, PostingKeeps DEF ReadThreadHistory
    <2>6. CASE PostAnswer(m, o)
      BY <2>2, <2>3, <2>6, PostingKeeps DEF PostAnswer, Say
    <2>7. CASE PostFailure(m, o)
      BY <2>2, <2>3, <2>7, PostingKeeps DEF PostFailure, Say
    <2>8. CASE Apologize(m, o)
      BY <2>2, <2>8, PostingKeeps DEF Apologize, Say
    <2> QED BY <2>1, <2>4, <2>5, <2>6, <2>7, <2>8
  <1> QED BY <1>1, <1>2, <1>3, <1>4, <1>5, <1>6, <1>7 DEF AssistantNext

-----------------------------------------------------------------------------
(* Whatever part of the web process moves, the others are as they began.   *)
WebInv ==
    /\ ProcessorsInv /\ AssistantTyped
    /\ IF part = "kong" THEN KongInv ELSE KongInit
    /\ IF part \in {"ticket", "mails"} THEN ZohoInv /\ ZohoKept
                                      ELSE ZohoInit /\ NoneUpdating

LEMMA WebBegins == Init => WebInv
  <1> SUFFICES ASSUME Init PROVE WebInv
    OBVIOUS
  <1>1. KongInit /\ KongInv /\ ZohoInit /\ ZohoInv /\ ProcessorsInv
    BY KongBegins, ZohoBegins DEF Init, KongInv
  <1>2. ZohoKept
    <2>1. \A w \in Workers : at[w] = "idle"
      BY DEF Init, ProcessorsInit
    <2> QED BY <1>1, <2>1 DEF ZohoInit, ZohoKept
  <1>3. NoneUpdating
    BY DEF Init, ProcessorsInit, NoneUpdating
  <1>4. AssistantTyped
    <2>1. AssistantInit /\ 0 \in 0..MaxTroubles
      BY AssistantAssumption DEF Init
    <2>2. \A m \in Mentions : reply[m] = "new" /\ said[m].answers = 0 /\ said[m].apologies = 0
      BY <2>1 DEF AssistantInit
    <2>3. [answers |-> 0, apologies |-> 0] \in [answers : 0..1, apologies : 0..2]
      OBVIOUS
    <2>4. AssistantTypeOK
      BY <2>1, <2>3 DEF AssistantInit, AssistantTypeOK
    <2> QED BY <2>2, <2>4 DEF AssistantTyped, PostsCounted
  <1> QED BY <1>1, <1>2, <1>3, <1>4 DEF WebInv

LEMMA WebStep ==
  ASSUME KongSetting, WebInv, [Next]_vars
  PROVE  WebInv'
  <1>1. part' = part
    BY DEF Next, vars, Syncing, Supporting, Assisting
  <1>2. [AssistantNext]_assistantVars
    BY DEF Next, vars, Syncing, Supporting, Assisting
  <1>3. AssistantTyped'
    BY <1>2, AssistantTypedStep DEF WebInv
  <1>4. CASE part = "kong"
    <2>1. [KongNext]_kong /\ UNCHANGED zohoVars
      BY <1>4 DEF Next, vars, procVars, kong, Syncing, Supporting, Assisting
    <2>2. KongInv' /\ NoneUpdating'
      BY <1>4, <2>1, KongStep, KongNoneUpdating DEF WebInv
    <2>3. ZohoInit'
      BY <1>4, <2>1 DEF WebInv, ZohoInit, zohoVars
    <2> QED BY <1>1, <1>3, <1>4, <2>2, <2>3 DEF WebInv, KongInv
  <1>5. CASE part \in {"ticket", "mails"}
    <2>1. [ZohoNext]_zoho /\ UNCHANGED kongVars
      BY <1>5 DEF Next, vars, procVars, zoho, Syncing, Supporting, Assisting
    <2>2. ZohoInv' /\ ZohoKept'
      BY <1>5, <2>1, ZohoStep, ZohoKeptStep DEF WebInv
    <2>3. KongInit'
      BY <1>5, <2>1 DEF WebInv, KongInit, kongVars
    <2> QED BY <1>1, <1>3, <1>5, <2>2, <2>3 DEF WebInv, ZohoInv
  <1>6. CASE part \notin {"kong", "ticket", "mails"}
    <2>1. UNCHANGED <<procVars, kongVars, zohoVars>>
      BY <1>6 DEF Next, vars, Syncing, Supporting, Assisting
    <2>2. [KongNext]_kong /\ [ProcessorsNext]_<<queues, attempts, faults>>
      BY <2>1 DEF kong, procVars
    <2>3. ProcessorsInv'
      BY <2>2, ProcessorsStepInv DEF WebInv
    <2>4. KongInit' /\ ZohoInit' /\ NoneUpdating'
      BY <1>6, <2>1
      DEF WebInv, KongInit, ZohoInit, NoneUpdating, kongVars, zohoVars, procVars, attempts
    <2> QED BY <1>1, <1>3, <1>6, <2>3, <2>4 DEF WebInv
  <1> QED BY <1>4, <1>5, <1>6

LEMMA WebInvTypes == WebInv => TypesOK
  <1> SUFFICES ASSUME WebInv PROVE TypesOK
    OBVIOUS
  <1>1. ProcessorsTypeOK /\ AssistantTypeOK
    BY ProcessorsTypes DEF WebInv, AssistantTyped
  <1>2. KongTypeOK
    <2>1. CASE KongInv
      BY <2>1, KongIds DEF KongInv, KongValues, SyncsCounted, KongTypeOK
    <2>2. CASE KongInit
      BY <2>2, KongIds DEF KongInit, KongTypeOK
    <2> QED BY <2>1, <2>2 DEF WebInv
  <1>3. ZohoTypeOK
    <2>1. CASE ZohoInv /\ ZohoKept
      BY <2>1 DEF ZohoInv, ZohoParts, ZohoValues, ZohoKept, ZohoTypeOK, ZohoJobs
    <2>2. CASE ZohoInit /\ NoneUpdating
      BY <2>2 DEF ZohoInit, NoneUpdating, ZohoTypeOK
    <2> QED BY <2>1, <2>2 DEF WebInv
  <1> QED BY <1>1, <1>2, <1>3 DEF TypesOK

(* TypesOK: whichever part of the web process moves, all of them keep      *)
(* their types; among them, that a pull request is synced no more often    *)
(* than the stalls it survives allow, that comments are written about      *)
(* mails there are, that fields are written with something the lookup      *)
(* found, and that a mention gets one answer and two apologies at most.    *)
(* The first needs what KongSetting says of the coding worker's queue.     *)
THEOREM WebTypes ==
  ASSUME KongSetting
  PROVE  Spec => []TypesOK
  <1>1. WebInv /\ [Next]_vars => WebInv'
    BY WebStep
  <1> QED BY <1>1, WebBegins, WebInvTypes, PTL DEF Spec
=============================================================================
