----------------------------- MODULE CodingTask -----------------------------
(***************************************************************************)
(* The coding agent: the assistant delegates tasks of a Slack thread, the  *)
(* coding worker runs each in the thread's session, whose state it keeps   *)
(* in a file on its disk, and the web process posts the summary.           *)
(*                                                                         *)
(* A session is abstracted to its repository and its memory: the tasks     *)
(* whose work the agent finds in it when the session is resumed.           *)
(***************************************************************************)
EXTENDS Processors

CONSTANTS
    Tasks,          \* calls of the delegateCodingTask tool
    Threads, ThreadOf,
    Repos, RepoOf,  \* the repository each task names
    MaxRuns         \* attempts that may begin at one task: see CodingTypeOK

TaskQueue == "coding-agent"
SummaryQueue == "coding-task-slack-summaries"

(* A summary job has no id of its own; it is named for the run it reports. *)
Runs == Tasks \X (1..MaxRuns)

(* What the attempts of the two processors await.                          *)
CodingAwaits == {"preparing", "finding", "opening", "generating", "stopping",
                 "saving", "writing", "summarizing", "posting_summary"}

ASSUME CodingAssumption ==
    /\ ThreadOf \in [Tasks -> Threads] /\ RepoOf \in [Tasks -> Repos]
    /\ Tasks \cup Runs \subseteq Jobs
    /\ CodingAwaits \subseteq Places
    /\ \A t \in Tasks : QueueOf[t] = TaskQueue
    /\ \A r \in Runs : QueueOf[r] = SummaryQueue
    /\ MaxRuns = AttemptsOf[TaskQueue] + MaxStalls

VARIABLES
    file,           \* session.json of each thread
    session,        \* the session a worker has in memory
    ran,            \* attempts begun at each task
    live,           \* harness sessions running in each worker's process
    used,           \* the repository the last run of each task worked in
    shown,          \* summaries seen in the thread
    unread          \* history: work an attempt went on without, unable to read

codingVars == <<file, session, ran, live, used, shown, unread>>

(* "torn": writeFile truncates the file before it writes it.               *)
Sessions == [state : {"none", "torn", "saved"}, repo : Repos \cup {None},
             memory : SUBSET Tasks]

NoSession == [state |-> "none", repo |-> None, memory |-> {}]

CodingTypeOK ==
    /\ file \in [Threads -> Sessions]
    /\ session \in [Workers -> Sessions]
    /\ ran \in [Tasks -> 0..MaxRuns]
    /\ live \in [Workers -> SUBSET Runs]
    /\ used \in [Tasks -> Repos \cup {None}]
    /\ shown \subseteq Runs
    /\ unread \in [Threads -> SUBSET Tasks]

CodingInit ==
    /\ file = [th \in Threads |-> NoSession]
    /\ session = [w \in Workers |-> NoSession]
    /\ ran = [t \in Tasks |-> 0]
    /\ live = [w \in Workers |-> {}]
    /\ used = [t \in Tasks |-> None]
    /\ shown = {}
    /\ unread = [th \in Threads |-> {}]

-----------------------------------------------------------------------------
(* The tool call.  An add that errors is the assistant's to report.        *)
Delegate(t, o) ==
    /\ job[t].state = "absent" /\ ran[t] = 0
    /\ Outcome(o)
    /\ TryEnqueue(t, o)
    /\ UNCHANGED <<attempts, codingVars>>

Run(w) == <<cur[w], ran[cur[w]]>>

ThreadAt(w) == ThreadOf[cur[w]]

TakeTask(w, t) ==
    /\ Begin(w, t, "preparing")
    /\ ran' = [ran EXCEPT ![t] = @ + 1]
    /\ UNCHANGED <<file, session, live, used, shown, unread>>

(* mkdir of the session's directory, which is there or is made.            *)
MakeWorkspace(w, o) ==
    /\ at[w] = "preparing"
    /\ Outcome(o)
    /\ GoTo(w, IF o = "ok" THEN "finding" ELSE "threw")
    /\ UNCHANGED <<queues, cur, codingVars>>

(* The thread has been told of the run, or the message is in the queue.    *)
Reported(r) == job[r].state # "absent" \/ r \in shown

(* find: undefined when readFile is rejected, for whatever reason, so that *)
(* a saved session that cannot be read is as good as none; a file that is  *)
(* read and is no JSON makes the attempt throw.                            *)
Found(th, o) == IF o = "ok" THEN file[th] ELSE NoSession

NotePassedOver(th, o) ==
    unread' = IF o = "ok" THEN unread
              ELSE [unread EXCEPT ![th] = @ \cup file[th].memory \cup
                      {r[1] : r \in {x \in Runs : Reported(x) /\ ThreadOf[x[1]] = th}}]

(* Variants, each named for the slip it makes, stand before what they      *)
(* replace: the runs show that the properties tell them apart.  This one   *)
(* takes a file that is no JSON for none.                                  *)
FindStartsAnew(w, o) ==
    /\ at[w] = "finding"
    /\ Outcome(o)
    /\ LET f == Found(ThreadAt(w), o)
       IN  session' = [session EXCEPT ![w] =
             IF f.state = "saved" THEN f ELSE [NoSession EXCEPT !.repo = RepoOf[cur[w]]]]
    /\ NotePassedOver(ThreadAt(w), o)
    /\ GoTo(w, "opening")
    /\ UNCHANGED <<queues, cur, file, ran, live, used, shown>>

FindSession(w, o) ==
    /\ at[w] = "finding"
    /\ Outcome(o)
    /\ LET f == Found(ThreadAt(w), o)
           new == [NoSession EXCEPT !.repo = RepoOf[cur[w]]]
       IN  /\ session' = [session EXCEPT ![w] = IF f.state = "none" THEN new ELSE f]
           /\ GoTo(w, IF f.state = "torn" THEN "threw" ELSE "opening")
    /\ NotePassedOver(ThreadAt(w), o)
    /\ UNCHANGED <<queues, cur, file, ran, live, used, shown>>

(* The token, then createSession, resuming what was found.                 *)
OpenSession(w, o) ==
    /\ at[w] = "opening"
    /\ Outcome(o)
    /\ live' = IF o = "lost" THEN live ELSE [live EXCEPT ![w] = @ \cup {Run(w)}]
    /\ GoTo(w, IF o = "ok" THEN "generating" ELSE "threw")
    /\ UNCHANGED <<queues, cur, file, session, ran, used, shown, unread>>

(* The agent works until it answers or errs; nothing bounds the time.  An  *)
(* error leaves the session running and its state unsaved.                 *)
Generate(w, ok) ==
    /\ at[w] = "generating"
    /\ used' = [used EXCEPT ![cur[w]] = session[w].repo]
    /\ GoTo(w, IF ok THEN "stopping" ELSE "threw")
    /\ UNCHANGED <<queues, cur, faults, file, session, ran, live, shown, unread>>

StopSession(w, o) ==
    /\ at[w] = "stopping"
    /\ Outcome(o)
    /\ live' = IF o = "lost" THEN live ELSE [live EXCEPT ![w] = @ \ {Run(w)}]
    /\ session' = IF o = "ok" THEN [session EXCEPT ![w].memory = @ \cup {cur[w]}]
                              ELSE session
    /\ GoTo(w, IF o = "ok" THEN "saving" ELSE "threw")
    /\ UNCHANGED <<queues, cur, file, ran, used, shown, unread>>

(* save: the file is truncated, then written; either may fail.             *)
Truncate(w, o) ==
    /\ at[w] = "saving"
    /\ Outcome(o)
    /\ file' = IF o = "lost" THEN file
               ELSE [file EXCEPT ![ThreadAt(w)] = [NoSession EXCEPT !.state = "torn"]]
    /\ GoTo(w, IF o = "ok" THEN "writing" ELSE "threw")
    /\ UNCHANGED <<queues, cur, session, ran, live, used, shown, unread>>

WriteOut(w, o) ==
    /\ at[w] = "writing"
    /\ Outcome(o)
    /\ file' = IF o = "lost" THEN file
               ELSE [file EXCEPT ![ThreadAt(w)] = [session[w] EXCEPT !.state = "saved"]]
    /\ GoTo(w, IF o = "ok" THEN "summarizing" ELSE "threw")
    /\ UNCHANGED <<queues, cur, session, ran, live, used, shown, unread>>

SummarizeUnchecked(w, o) ==
    /\ at[w] = "summarizing"
    /\ Outcome(o)
    /\ TryEnqueue(Run(w), o)
    /\ GoTo(w, "returned")
    /\ UNCHANGED <<cur, codingVars>>

Summarize(w, o) ==
    /\ at[w] = "summarizing"
    /\ Outcome(o)
    /\ TryEnqueue(Run(w), o)
    /\ GoTo(w, IF o = "ok" THEN "returned" ELSE "threw")
    /\ UNCHANGED <<cur, codingVars>>

-----------------------------------------------------------------------------
(* The web process posts what the summary job holds.                       *)
TakeSummary(w, r) == Begin(w, r, "posting_summary") /\ UNCHANGED codingVars

PostSummary(w, o) ==
    /\ at[w] = "posting_summary"
    /\ Outcome(o)
    /\ shown' = IF o = "lost" THEN shown ELSE shown \cup {cur[w]}
    /\ GoTo(w, IF o = "ok" THEN "returned" ELSE "threw")
    /\ UNCHANGED <<queues, cur, file, session, ran, live, used, unread>>

(* The failed and stalled handlers of both processors only log.            *)
EndCoding(w) ==
    /\ End(w)
    /\ session' = [session EXCEPT ![w] = NoSession]
    /\ UNCHANGED <<file, ran, live, used, shown, unread>>

(* The agents that a worker runs die with it; a file it was writing stays. *)
CrashCoding(w) ==
    /\ at[w] # "idle"
    /\ Crash({w})
    /\ session' = [session EXCEPT ![w] = NoSession]
    /\ live' = [live EXCEPT ![w] = {}]
    /\ UNCHANGED <<file, ran, used, shown, unread>>

ServeCoding(w) ==
    \/ \E t \in Tasks : TakeTask(w, t)
    \/ \E r \in Runs : TakeSummary(w, r)
    \/ \E id \in Tasks \cup Runs : GiveUp(w, id) /\ UNCHANGED codingVars

(* What is sure to go on: everything but the agent's own work.             *)
AttendCoding(w) ==
    \/ \E o \in Outcomes : \/ MakeWorkspace(w, o) \/ FindSession(w, o)
                           \/ OpenSession(w, o) \/ StopSession(w, o)
                           \/ Truncate(w, o) \/ WriteOut(w, o)
                           \/ Summarize(w, o) \/ PostSummary(w, o)
    \/ EndCoding(w)

CodingTimer(id) == Timer(id) /\ UNCHANGED codingVars

CodingNext ==
    \/ \E t \in Tasks, o \in Outcomes : Delegate(t, o)
    \/ \E id \in Tasks \cup Runs : CodingTimer(id)
    \/ \E w \in Workers : \/ ServeCoding(w) \/ AttendCoding(w) \/ CrashCoding(w)
                          \/ \E ok \in BOOLEAN : Generate(w, ok)

coding == <<queues, attempts, faults, codingVars>>

CodingSpec == ProcessorsInit /\ CodingInit /\ [][CodingNext]_coding

(* Workers poll and their calls return, backoff timers fire, and the jobs  *)
(* of dead processes are found: while any of this can go on, some of it    *)
(* does.                                                                   *)
CodingProgress ==
    \/ \E w \in Workers : ServeCoding(w) \/ AttendCoding(w)
    \/ \E id \in Tasks \cup Runs : Overdue(id) /\ CodingTimer(id)

CodingFairness == WF_coding(CodingProgress)

-----------------------------------------------------------------------------
(* "Calling it again in the same thread continues the same coding session" *)
(* (delegate-coding-task.tool.ts:10): a run finds in its session the work  *)
(* of every task whose result the thread was told, also after crashes in   *)
(* the middle of a save; a torn file stops the thread's tasks instead.     *)
(* The code keeps the promise only while session.json can be read: when it *)
(* cannot, the attempt starts anew (coding-session.repository.ts:33-36)    *)
(* and its save replaces the session, so that the work done until then is  *)
(* lost to the thread.  No other work is.                                  *)
ContinuesTheThread ==
    \A w \in Workers : at[w] = "generating" =>
      \A r \in Runs :
        Reported(r) /\ ThreadOf[r[1]] = ThreadAt(w)
        => r[1] \in session[w].memory \cup unread[ThreadAt(w)]

(* A session never mixes two repositories, whatever the tasks of a thread  *)
(* name and whichever of them is run, retried or resumed first; the retry  *)
(* of a task whose session could not be read may work in another.          *)
OneRepoPerSession ==
    \A th \in Threads : file[th].state = "saved" =>
      \A t \in file[th].memory \ unread[th] : used[t] = file[th].repo

(* A thread has one session: all of its work, in one repository.           *)
SessionIsKept == ContinuesTheThread /\ OneRepoPerSession

(* No finished work goes unreported: a completed task's summary was queued *)
(* for the thread.                                                         *)
CompletedIsSummarized ==
    \A t \in Tasks : job[t].state = "completed" =>
      \E r \in Runs : r[1] = t /\ job[r].state # "absent"

(* An agent outlives its attempt only if the attempt failed or lost its    *)
(* lock; otherwise no two agents are ever at work in one directory.        *)
LeftoversHadTrouble ==
    \A w \in Workers : \A r \in live[w] :
      (cur[w] # None /\ r = Run(w)) \/ job[r[1]].made > 0 \/ job[r[1]].stalls > 0

(* Work that is done is told, and leaves no agent running.                 *)
WorkEndsClean == CompletedIsSummarized /\ LeftoversHadTrouble

(* The queues run dry again and again: every task ends, and so does the    *)
(* post of its summary, unless an agent never returns, which is all that   *)
(* can hold the worker up.                                                 *)
EveryTaskSettles ==
    \/ \E w \in Workers : <>[](at[w] = "generating")
    \/ []<>(\A id \in Tasks \cup Runs : ~Pending(id))
=============================================================================
