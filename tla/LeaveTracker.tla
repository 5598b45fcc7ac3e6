---------------------------- MODULE LeaveTracker ----------------------------
(***************************************************************************)
(* The leave tracker: a message in the leaves channel becomes a queued     *)
(* job; an attempt at the job classifies the message, plans the days to    *)
(* mark, marks them concurrently in RazorpayX Payroll and answers in the   *)
(* Slack thread.  Every await of the code is a step of its own, so the     *)
(* payroll, Slack, the queue and the process may change or fail in between.*)
(*                                                                         *)
(* One employee (one email) is modelled: the records of two employees      *)
(* never meet.  The plan that leave-plan.ts computes is an input here      *)
(* (module LeavePlan models how it is computed).                           *)
(***************************************************************************)
EXTENDS Naturals, Sequences, FiniteSets

CONSTANTS
    Messages,       \* channel messages of the employee, bots and others
    Eligible,       \* those the listener lets through
    ThreadReplies,  \* those posted inside a thread
    Verdicts,       \* what the classifier may make of each message
    Days,           \* calendar days of the attendance record
    Targets,        \* the entries a day can be marked with
    Workers,        \* worker processes serving the queue
    None,           \* no entry, no mark, no worker, no message
    Attempts, MaxStalls, KeepCompleted,     \* see JobQueue
    Effects,        \* what a request may do in RazorpayX, see below
    MaxDeliveries,  \* bound: how often Slack delivers one message
    MaxEdits        \* bound: changes made in RazorpayX by people

Entries == Targets \cup {None}

(* A classification with the plan made from it: the entry planned for each *)
(* day, and whether every requested date made it into the plan.            *)
VerdictRecord == [intent : {"ignore", "clarify", "mark"},
                  marks  : [Days -> Entries],
                  clean  : BOOLEAN]

ASSUME LeaveAssumption ==
    /\ Eligible \subseteq Messages /\ ThreadReplies \subseteq Messages
    /\ Verdicts \in [Messages -> SUBSET VerdictRecord]
    /\ Effects \subseteq {"set", "request", "nothing", "late"}
    /\ None \notin Messages \cup Targets \cup Workers
    /\ Attempts \in Nat \ {0} /\ MaxStalls \in Nat /\ KeepCompleted \in Nat
    /\ MaxDeliveries \in Nat /\ MaxEdits \in Nat

ASSUME FinitelyMany == IsFiniteSet(Messages) /\ IsFiniteSet(Workers)

VARIABLES
    job, waiting, kept,     \* the leave-tracker queue
    deliveries,             \* deliveries of each message so far
    pc, cur,                \* where each worker is, and in which message
    plan, clean, mark,      \* its plan, and the progress of each day's mark
    answer,                 \* what it is about to post
    reports,                \* onFailed handlers still to post, by worker
    rec, late, edits,       \* payroll: entry per day, requests in flight
    posts,                  \* what the thread shows, per message
    applied, held, told     \* history: the entries RazorpayX accepted for
                            \* each message, all entries the record has
                            \* shown, and the days told to be marked

queue     == <<job, waiting, kept>>
attempt   == <<pc, cur, plan, clean, mark, answer>>
payroll   == <<rec, late, edits, applied, held>>
thread    == <<posts, told>>
vars == <<queue, deliveries, attempt, reports, payroll, thread>>

Q == INSTANCE JobQueue WITH Jobs <- Messages, NoWorker <- None

PCs == {"idle", "reading", "resolving", "marking", "posting",
        "returned", "threw"}
Outcomes == {"done", "already_done", "mismatch", "failed"}
Phases == Outcomes \cup {"unplanned", "reading", "patching", "reposting",
                         "checking"}
Answers == {"clarify", "no_email", "not_found", "report"}

TypeOK ==
    /\ Q!QueueTypeOK
    /\ deliveries \in [Messages -> 0..MaxDeliveries]
    /\ pc \in [Workers -> PCs]
    /\ cur \in [Workers -> Messages \cup {None}]
    /\ plan \in [Workers -> [Days -> Entries]]
    /\ clean \in [Workers -> BOOLEAN]
    /\ mark \in [Workers -> [Days -> Phases]]
    /\ answer \in [Workers -> Answers \cup {None}]
    /\ reports \subseteq Workers \X Messages
    /\ rec \in [Days -> Entries]
    /\ late \subseteq Messages \X Days \X Targets
    /\ edits \in 0..MaxEdits
    /\ posts \in [Messages -> Seq(Answers \cup {"sorry"})]
    /\ applied \subseteq Messages \X Days \X Targets
    /\ held \subseteq Days \X Targets
    /\ told \subseteq Messages \X Days \X Targets \X {"done", "already_done"}

NoPlan  == [d \in Days |-> None]
NoMarks == [d \in Days |-> "unplanned"]

Init ==
    /\ Q!QueueInit
    /\ deliveries = [m \in Messages |-> 0]
    /\ pc = [w \in Workers |-> "idle"]
    /\ cur = [w \in Workers |-> None]
    /\ plan = [w \in Workers |-> NoPlan]
    /\ clean = [w \in Workers |-> TRUE]
    /\ mark = [w \in Workers |-> NoMarks]
    /\ answer = [w \in Workers |-> None]
    /\ reports = {}
    /\ rec \in [Days -> Entries]
    /\ late = {}
    /\ edits = 0
    /\ posts = [m \in Messages |-> <<>>]
    /\ applied = {}
    /\ held = {e \in Days \X Targets : rec[e[1]] = e[2]}
    /\ told = {}

-----------------------------------------------------------------------------
(* Variants, each named for the slip it makes, stand before what they      *)
(* replace: the runs show that the properties tell them apart.             *)
OnAnyMessage(m) ==
    /\ deliveries[m] < MaxDeliveries
    /\ deliveries' = [deliveries EXCEPT ![m] = @ + 1]
    /\ Q!Add(m) \/ UNCHANGED queue
    /\ UNCHANGED <<attempt, reports, payroll, thread>>

(* The listener.  Slack may deliver a message again; the job id is the     *)
(* message id.  A failing queue.add is logged and the message is lost.     *)
OnLeavesMessage(m) ==
    /\ deliveries[m] < MaxDeliveries
    /\ deliveries' = [deliveries EXCEPT ![m] = @ + 1]
    /\ \/ m \in Eligible /\ Q!Add(m)
       \/ UNCHANGED queue
    /\ UNCHANGED <<attempt, reports, payroll, thread>>

-----------------------------------------------------------------------------
(* An attempt, from taking the job to reporting its end to the queue.      *)
GoTo(w, place) == pc' = [pc EXCEPT ![w] = place]

Take(w, m) ==
    /\ pc[w] = "idle"
    /\ Q!Take(w, m)
    /\ GoTo(w, "reading")
    /\ cur' = [cur EXCEPT ![w] = m]
    /\ UNCHANGED <<deliveries, plan, clean, mark, answer, reports, payroll,
                   thread>>

ReportedEveryTime(m) == TRUE

(* A job that stalled too often fails without a call of process(); the     *)
(* handler of the event says nothing unless all attempts were made.        *)
Reported(m) == job[m].made + 1 >= Attempts

GiveUp(w, m) ==
    /\ pc[w] = "idle"
    /\ Q!GiveUp(m)
    /\ reports' = IF Reported(m) THEN reports \cup {<<w, m>>} ELSE reports
    /\ UNCHANGED <<deliveries, attempt, payroll, thread>>

(* Slack reads and the classifier; the author's email may be unreadable.   *)
ToPost(w, a) ==
    /\ GoTo(w, "posting")
    /\ answer' = [answer EXCEPT ![w] = a]

Classify(w, v, hasEmail) ==
    /\ pc[w] = "reading"
    /\ v \in Verdicts[cur[w]]
    /\ \/ /\ v.intent = "ignore"
          /\ GoTo(w, "returned")
          /\ UNCHANGED <<plan, clean, answer>>
       \/ /\ v.intent = "clarify"
          /\ ToPost(w, "clarify")
          /\ UNCHANGED <<plan, clean>>
       \/ /\ v.intent = "mark" /\ ~hasEmail
          /\ ToPost(w, "no_email")
          /\ UNCHANGED <<plan, clean>>
       \/ /\ v.intent = "mark" /\ hasEmail
          /\ GoTo(w, "resolving")
          /\ plan' = [plan EXCEPT ![w] = v.marks]
          /\ clean' = [clean EXCEPT ![w] = v.clean]
          /\ UNCHANGED answer
    /\ UNCHANGED <<queue, deliveries, cur, mark, reports, payroll, thread>>

(* resolveEmployee: the company the employee is in, or none; then          *)
(* Promise.all starts every planned mark.  A company without leave-type    *)
(* codes fails them all at once.                                           *)
Resolve(w, found, configured) ==
    /\ pc[w] = "resolving"
    /\ \/ /\ found
          /\ GoTo(w, "marking")
          /\ mark' = [mark EXCEPT ![w] =
                        [d \in Days |->
                           IF plan[w][d] = None THEN "unplanned"
                           ELSE IF configured THEN "reading" ELSE "failed"]]
          /\ UNCHANGED answer
       \/ /\ ~found
          /\ ToPost(w, "not_found")
          /\ UNCHANGED mark
    /\ UNCHANGED <<queue, deliveries, cur, plan, clean, reports, payroll,
                   thread>>

(* Anything before the marks that throws ends the attempt.                 *)
Throw(w) ==
    /\ pc[w] \in {"reading", "resolving"}
    /\ GoTo(w, "threw")
    /\ UNCHANGED <<queue, deliveries, cur, plan, clean, mark, answer,
                   reports, payroll, thread>>

-----------------------------------------------------------------------------
(* applyMark, one step per request.                                        *)
Marking(w, d, phase) == pc[w] = "marking" /\ mark[w][d] = phase

SetMark(w, d, phase) == mark' = [mark EXCEPT ![w][d] = phase]

Matches(w, d) == rec[d] = plan[w][d]

MarkStepUnchanged == UNCHANGED <<queue, deliveries, pc, cur, plan, clean,
                                 answer, reports, thread>>

(* The read before the write; a read that fails counts as "not a match".   *)
ReadBefore(w, d, readable) ==
    /\ Marking(w, d, "reading")
    /\ SetMark(w, d, IF readable /\ Matches(w, d) THEN "already_done"
                                                   ELSE "patching")
    /\ MarkStepUnchanged /\ UNCHANGED payroll

(* What a request does in RazorpayX.  "set" writes the entry, "request"    *)
(* files it for approval, "late" is still to be executed when the caller   *)
(* has given up on it.                                                     *)
Effect(m, d, t, e) ==
    /\ rec' = IF e = "set" THEN [rec EXCEPT ![d] = t] ELSE rec
    /\ late' = IF e = "late" THEN late \cup {<<m, d, t>>} ELSE late
    /\ applied' = IF e \in {"set", "request"}
                  THEN applied \cup {<<m, d, t>>} ELSE applied
    /\ held' = IF e = "set" THEN held \cup {<<d, t>>} ELSE held
    /\ UNCHANGED edits

ModifyErrorIgnored(w, d, from, onError, e, ok) ==
    /\ Marking(w, d, from)
    /\ ok => e \in {"set", "request"}
    /\ Effect(cur[w], d, plan[w][d], e)
    /\ SetMark(w, d, "checking")
    /\ MarkStepUnchanged

(* modifyAttendance: PATCH, and on any error but "employee not found" the  *)
(* same request as POST.  An "ok" means RazorpayX accepted the entry; an   *)
(* error or a timeout says nothing of what the request did.                *)
Modify(w, d, from, onError, e, ok) ==
    /\ Marking(w, d, from)
    /\ ok => e \in {"set", "request"}
    /\ Effect(cur[w], d, plan[w][d], e)
    /\ SetMark(w, d, IF ok THEN "checking" ELSE onError)
    /\ MarkStepUnchanged

Patch(w, d, e, ok) == Modify(w, d, "patching", "reposting", e, ok)

Post(w, d, e, ok) == Modify(w, d, "reposting", "failed", e, ok)

PatchNotFound(w, d) ==
    /\ Marking(w, d, "patching")
    /\ SetMark(w, d, "failed")
    /\ MarkStepUnchanged /\ UNCHANGED payroll

(* The read-back; a read that fails counts as "done".                      *)
ReadBack(w, d, readable) ==
    /\ Marking(w, d, "checking")
    /\ SetMark(w, d, IF readable /\ ~Matches(w, d) THEN "mismatch"
                                                    ELSE "done")
    /\ MarkStepUnchanged /\ UNCHANGED payroll

(* Promise.all has every outcome: stay silent or report.                   *)
ChangedNothing(w) ==
    clean[w] /\ \A d \in Days : mark[w][d] \in {"unplanned", "already_done"}

ConcludeUnformatted(w) ==
    /\ pc[w] = "marking"
    /\ \A d \in Days : mark[w][d] \in Outcomes \cup {"unplanned"}
    /\ GoTo(w, "posting")
    /\ UNCHANGED <<queue, deliveries, cur, plan, clean, mark, answer, reports,
                   payroll, thread>>

Conclude(w) ==
    /\ pc[w] = "marking"
    /\ \A d \in Days : mark[w][d] \in Outcomes \cup {"unplanned"}
    /\ IF cur[w] \in ThreadReplies /\ ChangedNothing(w)
       THEN GoTo(w, "returned") /\ UNCHANGED answer
       ELSE ToPost(w, "report")
    /\ UNCHANGED <<queue, deliveries, cur, plan, clean, mark, reports,
                   payroll, thread>>

-----------------------------------------------------------------------------
(* The days a report lists as "Marked in RazorpayX" and "Already marked".  *)
Listed(w) ==
    {l \in {cur[w]} \X Days \X Targets \X {"done", "already_done"} :
        l[3] = plan[w][l[2]] /\ l[4] = mark[w][l[2]]}

(* respond: the post may fail, also after Slack has shown it; the reaction *)
(* that follows never throws.                                              *)
Respond(w, shown, ok) ==
    /\ pc[w] = "posting"
    /\ ok => shown
    /\ posts' = IF shown
                THEN [posts EXCEPT ![cur[w]] = Append(@, answer[w])] ELSE posts
    /\ told' = IF shown /\ answer[w] = "report"
               THEN told \cup Listed(w) ELSE told
    /\ GoTo(w, IF ok THEN "returned" ELSE "threw")
    /\ UNCHANGED <<queue, deliveries, cur, plan, clean, mark, answer,
                   reports, payroll>>

(* The attempt's local state is gone when it ends or its process dies.     *)
Forget(w) ==
    /\ GoTo(w, "idle")
    /\ cur' = [cur EXCEPT ![w] = None]
    /\ plan' = [plan EXCEPT ![w] = NoPlan]
    /\ clean' = [clean EXCEPT ![w] = TRUE]
    /\ mark' = [mark EXCEPT ![w] = NoMarks]
    /\ answer' = [answer EXCEPT ![w] = None]

(* The worker tells the queue.  If the lock was lost meanwhile the queue   *)
(* refuses, and only the worker's "error" event is raised.                 *)
Return(w) ==
    /\ pc[w] = "returned"
    /\ Q!Complete(w, cur[w])
    /\ Forget(w)
    /\ UNCHANGED <<deliveries, reports, payroll, thread>>

Fail(w) ==
    /\ pc[w] = "threw"
    /\ reports' = IF Reported(cur[w])
                  THEN reports \cup {<<w, cur[w]>>} ELSE reports
    /\ Q!Fail(w, cur[w])
    /\ Forget(w)
    /\ UNCHANGED <<deliveries, payroll, thread>>

EndWithoutLock(w) ==
    /\ pc[w] \in {"returned", "threw"}
    /\ ~Q!HoldsLock(w, cur[w])
    /\ Forget(w)
    /\ UNCHANGED <<queue, deliveries, reports, payroll, thread>>

(* onFailed's message; a post that fails is only logged.                   *)
OnFailed(w, m, shown) ==
    /\ <<w, m>> \in reports
    /\ reports' = reports \ {<<w, m>>}
    /\ posts' = IF shown THEN [posts EXCEPT ![m] = Append(@, "sorry")]
                         ELSE posts
    /\ UNCHANGED <<queue, deliveries, attempt, payroll, told>>

-----------------------------------------------------------------------------
(* The environment: queue timers, process death, people and RazorpayX.     *)
Orphaned(m) == job[m].state = "active" /\ cur[job[m].owner] # m

QueueTimer(m) ==
    /\ Q!Promote(m) \/ Q!Stall(m)
    /\ UNCHANGED <<deliveries, attempt, reports, payroll, thread>>

Crash(w) ==
    /\ pc[w] # "idle" \/ \E m \in Messages : <<w, m>> \in reports
    /\ Forget(w)
    /\ reports' = {r \in reports : r[1] # w}
    /\ UNCHANGED <<queue, deliveries, payroll, thread>>

EditedByPeople(d, t) ==
    /\ edits < MaxEdits
    /\ edits' = edits + 1
    /\ rec' = [rec EXCEPT ![d] = t]
    /\ held' = IF t = None THEN held ELSE held \cup {<<d, t>>}
    /\ UNCHANGED <<queue, deliveries, attempt, reports, late, applied, thread>>

LateRequest(m, d, t, e) ==
    /\ <<m, d, t>> \in late
    /\ rec' = IF e = "set" THEN [rec EXCEPT ![d] = t] ELSE rec
    /\ late' = late \ {<<m, d, t>>}
    /\ applied' = IF e = "nothing" THEN applied
                                   ELSE applied \cup {<<m, d, t>>}
    /\ held' = IF e = "set" THEN held \cup {<<d, t>>} ELSE held
    /\ UNCHANGED <<queue, deliveries, attempt, reports, edits, thread>>

-----------------------------------------------------------------------------
MarkStep(w) ==
    \E d \in Days :
      \/ \E readable \in BOOLEAN :
            ReadBefore(w, d, readable) \/ ReadBack(w, d, readable)
      \/ \E e \in Effects, ok \in BOOLEAN : Patch(w, d, e, ok) \/ Post(w, d, e, ok)
      \/ PatchNotFound(w, d)

Serve(w) == \E m \in Messages : Take(w, m) \/ GiveUp(w, m)

Attend(w) ==
    \/ \E v \in UNION {Verdicts[m] : m \in Messages}, hasEmail \in BOOLEAN :
          Classify(w, v, hasEmail)
    \/ \E found, configured \in BOOLEAN : Resolve(w, found, configured)
    \/ Throw(w)
    \/ MarkStep(w)
    \/ Conclude(w)
    \/ \E shown, ok \in BOOLEAN : Respond(w, shown, ok)
    \/ Return(w)
    \/ Fail(w)
    \/ EndWithoutLock(w)

Notify(w) == \E m \in Messages, shown \in BOOLEAN : OnFailed(w, m, shown)

Environment ==
    \/ \E m \in Messages : OnLeavesMessage(m) \/ QueueTimer(m)
    \/ \E w \in Workers : Crash(w)
    \/ \E d \in Days, t \in Entries : EditedByPeople(d, t)
    \/ \E m \in Messages, d \in Days, t \in Targets,
          e \in Effects \ {"late"} : LateRequest(m, d, t, e)

Next ==
    \/ \E w \in Workers : Serve(w) \/ Attend(w) \/ Notify(w)
    \/ Environment

Spec == Init /\ [][Next]_vars

(* Workers poll while idle and their calls return (each payroll request    *)
(* times out after 15 s, so an attempt cannot wait forever on one); the    *)
(* backoff timer fires; the stalled check finds jobs whose worker died.    *)
Reap(m) == Orphaned(m) /\ QueueTimer(m)
Wake(m) == job[m].state = "delayed" /\ QueueTimer(m)

Fairness ==
    /\ \A w \in Workers : /\ WF_vars(Serve(w))
                          /\ WF_vars(Attend(w))
                          /\ WF_vars(Notify(w))
    /\ \A m \in Messages : WF_vars(Reap(m)) /\ WF_vars(Wake(m))

FairSpec == Spec /\ Fairness

-----------------------------------------------------------------------------
(* A day is only ever reported as marked if RazorpayX accepted that very   *)
(* entry for this message, and as already marked only if the record really *)
(* showed it; retries, crashes, lost locks and late requests included.     *)
ReplyIsBacked ==
    \A l \in told :
      /\ l[4] = "done" => <<l[1], l[2], l[3]>> \in applied
      /\ l[4] = "already_done" => <<l[2], l[3]>> \in held

(* Nothing is written to RazorpayX, now or by a request still in flight,   *)
(* that some classification of a message the listener let through did not  *)
(* ask for: no write carries over from one message or attempt to another.  *)
Asked(m, d, t) ==
    m \in Eligible /\ \E v \in Verdicts[m] : v.intent = "mark" /\ v.marks[d] = t

OnlyWhatWasAsked ==
    \A a \in applied \cup late : Asked(a[1], a[2], a[3])

(* A message whose job completed got an answer, unless the classifier may  *)
(* ignore it or it is a thread reply.                                      *)
MayIgnore(m) == \E v \in Verdicts[m] : v.intent = "ignore"

CompletedIsAnswered ==
    \A m \in Messages :
      job[m].state = "completed" /\ posts[m] = <<>>
          => MayIgnore(m) \/ m \in ThreadReplies

(* The author gets one answer, plus at most one for every attempt that     *)
(* failed or lost its lock: without such a fault nobody is answered twice, *)
(* however often Slack delivers the message (while its job is retained).   *)
AnswersBounded ==
    KeepCompleted >= Cardinality(Messages) =>
      \A m \in Messages :
        Len(posts[m]) <= job[m].made + job[m].stalls + 1

(* "I couldn't process this message" is posted only when the job is over   *)
(* and every attempt has been made.                                        *)
SorryOnlyWhenExhausted ==
    \A m \in Messages :
      "sorry" \in {posts[m][i] : i \in DOMAIN posts[m]}
          => job[m].state = "failed" /\ job[m].made = Attempts

(* What the author of a message hears: one answer, unless attempts failed, *)
(* an apology last, and something, if the message had to be answered.      *)
AnsweredRight == AnswersBounded /\ SorryOnlyWhenExhausted /\ CompletedIsAnswered

(* Every message that reached the queue is settled, whatever fails and     *)
(* whichever process dies.                                                 *)
EveryMessageSettles ==
    \A m \in Messages : job[m].state = "waiting" ~>
        job[m].state \in {"completed", "failed", "absent"}

(* What the failure notice says (leave-tracker.processor.ts:50): "so       *)
(* nothing was updated in RazorpayX".                                      *)
NoticeIsTrue ==
    \A m \in Messages :
      "sorry" \in {posts[m][i] : i \in DOMAIN posts[m]}
          => \A a \in applied : a[1] # m

=============================================================================
