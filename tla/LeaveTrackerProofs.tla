------------------------- MODULE LeaveTrackerProofs -------------------------
(***************************************************************************)
(* The leave tracker uses its queue as a queue, and what it tells people   *)
(* and writes to RazorpayX is backed, for any number of messages, days,    *)
(* workers and faults.                                                     *)
(***************************************************************************)
EXTENDS LeaveTracker, FiniteSetTheorems, TLAPS

QP == INSTANCE JobQueueProofs WITH Jobs <- Messages, NoWorker <- None

-----------------------------------------------------------------------------
(* The leave tracker's queue is the job queue.                             *)

(* A worker that is not idle works on a message.                           *)
Busy ==
    /\ pc \in [Workers -> PCs]
    /\ cur \in [Workers -> Messages \cup {None}]
    /\ \A w \in Workers : pc[w] # "idle" => cur[w] \in Messages

(* Every step of one worker's attempt keeps its message, or forgets it.    *)
LEMMA AttendKeepsBusy ==
  ASSUME Busy, NEW w \in Workers, Attend(w) PROVE Busy'
  <1> USE DEF Busy, GoTo, ToPost, PCs
  <1>1. ASSUME NEW v, NEW hasEmail, Classify(w, v, hasEmail) PROVE Busy'
    BY <1>1 DEF Classify
  <1>2. ASSUME NEW found, NEW configured, Resolve(w, found, configured)
        PROVE  Busy'
    BY <1>2 DEF Resolve
  <1>3. ASSUME Throw(w) PROVE Busy'
    BY <1>3 DEF Throw
  <1>4. ASSUME MarkStep(w) PROVE Busy'
    <2>1. UNCHANGED <<pc, cur>>
      BY <1>4 DEF MarkStep, ReadBefore, ReadBack, Patch, Post, Modify,
                  PatchNotFound, MarkStepUnchanged
    <2> QED BY <2>1
  <1>5. ASSUME Conclude(w) PROVE Busy'
    BY <1>5 DEF Conclude
  <1>6. ASSUME NEW shown, NEW ok, Respond(w, shown, ok) PROVE Busy'
    BY <1>6 DEF Respond
  <1>7. ASSUME Return(w) \/ Fail(w) \/ EndWithoutLock(w) PROVE Busy'
    <2>1. Forget(w)
      BY <1>7 DEF Return, Fail, EndWithoutLock
    <2> QED BY <2>1 DEF Forget
  <1> QED BY <1>1, <1>2, <1>3, <1>4, <1>5, <1>6, <1>7 DEF Attend

LEMMA BusyStep == Busy /\ [Next]_vars => Busy'
  <1> SUFFICES ASSUME Busy, [Next]_vars PROVE Busy'
    OBVIOUS
  <1>1. CASE UNCHANGED vars
    BY <1>1 DEF vars, attempt, Busy
  <1>2. ASSUME NEW w \in Workers, Serve(w) PROVE Busy'
    BY <1>2 DEF Serve, Take, GiveUp, GoTo, attempt, Busy, PCs
  <1>3. ASSUME NEW w \in Workers, Attend(w) PROVE Busy'
    BY <1>3, AttendKeepsBusy
  <1>4. ASSUME NEW w \in Workers, Notify(w) PROVE Busy'
    BY <1>4 DEF Notify, OnFailed, attempt, Busy
  <1>5. ASSUME NEW w \in Workers, Crash(w) PROVE Busy'
    BY <1>5 DEF Crash, Forget, GoTo, Busy, PCs
  <1>6. ASSUME Environment, \A w \in Workers : ~Crash(w) PROVE Busy'
    <2>1. UNCHANGED attempt
      BY <1>6 DEF Environment, OnLeavesMessage, QueueTimer, EditedByPeople,
                  LateRequest
    <2> QED BY <2>1 DEF attempt, Busy
  <1> QED BY <1>1, <1>2, <1>3, <1>4, <1>5, <1>6 DEF Next

(* Every step of the tracker is a step of its queue or leaves it alone.    *)
LEMMA QueueStep ==
  ASSUME Busy, [Next]_vars PROVE [QP!QueueNext]_(QP!queueVars)
  <1> USE DEF QP!QueueNext, QP!queueVars, QP!Serve, QP!EndAttempt, queue
  <1>1. CASE UNCHANGED vars
    BY <1>1 DEF vars
  <1>2. ASSUME NEW w \in Workers, NEW m \in Messages, Take(w, m) \/ GiveUp(w, m)
        PROVE  QP!QueueNext
    BY <1>2 DEF Take, GiveUp, Q!Take, Q!GiveUp, QP!Take, QP!GiveUp,
       Q!IsNext, QP!IsNext, Q!Doomed, QP!Doomed
  <1>3. ASSUME NEW w \in Workers, Return(w) PROVE QP!QueueNext
    <2>1. cur[w] \in Messages
      BY <1>3 DEF Busy, Return
    <2> QED BY <1>3, <2>1 DEF Return, Q!Complete, QP!Complete, Q!HoldsLock,
               QP!HoldsLock, Q!NoJob, QP!NoJob
  <1>4. ASSUME NEW w \in Workers, Fail(w) PROVE QP!QueueNext
    <2>1. cur[w] \in Messages
      BY <1>4 DEF Busy, Fail
    <2> QED BY <1>4, <2>1 DEF Fail, Q!Fail, QP!Fail, Q!HoldsLock,
               QP!HoldsLock, Q!LastAttempt, QP!LastAttempt
  <1>5. ASSUME NEW w \in Workers, Attend(w), ~Return(w), ~Fail(w)
        PROVE  UNCHANGED queue
    BY <1>5 DEF Attend, Classify, Resolve, Throw, MarkStep, ReadBefore,
       ReadBack, Patch, Post, Modify, PatchNotFound, MarkStepUnchanged,
       Conclude, Respond, EndWithoutLock
  <1>6. ASSUME NEW w \in Workers, Notify(w) \/ Crash(w)
        PROVE  UNCHANGED queue
    BY <1>6 DEF Notify, OnFailed, Crash
  <1>7. ASSUME NEW m \in Messages, OnLeavesMessage(m) \/ QueueTimer(m)
        PROVE  QP!QueueNext \/ UNCHANGED queue
    BY <1>7 DEF OnLeavesMessage, QueueTimer, Q!Add, QP!Add, Q!NewJob,
       QP!NewJob, Q!NoJob, QP!NoJob, Q!Promote, QP!Promote, Q!Stall, QP!Stall,
       Q!queueVars
  <1>8. ASSUME Environment, \A w \in Workers : ~Crash(w),
               \A m \in Messages : ~OnLeavesMessage(m) /\ ~QueueTimer(m)
        PROVE  UNCHANGED queue
    BY <1>8 DEF Environment, EditedByPeople, LateRequest
  <1> QED BY <1>1, <1>2, <1>3, <1>4, <1>5, <1>6, <1>7, <1>8
          DEF Next, Serve, Environment

(* So what holds of every job queue holds of this one: its lists are       *)
(* exact, a message is given up only when its attempts or stalls are used  *)
(* up, and no doomed job runs.                                             *)
THEOREM LeaveQueueCorrect == Spec => []Busy /\ []QP!QueueInv
  <1>1. Init => Busy
    BY DEF Init, Busy, PCs
  <1>2. Init => QP!QueueInit
    BY DEF Init, Q!QueueInit, QP!QueueInit, Q!NoJob, QP!NoJob
  <1>3. Busy /\ [Next]_vars => [QP!QueueNext]_(QP!queueVars)
    BY QueueStep
  <1>4. QP!QueueAssumption
    BY LeaveAssumption DEF QP!QueueAssumption
  <1>5. QP!QueueSafe => []QP!QueueInv
    BY <1>4, QP!QueueCorrect
  <1> QED BY <1>1, <1>2, <1>3, <1>5, BusyStep, PTL DEF Spec, QP!QueueSafe

-----------------------------------------------------------------------------
(* The inductive invariant behind what is told and written.                *)

(* The types of everything but the queue.                                  *)
LocalType ==
    /\ pc \in [Workers -> PCs]
    /\ cur \in [Workers -> Messages \cup {None}]
    /\ plan \in [Workers -> [Days -> Entries]]
    /\ clean \in [Workers -> BOOLEAN]
    /\ mark \in [Workers -> [Days -> Phases]]
    /\ answer \in [Workers -> Answers \cup {None}]

PayrollType ==
    /\ rec \in [Days -> Entries]
    /\ late \subseteq Messages \X Days \X Targets
    /\ edits \in 0..MaxEdits
    /\ applied \subseteq Messages \X Days \X Targets
    /\ held \subseteq Days \X Targets

ThreadType ==
    /\ deliveries \in [Messages -> 0..MaxDeliveries]
    /\ reports \subseteq Workers \X Messages
    /\ posts \in [Messages -> Seq(Answers \cup {"sorry"})]
    /\ told \subseteq Messages \X Days \X Targets \X {"done", "already_done"}

(* Before an attempt has a plan it plans nothing, and before it marks it   *)
(* has marked nothing; what it is about to post is known.                  *)
Staged ==
    \A w \in Workers :
      /\ pc[w] # "idle" => cur[w] \in Messages
      /\ pc[w] \in {"idle", "reading"} => plan[w] = NoPlan
      /\ pc[w] \in {"idle", "reading", "resolving"} => mark[w] = NoMarks
      /\ pc[w] = "posting" => answer[w] \in Answers

(* Only messages the listener let through are in the queue, and a plan is  *)
(* what a classification of its message asked for.                         *)
Asking ==
    /\ \A m \in Messages : job[m].state # "absent" => m \in Eligible
    /\ \A w \in Workers : pc[w] # "idle" => cur[w] \in Eligible
    /\ \A w \in Workers, d \in Days :
          plan[w][d] # None => Asked(cur[w], d, plan[w][d])
    /\ OnlyWhatWasAsked

(* A mark in progress is planned; one that was accepted was accepted for   *)
(* this message, and one found in place was in place.                      *)
Backing ==
    /\ \A w \in Workers, d \in Days :
          /\ mark[w][d] # "unplanned" => plan[w][d] # None
          /\ mark[w][d] \in {"checking", "done"}
                => <<cur[w], d, plan[w][d]>> \in applied
          /\ mark[w][d] = "already_done" => <<d, plan[w][d]>> \in held
    /\ \A d \in Days : rec[d] # None => <<d, rec[d]>> \in held
    /\ ReplyIsBacked

LeaveInv == LocalType /\ PayrollType /\ ThreadType /\ Staged /\ Asking /\ Backing

LEMMA LeaveInitInv == Init => LeaveInv
  <1> SUFFICES ASSUME Init PROVE LeaveInv
    OBVIOUS
  <1> USE LeaveAssumption DEF Init
  <1>1. LocalType
    BY DEF LocalType, PCs, Entries, Phases, NoPlan, NoMarks
  <1>2. PayrollType /\ ThreadType
    BY DEF PayrollType, ThreadType
  <1>3. Staged
    BY DEF Staged
  <1>4. Asking
    BY DEF Asking, OnlyWhatWasAsked, Q!QueueInit, Q!NoJob, NoPlan
  <1>5. Backing
    BY DEF Backing, ReplyIsBacked, NoMarks, Entries
  <1> QED BY <1>1, <1>2, <1>3, <1>4, <1>5 DEF LeaveInv

(* An attempt that ends, however it ends, forgets its plan and marks.      *)
LEMMA ForgetInv ==
  ASSUME LeaveInv, NEW w \in Workers, Forget(w), UNCHANGED <<payroll, told>>,
         \A m \in Messages : job'[m].state # "absent" => job[m].state # "absent",
         ThreadType'
  PROVE  LeaveInv'
  <1> USE DEF LeaveInv, Forget, GoTo
  <1>1. LocalType'
    BY DEF LocalType, PCs, Entries, Phases, NoPlan, NoMarks
  <1>2. PayrollType'
    BY DEF PayrollType, payroll
  <1>3. Staged'
    BY DEF Staged, LocalType
  <1>4. Asking'
    BY DEF Asking, OnlyWhatWasAsked, Asked, LocalType, payroll, NoPlan
  <1>5. Backing'
    BY DEF Backing, ReplyIsBacked, LocalType, payroll, NoMarks, NoPlan
  <1> QED BY <1>1, <1>2, <1>3, <1>4, <1>5

(* A step that touches neither the attempts nor RazorpayX.                 *)
LEMMA OutsideInv ==
  ASSUME LeaveInv, UNCHANGED <<attempt, payroll, told>>, ThreadType',
         \A m \in Messages : job'[m].state # "absent" => m \in Eligible
  PROVE  LeaveInv'
  BY DEF LeaveInv, attempt, payroll, LocalType, PayrollType, Staged, Asking,
         OnlyWhatWasAsked, Asked, Backing, ReplyIsBacked

(* Nothing but the listener brings a new message into the queue.           *)
NoNewJob == \A m \in Messages : job'[m].state # "absent" => job[m].state # "absent"

LEMMA TakeNoNew ==
  ASSUME QP!QueueInv, NEW w \in Workers, NEW m \in Messages,
         Q!Take(w, m) \/ Q!GiveUp(m)
  PROVE  NoNewJob /\ job[m].state # "absent"
  <1>1. job \in [Messages -> QP!JobRecord] /\ waiting \in Seq(Messages)
    BY DEF QP!QueueInv, QP!QueueTypeOK
  <1>2. QP!IsNext(m) /\ waiting' = Tail(waiting)
    BY DEF Q!Take, Q!GiveUp, Q!IsNext, QP!IsNext
  <1>3. job[m].state = "waiting"
    <2>1. m \in QP!Range(waiting)
      BY <1>1, <1>2 DEF QP!IsNext, QP!Range
    <2> QED BY <2>1 DEF QP!QueueInv, QP!ListsExact, QP!ListsJust, QP!InState
  <1> QED BY <1>1, <1>3 DEF NoNewJob, Q!Take, Q!GiveUp

LEMMA EndNoNew ==
  ASSUME QP!QueueInv, NEW w \in Workers, NEW m \in Messages,
         Q!Complete(w, m) \/ Q!Fail(w, m)
  PROVE  NoNewJob
  <1>1. job \in [Messages -> QP!JobRecord] /\ kept \in Seq(Messages)
    BY DEF QP!QueueInv, QP!QueueTypeOK
  <1>2. job[m].state = "active"
    BY DEF Q!Complete, Q!Fail, Q!HoldsLock
  <1>3. CASE Q!Fail(w, m)
    BY <1>1, <1>2, <1>3 DEF Q!Fail, NoNewJob
  <1>4. CASE Q!Complete(w, m)
    <2> DEFINE all == Append(kept, m)
               done == [job EXCEPT ![m] = [@ EXCEPT !.state = "completed",
                                                    !.owner = None]]
    <2>1. job' = done \/ job' = [done EXCEPT ![Head(all)] = Q!NoJob]
      BY <1>4 DEF Q!Complete
    <2>2. \A x \in Messages :
            done[x].state # "absent" => job[x].state # "absent"
      BY <1>1, <1>2
    <2>3. done \in [Messages -> {done[x] : x \in Messages}]
      BY <1>1
    <2>4. Q!NoJob.state = "absent"
      BY DEF Q!NoJob
    <2> HIDE DEF done
    <2> QED BY <2>1, <2>2, <2>3, <2>4 DEF NoNewJob
  <1> QED BY <1>3, <1>4

-----------------------------------------------------------------------------
(* The environment.                                                        *)
LEMMA ListenerInv ==
  ASSUME LeaveInv, QP!QueueInv, NEW m \in Messages, OnLeavesMessage(m)
  PROVE  LeaveInv'
  <1>1. job \in [Messages -> QP!JobRecord]
    BY DEF QP!QueueInv, QP!QueueTypeOK
  <1>2. \A x \in Messages : job'[x].state # "absent" => x \in Eligible
    <2>1. \A x \in Messages : job[x].state # "absent" => x \in Eligible
      BY DEF LeaveInv, Asking
    <2> QED BY <1>1, <2>1 DEF OnLeavesMessage, Q!Add, queue, Q!queueVars
  <1>3. ThreadType'
    BY LeaveAssumption DEF LeaveInv, ThreadType, OnLeavesMessage, thread
  <1> QED BY <1>2, <1>3, OutsideInv DEF OnLeavesMessage, thread

LEMMA TimerInv ==
  ASSUME LeaveInv, QP!QueueInv, NEW m \in Messages, QueueTimer(m)
  PROVE  LeaveInv'
  <1>1. job \in [Messages -> QP!JobRecord]
    BY DEF QP!QueueInv, QP!QueueTypeOK
  <1>2. NoNewJob
    BY <1>1 DEF QueueTimer, Q!Promote, Q!Stall, NoNewJob
  <1>3. ThreadType'
    BY DEF LeaveInv, ThreadType, QueueTimer, thread
  <1> QED BY <1>2, <1>3, OutsideInv
          DEF QueueTimer, thread, NoNewJob, LeaveInv, Asking

LEMMA CrashInv ==
  ASSUME LeaveInv, NEW w \in Workers, Crash(w) PROVE LeaveInv'
  <1>1. ThreadType'
    BY DEF LeaveInv, ThreadType, Crash, thread
  <1> QED BY <1>1, ForgetInv DEF Crash, queue, thread

LEMMA PeopleInv ==
  ASSUME LeaveInv, NEW d \in Days, NEW t \in Entries, EditedByPeople(d, t)
  PROVE  LeaveInv'
  <1> USE DEF LeaveInv, EditedByPeople
  <1>1. LocalType' /\ Staged'
    BY DEF LocalType, Staged, attempt
  <1>2. PayrollType'
    <2>1. edits' \in 0..MaxEdits
      BY LeaveAssumption DEF PayrollType
    <2>2. t # None => <<d, t>> \in Days \X Targets
      BY DEF Entries
    <2> QED BY <2>1, <2>2 DEF PayrollType
  <1>3. ThreadType'
    BY DEF ThreadType, thread
  <1>4. Asking'
    BY DEF Asking, OnlyWhatWasAsked, Asked, attempt, queue
  <1>5. Backing'
    BY DEF Backing, ReplyIsBacked, PayrollType, attempt, thread
  <1> QED BY <1>1, <1>2, <1>3, <1>4, <1>5

LEMMA LateInv ==
  ASSUME LeaveInv, NEW m \in Messages, NEW d \in Days, NEW t \in Targets,
         NEW e, LateRequest(m, d, t, e)
  PROVE  LeaveInv'
  <1> USE DEF LeaveInv, LateRequest
  <1>1. LocalType' /\ Staged'
    BY DEF LocalType, Staged, attempt
  <1>2. PayrollType'
    BY DEF PayrollType, Entries
  <1>3. ThreadType'
    BY DEF ThreadType, thread
  <1>4. Asking'
    BY DEF Asking, OnlyWhatWasAsked, Asked, attempt, queue
  <1>5. Backing'
    BY DEF Backing, ReplyIsBacked, PayrollType, attempt, thread
  <1> QED BY <1>1, <1>2, <1>3, <1>4, <1>5

-----------------------------------------------------------------------------
(* The attempt, up to its marks.                                           *)
LEMMA ServeInv ==
  ASSUME LeaveInv, QP!QueueInv, NEW w \in Workers, Serve(w) PROVE LeaveInv'
  <1>1. PICK m \in Messages : Take(w, m) \/ GiveUp(w, m)
    BY DEF Serve
  <1>2. NoNewJob /\ job[m].state # "absent"
    BY <1>1, TakeNoNew DEF Take, GiveUp
  <1>3. CASE GiveUp(w, m)
    <2>1. ThreadType'
      BY <1>3 DEF LeaveInv, ThreadType, GiveUp, thread
    <2> QED BY <1>2, <1>3, <2>1, OutsideInv
            DEF GiveUp, thread, NoNewJob, LeaveInv, Asking
  <1>4. CASE Take(w, m)
    <2> USE <1>4 DEF LeaveInv, Take, GoTo
    <2>1. LocalType' /\ PayrollType' /\ ThreadType'
      BY DEF LocalType, PayrollType, ThreadType, PCs, payroll, thread
    <2>2. Staged'
      BY DEF Staged, LocalType
    <2>3. plan[w] = NoPlan /\ mark[w] = NoMarks
      BY DEF Staged
    <2>4. Asking'
      BY <1>2, <2>3 DEF Asking, NoNewJob, OnlyWhatWasAsked, Asked, LocalType,
         payroll, NoPlan
    <2>5. Backing'
      BY <2>3 DEF Backing, ReplyIsBacked, LocalType, payroll, thread, NoMarks
    <2> QED BY <2>1, <2>2, <2>4, <2>5
  <1> QED BY <1>1, <1>3, <1>4

LEMMA ClassifyInv ==
  ASSUME LeaveInv, NEW w \in Workers, NEW v, NEW hasEmail,
         Classify(w, v, hasEmail)
  PROVE  LeaveInv'
  <1> USE DEF LeaveInv, Classify, GoTo, ToPost
  <1>1. cur[w] \in Messages /\ cur[w] \in Eligible /\ v \in Verdicts[cur[w]]
    BY DEF Staged, Asking
  <1>2. v \in VerdictRecord
    BY <1>1, LeaveAssumption
  <1>3. v.marks \in [Days -> Entries] /\ v.clean \in BOOLEAN
    BY <1>2 DEF VerdictRecord
  <1>4. LocalType' /\ PayrollType' /\ ThreadType'
    BY <1>3 DEF LocalType, PayrollType, ThreadType, PCs, Answers, payroll,
       thread
  <1>5. plan[w] = NoPlan /\ mark[w] = NoMarks
    BY DEF Staged
  <1>6. Staged'
    BY <1>5 DEF Staged, LocalType, Answers
  <1>7. Asking'
    <2>1. plan' = plan \/ (v.intent = "mark" /\ plan' = [plan EXCEPT ![w] = v.marks])
      OBVIOUS
    <2>2. ASSUME NEW x \in Workers, NEW d \in Days, plan'[x][d] # None
          PROVE  Asked(cur[x], d, plan'[x][d])
      <3>1. CASE plan'[x] = plan[x]
        BY <2>2, <3>1 DEF Asking
      <3>2. CASE x = w /\ v.intent = "mark" /\ plan'[x] = v.marks
        BY <1>1, <3>2 DEF Asked
      <3> QED BY <2>1, <3>1, <3>2 DEF LocalType
    <2>3. OnlyWhatWasAsked'
      BY DEF Asking, OnlyWhatWasAsked, Asked, payroll
    <2> QED BY <2>2, <2>3 DEF Asking, Asked, LocalType, queue
  <1>8. Backing'
    <2>1. ASSUME NEW x \in Workers, NEW d \in Days, mark[x][d] # "unplanned"
          PROVE  plan'[x] = plan[x]
      BY <1>5, <2>1 DEF LocalType, NoMarks
    <2> QED BY <2>1 DEF Backing, ReplyIsBacked, LocalType, payroll, thread
  <1> QED BY <1>4, <1>6, <1>7, <1>8

LEMMA ResolveInv ==
  ASSUME LeaveInv, NEW w \in Workers, NEW found, NEW configured,
         Resolve(w, found, configured)
  PROVE  LeaveInv'
  <1> USE DEF LeaveInv, Resolve, GoTo, ToPost
  <1>1. LocalType' /\ PayrollType' /\ ThreadType'
    <2> DEFINE started == [d \in Days |->
                             IF plan[w][d] = None THEN "unplanned"
                             ELSE IF configured THEN "reading" ELSE "failed"]
    <2>1. started \in [Days -> Phases]
      BY DEF Phases, Outcomes
    <2>2. mark' = mark \/ mark' = [mark EXCEPT ![w] = started]
      OBVIOUS
    <2> HIDE DEF started
    <2>3. mark' \in [Workers -> [Days -> Phases]]
      BY <2>1, <2>2 DEF LocalType
    <2> QED BY <2>3 DEF LocalType, PayrollType, ThreadType, PCs, Answers,
               payroll, thread
  <1>2. Staged'
    BY DEF Staged, LocalType, Answers
  <1>3. Asking'
    BY DEF Asking, OnlyWhatWasAsked, Asked, LocalType, payroll, queue
  <1>4. Backing'
    <2>1. ASSUME NEW x \in Workers, NEW d \in Days
          PROVE  \/ mark'[x][d] = mark[x][d]
                 \/ mark'[x][d] = "unplanned"
                 \/ mark'[x][d] \in {"reading", "failed"} /\ plan[x][d] # None
      <3> DEFINE started == [y \in Days |->
                               IF plan[w][y] = None THEN "unplanned"
                               ELSE IF configured THEN "reading" ELSE "failed"]
      <3>1. mark' = mark \/ mark' = [mark EXCEPT ![w] = started]
        OBVIOUS
      <3>2. started[d] = "unplanned" \/ (started[d] \in {"reading", "failed"}
                                           /\ plan[w][d] # None)
        OBVIOUS
      <3> HIDE DEF started, Resolve
      <3>3. mark'[x] = mark[x] \/ (x = w /\ mark'[x] = started)
        BY <3>1 DEF LocalType
      <3> QED BY <3>2, <3>3
    <2>2. UNCHANGED <<cur, plan, applied, held, rec, told>>
      BY DEF payroll, thread
    <2> HIDE DEF Resolve
    <2> QED BY <2>1, <2>2 DEF Backing, ReplyIsBacked
  <1> QED BY <1>1, <1>2, <1>3, <1>4

LEMMA ThrowInv ==
  ASSUME LeaveInv, NEW w \in Workers, Throw(w) PROVE LeaveInv'
  <1> USE DEF LeaveInv, Throw, GoTo
  <1>1. LocalType' /\ PayrollType' /\ ThreadType'
    BY DEF LocalType, PayrollType, ThreadType, PCs, payroll, thread
  <1>2. Staged'
    BY DEF Staged, LocalType
  <1>3. Asking'
    BY DEF Asking, OnlyWhatWasAsked, Asked, LocalType, payroll, queue
  <1>4. Backing'
    BY DEF Backing, ReplyIsBacked, LocalType, payroll, thread
  <1> QED BY <1>1, <1>2, <1>3, <1>4

-----------------------------------------------------------------------------
(* The marks.  One mark of one attempt moves on; what RazorpayX accepted   *)
(* and has shown only grows.                                               *)
LEMMA MarkInv ==
  ASSUME LeaveInv, PayrollType', NEW w \in Workers, NEW d \in Days,
         NEW phase \in Phases \ {"unplanned"},
         pc[w] = "marking", mark[w][d] # "unplanned", SetMark(w, d, phase),
         MarkStepUnchanged,
         applied \subseteq applied', held \subseteq held',
         \A x \in Days : rec'[x] # None => <<x, rec'[x]>> \in held',
         \A a \in (applied' \cup late') \ (applied \cup late) :
            a = <<cur[w], d, plan[w][d]>>,
         phase \in {"checking", "done"} => <<cur[w], d, plan[w][d]>> \in applied',
         phase = "already_done" => <<d, plan[w][d]>> \in held'
  PROVE  LeaveInv'
  <1> USE DEF LeaveInv, MarkStepUnchanged, SetMark
  <1>1. LocalType'
    <2> DEFINE n == [mark[w] EXCEPT ![d] = phase]
    <2>1. n \in [Days -> Phases]
      BY DEF LocalType
    <2>2. mark' = [mark EXCEPT ![w] = n]
      OBVIOUS
    <2> HIDE DEF n
    <2> QED BY <2>1, <2>2 DEF LocalType
  <1>2. ThreadType'
    BY DEF ThreadType, thread
  <1>3. Staged'
    BY DEF Staged, LocalType
  <1>4. Asking'
    <2>1. plan[w][d] # None
      BY DEF Backing
    <2>2. Asked(cur[w], d, plan[w][d])
      BY <2>1 DEF Asking
    <2>3. OnlyWhatWasAsked'
      <3> SUFFICES ASSUME NEW a \in applied' \cup late'
                   PROVE  Asked(a[1], a[2], a[3])
        BY DEF OnlyWhatWasAsked, Asked
      <3>1. CASE a \in applied \cup late
        BY <3>1 DEF Asking, OnlyWhatWasAsked
      <3>2. CASE a \notin applied \cup late
        BY <2>2, <3>2
      <3> QED BY <3>1, <3>2
    <2> QED BY <2>3 DEF Asking, Asked, queue
  <1>5. Backing'
    <2>1. \A x \in Workers, y \in Days :
            mark'[x][y] = IF x = w /\ y = d THEN phase ELSE mark[x][y]
      BY DEF LocalType
    <2>2. plan[w][d] # None
      BY DEF Backing
    <2>3. ReplyIsBacked'
      BY DEF Backing, ReplyIsBacked, thread
    <2> QED BY <2>1, <2>2, <2>3 DEF Backing
  <1> QED BY <1>1, <1>2, <1>3, <1>4, <1>5

(* The reads change nothing in RazorpayX.                                  *)
LEMMA ReadsInv ==
  ASSUME LeaveInv, NEW w \in Workers, NEW d \in Days, NEW readable \in BOOLEAN,
         \/ ReadBefore(w, d, readable)
         \/ ReadBack(w, d, readable)
         \/ PatchNotFound(w, d)
  PROVE  LeaveInv'
  <1>1. UNCHANGED payroll /\ MarkStepUnchanged /\ pc[w] = "marking"
        /\ mark[w][d] # "unplanned"
    BY DEF ReadBefore, ReadBack, PatchNotFound, Marking
  <1>2. plan[w][d] # None
    BY <1>1 DEF LeaveInv, Backing
  <1>3. PayrollType'
    BY <1>1 DEF LeaveInv, PayrollType, payroll
  <1>4. PICK phase \in {"already_done", "patching", "failed", "mismatch", "done"} :
          /\ SetMark(w, d, phase)
          /\ phase = "done" => mark[w][d] = "checking"
          /\ phase = "already_done" => Matches(w, d)
    BY DEF ReadBefore, ReadBack, PatchNotFound, Marking
  <1>5. phase = "done" => <<cur[w], d, plan[w][d]>> \in applied'
    BY <1>1, <1>4 DEF LeaveInv, Backing, payroll
  <1>6. phase = "already_done" => <<d, plan[w][d]>> \in held'
    BY <1>1, <1>2, <1>4 DEF LeaveInv, Backing, payroll, Matches
  <1>7. phase \in Phases \ {"unplanned"} /\ phase # "checking"
    BY DEF Phases, Outcomes
  <1>8. \A x \in Days : rec'[x] # None => <<x, rec'[x]>> \in held'
    BY <1>1 DEF LeaveInv, Backing, payroll
  <1> QED BY <1>1, <1>3, <1>4, <1>5, <1>6, <1>7, <1>8, MarkInv DEF payroll

(* The writes: PATCH and POST.                                             *)
LEMMA WritesInv ==
  ASSUME LeaveInv, NEW w \in Workers, NEW d \in Days, NEW e \in Effects,
         NEW ok \in BOOLEAN, NEW from \in Phases \ {"unplanned"},
         NEW onError \in {"reposting", "failed"}, Modify(w, d, from, onError, e, ok)
  PROVE  LeaveInv'
  <1> USE DEF Modify, Marking, Effect
  <1>1. cur[w] \in Messages /\ plan[w][d] \in Targets
    <2>1. pc[w] = "marking" /\ mark[w][d] # "unplanned"
      OBVIOUS
    <2> HIDE DEF Modify, Marking, Effect
    <2>2. cur[w] \in Messages
      BY <2>1 DEF LeaveInv, Staged
    <2>3. plan[w][d] # None /\ plan[w][d] \in Entries
      BY <2>1 DEF LeaveInv, Backing, LocalType
    <2> QED BY <2>2, <2>3 DEF Entries
  <1> DEFINE m == cur[w]
             t == plan[w][d]
  <1>2. PayrollType'
    BY <1>1 DEF LeaveInv, PayrollType, Entries
  <1>3. PICK phase \in {"checking", "reposting", "failed"} :
          SetMark(w, d, phase) /\ (phase = "checking" => ok)
    OBVIOUS
  <1>4. phase = "checking" => <<m, d, t>> \in applied'
    BY <1>3
  <1>5. \A a \in (applied' \cup late') \ (applied \cup late) : a = <<m, d, t>>
    OBVIOUS
  <1>6. \A x \in Days : rec'[x] # None => <<x, rec'[x]>> \in held'
    BY DEF LeaveInv, Backing, PayrollType
  <1>7. phase \in Phases \ {"unplanned"} /\ phase \notin {"done", "already_done"}
    BY DEF Phases, Outcomes
  <1>8. applied \subseteq applied' /\ held \subseteq held'
    OBVIOUS
  <1>9. pc[w] = "marking" /\ mark[w][d] # "unplanned" /\ MarkStepUnchanged
    OBVIOUS
  <1> HIDE DEF Modify, Effect
  <1> QED BY <1>2, <1>3, <1>4, <1>5, <1>6, <1>7, <1>8, <1>9, MarkInv

LEMMA MarkStepInv ==
  ASSUME LeaveInv, NEW w \in Workers, MarkStep(w) PROVE LeaveInv'
  <1>1. PICK d \in Days :
          \/ \E readable \in BOOLEAN :
                ReadBefore(w, d, readable) \/ ReadBack(w, d, readable)
          \/ \E e \in Effects, ok \in BOOLEAN :
                Patch(w, d, e, ok) \/ Post(w, d, e, ok)
          \/ PatchNotFound(w, d)
    BY DEF MarkStep
  <1>2. CASE \E readable \in BOOLEAN :
               ReadBefore(w, d, readable) \/ ReadBack(w, d, readable)
    BY <1>2, ReadsInv
  <1>3. CASE PatchNotFound(w, d)
    BY <1>3, ReadsInv
  <1>4. {"patching", "reposting"} \subseteq Phases \ {"unplanned"}
    BY DEF Phases
  <1>5. ASSUME NEW e \in Effects, NEW ok \in BOOLEAN, Patch(w, d, e, ok)
        PROVE  LeaveInv'
    BY <1>4, <1>5, WritesInv DEF Patch
  <1>6. ASSUME NEW e \in Effects, NEW ok \in BOOLEAN, Post(w, d, e, ok)
        PROVE  LeaveInv'
    BY <1>4, <1>6, WritesInv DEF Post
  <1> QED BY <1>1, <1>2, <1>3, <1>5, <1>6

-----------------------------------------------------------------------------
(* The end of the attempt.                                                 *)
LEMMA ConcludeInv ==
  ASSUME LeaveInv, NEW w \in Workers, Conclude(w) PROVE LeaveInv'
  <1> USE DEF LeaveInv, Conclude, GoTo, ToPost
  <1>1. LocalType' /\ PayrollType' /\ ThreadType'
    BY DEF LocalType, PayrollType, ThreadType, PCs, Answers, payroll, thread
  <1>2. Staged'
    BY DEF Staged, LocalType, Answers
  <1>3. Asking'
    BY DEF Asking, OnlyWhatWasAsked, Asked, LocalType, payroll, queue
  <1>4. Backing'
    BY DEF Backing, ReplyIsBacked, LocalType, payroll, thread
  <1> QED BY <1>1, <1>2, <1>3, <1>4

(* A report lists what its attempt has marked, and nothing else.           *)
LEMMA RespondInv ==
  ASSUME LeaveInv, NEW w \in Workers, NEW shown, NEW ok,
         Respond(w, shown, ok)
  PROVE  LeaveInv'
  <1> USE DEF LeaveInv, Respond, GoTo
  <1>1. cur[w] \in Messages /\ answer[w] \in Answers
    BY DEF Staged
  <1>2. LocalType' /\ PayrollType'
    BY DEF LocalType, PayrollType, PCs, payroll
  <1>3. told' \subseteq told \cup Listed(w)
    OBVIOUS
  <1>4. ThreadType'
    <2>1. posts' \in [Messages -> Seq(Answers \cup {"sorry"})]
      <3>1. posts[cur[w]] \in Seq(Answers \cup {"sorry"})
        BY <1>1 DEF ThreadType
      <3>2. Append(posts[cur[w]], answer[w]) \in Seq(Answers \cup {"sorry"})
        BY <1>1, <3>1
      <3> QED BY <3>2 DEF ThreadType
    <2> QED BY <1>1, <1>3, <2>1 DEF ThreadType, Listed
  <1>5. Staged'
    BY DEF Staged, LocalType
  <1>6. Asking'
    BY DEF Asking, OnlyWhatWasAsked, Asked, LocalType, payroll, queue
  <1>7. Backing'
    <2>1. ASSUME NEW l \in Listed(w)
          PROVE  /\ l[4] = "done" => <<l[1], l[2], l[3]>> \in applied
                 /\ l[4] = "already_done" => <<l[2], l[3]>> \in held
      BY DEF Listed, Backing
    <2>2. ReplyIsBacked'
      BY <1>3, <2>1 DEF Backing, ReplyIsBacked, payroll
    <2> QED BY <2>2 DEF Backing, LocalType, payroll
  <1> QED BY <1>2, <1>4, <1>5, <1>6, <1>7

LEMMA EndInv ==
  ASSUME LeaveInv, QP!QueueInv, NEW w \in Workers,
         Return(w) \/ Fail(w) \/ EndWithoutLock(w)
  PROVE  LeaveInv'
  <1>1. cur[w] \in Messages
    BY DEF LeaveInv, Staged, Return, Fail, EndWithoutLock
  <1>2. NoNewJob
    <2>1. CASE EndWithoutLock(w)
      BY <2>1 DEF EndWithoutLock, queue, NoNewJob
    <2>2. CASE Return(w) \/ Fail(w)
      BY <1>1, <2>2, EndNoNew DEF Return, Fail
    <2> QED BY <2>1, <2>2
  <1>3. Forget(w) /\ UNCHANGED <<payroll, told>>
    BY DEF Return, Fail, EndWithoutLock, thread
  <1>4. ThreadType'
    BY <1>1 DEF LeaveInv, ThreadType, Return, Fail, EndWithoutLock, thread
  <1> QED BY <1>2, <1>3, <1>4, ForgetInv DEF NoNewJob

LEMMA NotifyInv ==
  ASSUME LeaveInv, NEW w \in Workers, Notify(w) PROVE LeaveInv'
  <1>1. PICK m \in Messages, shown \in BOOLEAN : OnFailed(w, m, shown)
    BY DEF Notify
  <1>2. ThreadType'
    <2>1. Append(posts[m], "sorry") \in Seq(Answers \cup {"sorry"})
      BY DEF LeaveInv, ThreadType
    <2> QED BY <1>1, <2>1 DEF LeaveInv, ThreadType, OnFailed
  <1> QED BY <1>1, <1>2, OutsideInv DEF OnFailed, queue, LeaveInv, Asking

-----------------------------------------------------------------------------
LEMMA LeaveStepInv == LeaveInv /\ QP!QueueInv /\ [Next]_vars => LeaveInv'
  <1> SUFFICES ASSUME LeaveInv, QP!QueueInv, [Next]_vars PROVE LeaveInv'
    OBVIOUS
  <1>1. CASE UNCHANGED vars
    <2>1. ThreadType'
      BY <1>1 DEF LeaveInv, ThreadType, vars, thread
    <2> QED BY <1>1, <2>1, OutsideInv
            DEF vars, queue, thread, LeaveInv, Asking
  <1>2. ASSUME NEW w \in Workers, Attend(w) PROVE LeaveInv'
    BY <1>2, ClassifyInv, ResolveInv, ThrowInv, MarkStepInv, ConcludeInv,
       RespondInv, EndInv DEF Attend
  <1>3. CASE Environment
    BY <1>3, ListenerInv, TimerInv, CrashInv, PeopleInv, LateInv
    DEF Environment
  <1> QED BY <1>1, <1>2, <1>3, ServeInv, NotifyInv DEF Next

LEMMA LeaveInvAlways == Spec => []LeaveInv
  BY LeaveInitInv, LeaveStepInv, LeaveQueueCorrect, PTL DEF Spec

(* Every variable keeps its type.                                          *)
THEOREM LeaveTypeOK == Spec => []TypeOK
  <1>1. LeaveInv /\ QP!QueueInv => TypeOK
    BY DEF LeaveInv, LocalType, PayrollType, ThreadType, TypeOK, QP!QueueInv,
           Q!QueueTypeOK, QP!QueueTypeOK, Q!JobRecord, QP!JobRecord,
           Q!States, QP!States
  <1> QED BY <1>1, LeaveInvAlways, LeaveQueueCorrect, PTL

(* What the thread is told of a day is backed by what RazorpayX accepted   *)
(* or has shown, through every retry, crash, lost lock and late request.   *)
THEOREM LeaveReplyIsBacked == Spec => []ReplyIsBacked
  <1>1. LeaveInv => ReplyIsBacked
    BY DEF LeaveInv, Backing
  <1> QED BY <1>1, LeaveInvAlways, PTL

(* RazorpayX gets no write a classification of an eligible message did not *)
(* ask for.                                                                *)
THEOREM LeaveOnlyWhatWasAsked == Spec => []OnlyWhatWasAsked
  <1>1. LeaveInv => OnlyWhatWasAsked
    BY DEF LeaveInv, Asking
  <1> QED BY <1>1, LeaveInvAlways, PTL

-----------------------------------------------------------------------------
(* What the author of a message hears.  The operations of the queue, as    *)
(* they act on the job records.                                            *)
LEMMA QueueOperations ==
  /\ \A w, m : Q!Take(w, m) <=> QP!Take(w, m)
  /\ \A m : Q!GiveUp(m) <=> QP!GiveUp(m)
  /\ \A m : Q!Add(m) <=> QP!Add(m)
  /\ \A m : Q!Promote(m) <=> QP!Promote(m)
  /\ \A m : Q!Stall(m) <=> QP!Stall(m)
  /\ \A w, m : Q!Complete(w, m) <=> QP!Complete(w, m)
  /\ \A w, m : Q!Fail(w, m) <=> QP!Fail(w, m)
  BY DEF Q!Take, QP!Take, Q!GiveUp, QP!GiveUp, Q!Add, QP!Add, Q!Promote, QP!Promote,
     Q!Stall, QP!Stall, Q!Complete, QP!Complete, Q!Fail, QP!Fail, Q!IsNext,
     QP!IsNext, Q!Doomed, QP!Doomed, Q!NewJob, QP!NewJob, Q!NoJob, QP!NoJob,
     Q!queueVars, QP!queueVars, Q!HoldsLock, QP!HoldsLock, Q!LastAttempt,
     QP!LastAttempt

LEMMA LeaveQueueAssumption == QP!QueueAssumption
  BY LeaveAssumption DEF QP!QueueAssumption

(* A message that failed for good keeps its record.                        *)
Exhausted(m) == job[m].state = "failed" /\ job[m].made = Attempts

LEMMA ExhaustedStays ==
  ASSUME QP!QueueInv, Busy, [Next]_vars, NEW m \in Messages, Exhausted(m)
  PROVE  Exhausted(m)'
  <1>1. QP!Settled(m) /\ job[m].state # "completed"
    BY DEF Exhausted, QP!Settled
  <1>2. job'[m] = job[m]
    BY <1>1, QueueStep, LeaveQueueAssumption, QP!SettledStays
  <1> QED BY <1>2 DEF Exhausted

(* Notices are due, and posted, for exhausted messages only.               *)
Sorry(m) == "sorry" \in {posts[m][i] : i \in DOMAIN posts[m]}

NoticeIsDue ==
    /\ \A w \in Workers, m \in Messages : <<w, m>> \in reports => Exhausted(m)
    /\ \A m \in Messages : Sorry(m) => Exhausted(m)

(* One more answer in a thread.                                            *)
LEMMA OnePost ==
  ASSUME LeaveInv, NEW m \in Messages, NEW a \in Answers \cup {"sorry"},
         posts' = [posts EXCEPT ![m] = Append(@, a)]
  PROVE  /\ Len(posts'[m]) = Len(posts[m]) + 1 /\ posts'[m] # <<>>
         /\ Sorry(m)' => Sorry(m) \/ a = "sorry"
         /\ \A x \in Messages : x # m => posts'[x] = posts[x]
  <1>1. posts \in [Messages -> Seq(Answers \cup {"sorry"})]
    BY DEF LeaveInv, ThreadType
  <1>2. posts[m] \in Seq(Answers \cup {"sorry"})
    BY <1>1
  <1>3. posts'[m] = Append(posts[m], a)
    BY <1>1
  <1>4. /\ Len(posts'[m]) = Len(posts[m]) + 1 /\ posts'[m] # <<>>
        /\ Len(posts[m]) \in Nat /\ DOMAIN posts[m] = 1..Len(posts[m])
        /\ DOMAIN posts'[m] = 1..(Len(posts[m]) + 1)
        /\ \A i \in 1..Len(posts[m]) : posts'[m][i] = posts[m][i]
        /\ posts'[m][Len(posts[m]) + 1] = a
    BY <1>2, <1>3
  <1>5. Sorry(m)' => Sorry(m) \/ a = "sorry"
    BY <1>4 DEF Sorry
  <1> QED BY <1>1, <1>4, <1>5

LEMMA NoticeIsDueStep ==
  ASSUME LeaveInv, QP!QueueInv, Busy, NoticeIsDue, [Next]_vars PROVE NoticeIsDue'
  <1>1. \A m \in Messages : Exhausted(m) => Exhausted(m)'
    BY ExhaustedStays
  <1>2. ASSUME NEW w \in Workers, NEW m \in Messages, GiveUp(w, m)
        PROVE  NoticeIsDue'
    <2>1. job[m].made < Attempts /\ job'[m].state = "failed"
          /\ job'[m].made = job[m].made + 1
      BY <1>2, QueueOperations, LeaveQueueAssumption, QP!GiveUpEffect DEF GiveUp
    <2>2. job[m].made \in 0..Attempts
      BY DEF QP!QueueInv, QP!QueueTypeOK, QP!JobRecord
    <2>3. Reported(m) => Exhausted(m)'
      BY <2>1, <2>2, LeaveAssumption DEF Reported, Exhausted
    <2>4. posts' = posts
      BY <1>2 DEF GiveUp, thread
    <2> QED BY <1>1, <1>2, <2>3, <2>4 DEF NoticeIsDue, GiveUp, Sorry
  <1>3. ASSUME NEW w \in Workers, Fail(w) PROVE NoticeIsDue'
    <2>1. PICK m \in Messages : m = cur[w]
      BY <1>3 DEF Busy, Fail
    <2>2. /\ job[m].made < Attempts /\ job'[m].made = job[m].made + 1
          /\ job'[m].state = IF QP!LastAttempt(m) THEN "failed" ELSE "delayed"
      BY <1>3, <2>1, QueueOperations, LeaveQueueAssumption, QP!FailEffect DEF Fail
    <2>3. job[m].made \in 0..Attempts
      BY <2>1 DEF QP!QueueInv, QP!QueueTypeOK, QP!JobRecord
    <2>4. Reported(m) => Exhausted(m)'
      BY <2>2, <2>3, LeaveAssumption DEF Reported, Exhausted, QP!LastAttempt
    <2>5. posts' = posts
      BY <1>3 DEF Fail, thread
    <2> QED BY <1>1, <1>3, <2>1, <2>4, <2>5 DEF NoticeIsDue, Fail, Sorry
  <1>4. ASSUME NEW w \in Workers, NEW m \in Messages, NEW shown \in BOOLEAN,
               OnFailed(w, m, shown)
        PROVE  NoticeIsDue'
    <2>1. Exhausted(m) /\ reports' \subseteq reports
      BY <1>4 DEF OnFailed, NoticeIsDue
    <2>2. \A x \in Messages : Sorry(x)' => Sorry(x) \/ x = m
      <3>1. CASE shown
        BY <1>4, <3>1, OnePost DEF OnFailed, Sorry
      <3>2. CASE ~shown
        BY <1>4, <3>2 DEF OnFailed, Sorry
      <3> QED BY <3>1, <3>2
    <2> QED BY <1>1, <2>1, <2>2 DEF NoticeIsDue
  <1>5. ASSUME NEW w \in Workers, NEW shown, NEW ok, Respond(w, shown, ok)
        PROVE  NoticeIsDue'
    <2>1. cur[w] \in Messages /\ answer[w] \in Answers /\ reports' = reports
      BY <1>5 DEF Respond, LeaveInv, Staged
    <2>2. answer[w] # "sorry"
      BY <2>1 DEF Answers
    <2>3. \A x \in Messages : Sorry(x)' => Sorry(x)
      <3>1. CASE shown
        BY <1>5, <2>1, <2>2, <3>1, OnePost DEF Respond, Sorry
      <3>2. CASE ~shown
        BY <1>5, <3>2 DEF Respond, Sorry
      <3> QED BY <3>1, <3>2
    <2> QED BY <1>1, <2>1, <2>3 DEF NoticeIsDue
  <1>6. ASSUME posts' = posts, reports' \subseteq reports PROVE NoticeIsDue'
    BY <1>1, <1>6 DEF NoticeIsDue, Sorry
  <1>7. ASSUME NEW w \in Workers, Attend(w), ~Fail(w),
               ~(\E shown, ok \in BOOLEAN : Respond(w, shown, ok))
        PROVE  posts' = posts /\ reports' \subseteq reports
    BY <1>7 DEF Attend, Classify, Resolve, Throw, MarkStep, ReadBefore, ReadBack,
       Patch, Post, Modify, PatchNotFound, MarkStepUnchanged, Conclude, Return,
       EndWithoutLock, thread
  <1>8. ASSUME NEW w \in Workers, NEW m \in Messages, Take(w, m)
        PROVE  posts' = posts /\ reports' \subseteq reports
    BY <1>8 DEF Take, thread
  <1>9. CASE Environment
    BY <1>6, <1>9 DEF Environment, OnLeavesMessage, QueueTimer, Crash,
       EditedByPeople, LateRequest, thread
  <1>10. CASE UNCHANGED vars
    BY <1>6, <1>10 DEF vars, thread
  <1> QED BY <1>2, <1>3, <1>4, <1>5, <1>6, <1>7, <1>8, <1>9, <1>10
          DEF Next, Serve, Notify

(* "I couldn't process this message" is said only of a message all of      *)
(* whose attempts were made and failed.                                    *)
THEOREM LeaveSorryOnlyWhenExhausted == Spec => []SorryOnlyWhenExhausted
  <1>1. Init => NoticeIsDue
    BY DEF Init, NoticeIsDue, Sorry
  <1>2. NoticeIsDue => SorryOnlyWhenExhausted
    BY DEF NoticeIsDue, SorryOnlyWhenExhausted, Exhausted, Sorry
  <1> QED BY <1>1, <1>2, NoticeIsDueStep, LeaveInvAlways, LeaveQueueCorrect, PTL
          DEF Spec

-----------------------------------------------------------------------------
(* An answer, once shown, stays; a message that may be left alone may be   *)
(* left alone for good.                                                    *)
Heard(m) == posts[m] # <<>> \/ MayIgnore(m) \/ m \in ThreadReplies

LEMMA HeardStays ==
  ASSUME LeaveInv, [Next]_vars, NEW m \in Messages, Heard(m) PROVE Heard(m)'
  <1>1. CASE posts' = posts
    BY <1>1 DEF Heard, MayIgnore
  <1>2. ASSUME NEW x \in Messages, NEW a \in Answers \cup {"sorry"},
               posts' = [posts EXCEPT ![x] = Append(@, a)]
        PROVE  Heard(m)'
    BY <1>2, OnePost DEF Heard, MayIgnore
  <1>3. ASSUME NEW w \in Workers, NEW shown, NEW ok, Respond(w, shown, ok)
        PROVE  Heard(m)'
    <2>1. cur[w] \in Messages /\ answer[w] \in Answers
      BY <1>3 DEF Respond, LeaveInv, Staged
    <2> QED BY <1>1, <1>2, <1>3, <2>1 DEF Respond
  <1>4. ASSUME NEW w \in Workers, Notify(w) PROVE Heard(m)'
    BY <1>1, <1>2, <1>4 DEF Notify, OnFailed
  <1>5. ASSUME NEW w \in Workers, Attend(w),
               ~(\E shown, ok \in BOOLEAN : Respond(w, shown, ok))
        PROVE  posts' = posts
    BY <1>5 DEF Attend, Classify, Resolve, Throw, MarkStep, ReadBefore, ReadBack,
       Patch, Post, Modify, PatchNotFound, MarkStepUnchanged, Conclude, Return,
       Fail, EndWithoutLock, thread
  <1>6. ASSUME NEW w \in Workers, Serve(w) PROVE posts' = posts
    BY <1>6 DEF Serve, Take, GiveUp, thread
  <1>7. CASE Environment
    BY <1>1, <1>7 DEF Environment, OnLeavesMessage, QueueTimer, Crash,
       EditedByPeople, LateRequest, thread
  <1>8. CASE UNCHANGED vars
    BY <1>1, <1>8 DEF vars, thread
  <1> QED BY <1>1, <1>3, <1>4, <1>5, <1>6, <1>7, <1>8 DEF Next

(* An attempt that returns has been heard, or had nothing to say.          *)
NoSilence ==
    /\ \A w \in Workers : pc[w] = "returned" => Heard(cur[w])
    /\ \A m \in Messages : job[m].state = "completed" => Heard(m)

LEMMA WhoReturns ==
  ASSUME LeaveInv, Busy, [Next]_vars, NoSilence, NEW x \in Workers,
         pc'[x] = "returned"
  PROVE  Heard(cur[x])' /\ cur'[x] \in Messages
  <1> USE DEF Busy, GoTo, ToPost
  <1>1. CASE pc[x] = "returned" /\ cur'[x] = cur[x]
    BY <1>1, HeardStays DEF NoSilence, Heard, MayIgnore
  <1>2. ASSUME NEW w \in Workers, NEW v, NEW hasEmail, Classify(w, v, hasEmail)
        PROVE  \/ pc[x] = "returned" /\ cur'[x] = cur[x]
               \/ Heard(cur[x])' /\ cur'[x] \in Messages
    <2>1. cur' = cur /\ v \in Verdicts[cur[w]] /\ (x = w => v.intent = "ignore")
      BY <1>2 DEF Classify
    <2>2. x # w => pc[x] = "returned"
      BY <1>2 DEF Classify
    <2>3. x = w => cur[x] \in Messages
      BY <1>2 DEF Classify
    <2>4. x = w => MayIgnore(cur[x]) /\ cur'[x] = cur[x]
      BY <2>1 DEF MayIgnore
    <2> QED BY <2>1, <2>2, <2>3, <2>4 DEF Heard, MayIgnore
  <1>3. ASSUME NEW w \in Workers, Conclude(w)
        PROVE  \/ pc[x] = "returned" /\ cur'[x] = cur[x]
               \/ Heard(cur[x])' /\ cur'[x] \in Messages
    BY <1>3 DEF Conclude, Heard
  <1>4. ASSUME NEW w \in Workers, NEW shown, NEW ok, Respond(w, shown, ok)
        PROVE  \/ pc[x] = "returned" /\ cur'[x] = cur[x]
               \/ Heard(cur[x])' /\ cur'[x] \in Messages
    <2>1. cur' = cur /\ (x # w => pc[x] = "returned") /\ (x = w => ok /\ shown)
      BY <1>4 DEF Respond
    <2>2. x = w => cur[w] \in Messages /\ answer[w] \in Answers
      BY <1>4 DEF Respond, LeaveInv, Staged
    <2>3. x = w => posts' = [posts EXCEPT ![cur[w]] = Append(@, answer[w])]
      BY <1>4, <2>1 DEF Respond
    <2>4. x = w => posts'[cur[w]] # <<>>
      BY <2>2, <2>3, OnePost
    <2> QED BY <2>1, <2>2, <2>4 DEF Heard
  <1>5. ASSUME NEW w \in Workers,
               (\E found, configured \in BOOLEAN : Resolve(w, found, configured))
               \/ Throw(w) \/ MarkStep(w)
        PROVE  pc[x] = "returned" /\ cur'[x] = cur[x]
    BY <1>5 DEF Resolve, Throw, MarkStep, ReadBefore, ReadBack,
       Patch, Post, Modify, PatchNotFound, MarkStepUnchanged
  <1>6. ASSUME NEW w \in Workers, Return(w) \/ Fail(w) \/ EndWithoutLock(w) \/ Crash(w)
        PROVE  pc[x] = "returned" /\ cur'[x] = cur[x]
    BY <1>6 DEF Return, Fail, EndWithoutLock, Crash, Forget
  <1>7. ASSUME NEW w \in Workers, Serve(w) \/ Notify(w)
        PROVE  pc[x] = "returned" /\ cur'[x] = cur[x]
    BY <1>7 DEF Serve, Take, GiveUp, Notify, OnFailed, attempt
  <1>8. CASE UNCHANGED attempt
    BY <1>1, <1>8 DEF attempt
  <1>9. ASSUME Environment, \A w \in Workers : ~Crash(w) PROVE UNCHANGED attempt
    BY <1>9 DEF Environment, OnLeavesMessage, QueueTimer, EditedByPeople,
       LateRequest
  <1> QED BY <1>1, <1>2, <1>3, <1>4, <1>5, <1>6, <1>7, <1>8, <1>9
          DEF Next, Attend, Environment, vars

LEMMA WhoCompletes ==
  ASSUME QP!QueueInv, Busy, [Next]_vars, NEW m \in Messages,
         job'[m].state = "completed", job[m].state # "completed"
  PROVE  \E w \in Workers : pc[w] = "returned" /\ cur[w] = m
  <1>1. ASSUME NEW x \in Messages,
               Q!Add(x) \/ Q!Promote(x) \/ Q!Stall(x) \/ Q!GiveUp(x)
        PROVE  FALSE
    <2>1. QP!NewJob.state = "waiting"
      BY DEF QP!NewJob, QP!NoJob
    <2> QED BY <1>1, <2>1, QueueOperations, LeaveQueueAssumption, QP!AddEffect,
            QP!PromoteEffect, QP!StallEffect, QP!GiveUpEffect
  <1>2. ASSUME NEW w \in Workers, NEW x \in Messages, Q!Take(w, x) \/ Q!Fail(w, x)
        PROVE  FALSE
    BY <1>2, QueueOperations, LeaveQueueAssumption, QP!TakeEffect, QP!FailEffect
  <1>3. ~ UNCHANGED queue
    BY DEF queue
  <1>4. ASSUME NEW w \in Workers, Serve(w) PROVE FALSE
    BY <1>1, <1>2, <1>4 DEF Serve, Take, GiveUp
  <1>5. ASSUME NEW w \in Workers, Attend(w), ~Return(w) PROVE FALSE
    <2>1. CASE Fail(w)
      BY <1>2, <2>1 DEF Fail, Busy
    <2>2. CASE ~Fail(w)
      BY <1>3, <1>5, <2>2 DEF Attend, Classify, Resolve, Throw, MarkStep,
         ReadBefore, ReadBack, Patch, Post, Modify, PatchNotFound,
         MarkStepUnchanged, Conclude, Respond, EndWithoutLock
    <2> QED BY <2>1, <2>2
  <1>6. ASSUME NEW w \in Workers, Notify(w) PROVE FALSE
    BY <1>3, <1>6 DEF Notify, OnFailed
  <1>7. ASSUME Environment PROVE FALSE
    BY <1>1, <1>3, <1>7 DEF Environment, OnLeavesMessage, QueueTimer, Crash,
       EditedByPeople, LateRequest
  <1>8. PICK w \in Workers : Return(w)
    BY <1>3, <1>4, <1>5, <1>6, <1>7 DEF Next, vars
  <1>9. pc[w] = "returned" /\ cur[w] \in Messages /\ QP!Complete(w, cur[w])
    BY <1>8, QueueOperations DEF Return, Busy
  <1>10. cur[w] = m
    BY <1>9, LeaveQueueAssumption, QP!CompleteEffect DEF QP!NoJob
  <1> QED BY <1>9, <1>10

LEMMA NoSilenceStep ==
  ASSUME LeaveInv, QP!QueueInv, Busy, NoSilence, [Next]_vars PROVE NoSilence'
  <1>1. \A w \in Workers : pc'[w] = "returned" => Heard(cur[w])'
    BY WhoReturns
  <1>2. ASSUME NEW m \in Messages, job'[m].state = "completed" PROVE Heard(m)'
    <2>1. Heard(m)
      BY <1>2, WhoCompletes DEF NoSilence
    <2> QED BY <2>1, HeardStays
  <1> QED BY <1>1, <1>2 DEF NoSilence

(* A message whose job completed was answered, unless it may be ignored or *)
(* is a reply in a thread.                                                 *)
THEOREM LeaveCompletedIsAnswered == Spec => []CompletedIsAnswered
  <1>1. Init => NoSilence
    BY DEF Init, NoSilence, Q!QueueInit, Q!NoJob
  <1>2. NoSilence => CompletedIsAnswered
    BY DEF NoSilence, CompletedIsAnswered, Heard
  <1> QED BY <1>1, <1>2, NoSilenceStep, LeaveInvAlways, LeaveQueueCorrect, PTL
          DEF Spec

-----------------------------------------------------------------------------
(* How often an author is answered.  Attempts that may still answer, and   *)
(* notices that may still be posted, are counted with what was posted; a   *)
(* message's failed attempts and lost locks pay for them.                  *)
Unanswered(m) ==
    {w \in Workers : cur[w] = m /\ pc[w] \in {"reading", "resolving", "marking",
                                              "posting"}}

Notices(m) == {w \in Workers : <<w, m>> \in reports}

Started(m) == IF job[m].state \in {"active", "completed", "failed"} THEN 1 ELSE 0

Budget(m) == job[m].made + job[m].stalls + Started(m)

Answering(m) ==
    Len(posts[m]) + Cardinality(Unanswered(m)) + Cardinality(Notices(m))

Afforded == \A m \in Messages : Answering(m) <= Budget(m)

(* A set of workers that one worker may join or leave.                     *)
LEMMA OneWorker ==
  ASSUME NEW S \in SUBSET Workers, NEW T \in SUBSET Workers, NEW w \in Workers,
         \A x \in Workers : x # w => (x \in S <=> x \in T)
  PROVE  /\ Cardinality(S) \in Nat /\ Cardinality(T) \in Nat
         /\ Cardinality(T) <= Cardinality(S) + 1
         /\ w \in S /\ w \notin T => Cardinality(T) = Cardinality(S) - 1
         /\ w \in S \/ w \notin T => Cardinality(T) <= Cardinality(S)
  <1>1. IsFiniteSet(S) /\ IsFiniteSet(T)
    BY FinitelyMany, FS_Subset
  <1>2. Cardinality(S) \in Nat /\ Cardinality(T) \in Nat
    BY <1>1, FS_CardinalityType
  <1>3. CASE w \in T
    <2>1. T = S \cup {w}
      BY <1>3
    <2> QED BY <1>1, <1>2, <1>3, <2>1, FS_AddElement
  <1>4. CASE w \notin T
    <2>1. T = S \ {w}
      BY <1>4
    <2> QED BY <1>1, <1>2, <1>4, <2>1, FS_RemoveElement
  <1> QED BY <1>2, <1>3, <1>4

(* The counts are numbers.                                                 *)
LEMMA Counts ==
  ASSUME LeaveInv, QP!QueueInv, NEW m \in Messages
  PROVE  /\ Len(posts[m]) \in Nat /\ job[m].made \in Nat /\ job[m].stalls \in Nat
         /\ Cardinality(Unanswered(m)) \in Nat /\ Cardinality(Notices(m)) \in Nat
         /\ Started(m) \in {0, 1} /\ Budget(m) \in Nat /\ Answering(m) \in Nat
  <1>1. posts[m] \in Seq(Answers \cup {"sorry"})
    BY DEF LeaveInv, ThreadType
  <1>2. Len(posts[m]) \in Nat
    BY <1>1
  <1>3. job[m].made \in Nat /\ job[m].stalls \in Nat
    BY LeaveAssumption DEF QP!QueueInv, QP!QueueTypeOK, QP!JobRecord
  <1>4. IsFiniteSet(Unanswered(m)) /\ IsFiniteSet(Notices(m))
    BY FinitelyMany, FS_Subset DEF Unanswered, Notices
  <1>5. Cardinality(Unanswered(m)) \in Nat /\ Cardinality(Notices(m)) \in Nat
    BY <1>4, FS_CardinalityType
  <1>6. Started(m) \in {0, 1}
    BY DEF Started
  <1>7. Budget(m) \in Nat
    BY <1>3, <1>6 DEF Budget
  <1>8. Answering(m) \in Nat
    BY <1>2, <1>5 DEF Answering
  <1> QED BY <1>2, <1>3, <1>5, <1>6, <1>7, <1>8

(* Most steps answer nobody and start nothing.                             *)
LEMMA Quiet ==
  ASSUME LeaveInv, QP!QueueInv, QP!QueueInv', Afforded,
         NEW m \in Messages, posts'[m] = posts[m],
         Unanswered(m)' \subseteq Unanswered(m), Notices(m)' \subseteq Notices(m),
         Budget(m) <= Budget(m)'
  PROVE  Answering(m)' <= Budget(m)'
  <1>1. IsFiniteSet(Unanswered(m)) /\ IsFiniteSet(Notices(m))
    BY FinitelyMany, FS_Subset DEF Unanswered, Notices
  <1>2. /\ Cardinality(Unanswered(m)') <= Cardinality(Unanswered(m))
        /\ Cardinality(Notices(m)') <= Cardinality(Notices(m))
    BY <1>1, FS_Subset
  <1>3. /\ Len(posts[m]) \in Nat /\ Budget(m) \in Nat /\ Budget(m)' \in Nat
        /\ Cardinality(Unanswered(m)) \in Nat /\ Cardinality(Notices(m)) \in Nat
    <2>1. job'[m].made \in Nat /\ job'[m].stalls \in Nat
      BY LeaveAssumption DEF QP!QueueInv, QP!QueueTypeOK, QP!JobRecord
    <2>2. Started(m)' \in {0, 1}
      BY DEF Started
    <2>3. Budget(m)' \in Nat
      BY <2>1, <2>2 DEF Budget
    <2> QED BY <2>3, Counts
  <1>4. Cardinality(Unanswered(m))' \in Nat /\ Cardinality(Notices(m))' \in Nat
    <2>1. IsFiniteSet(Unanswered(m)') /\ IsFiniteSet(Notices(m)')
      BY <1>1, FS_Subset
    <2> QED BY <2>1, FS_CardinalityType
  <1>5. Answering(m) <= Budget(m)
    BY DEF Afforded
  <1> QED BY <1>2, <1>3, <1>4, <1>5 DEF Answering

(* As long as no job is dropped, no message's budget shrinks; what an      *)
(* operation adds to it.                                                   *)
RetainsAll == KeepCompleted >= Cardinality(Messages)

LEMMA BudgetGrows ==
  ASSUME QP!QueueInv, QP!Forgotten, RetainsAll, NEW m \in Messages,
         [QP!QueueNext]_(QP!queueVars)
  PROVE  Budget(m) <= Budget(m)'
  <1> USE LeaveQueueAssumption DEF Budget, Started
  <1>1. job[m].made \in Nat /\ job[m].stalls \in Nat
    BY LeaveAssumption DEF QP!QueueInv, QP!QueueTypeOK, QP!JobRecord
  <1>2. CASE UNCHANGED QP!queueVars
    BY <1>1, <1>2 DEF QP!queueVars
  <1>3. ASSUME NEW x \in Messages, QP!Add(x) PROVE Budget(m) <= Budget(m)'
    BY <1>1, <1>3, QP!AddEffect DEF QP!Forgotten, QP!NoJob, QP!NewJob
  <1>4. ASSUME NEW x \in Messages, QP!Promote(x) \/ QP!Stall(x) \/ QP!GiveUp(x)
        PROVE  Budget(m) <= Budget(m)'
    <2>1. CASE x # m
      BY <1>1, <1>4, <2>1, QP!PromoteEffect, QP!StallEffect, QP!GiveUpEffect
    <2>2. CASE x = m
      BY <1>1, <1>4, <2>2, QP!PromoteEffect, QP!StallEffect, QP!GiveUpEffect
    <2> QED BY <2>1, <2>2
  <1>5. ASSUME NEW w \in Workers, NEW x \in Messages, QP!Take(w, x) \/ QP!Fail(w, x)
        PROVE  Budget(m) <= Budget(m)'
    <2>1. CASE x # m
      BY <1>1, <1>5, <2>1, QP!TakeEffect, QP!FailEffect
    <2>2. CASE x = m
      BY <1>1, <1>5, <2>2, QP!TakeEffect, QP!FailEffect
    <2> QED BY <2>1, <2>2
  <1>6. ASSUME NEW w \in Workers, NEW x \in Messages, QP!Complete(w, x)
        PROVE  Budget(m) <= Budget(m)'
    <2>1. /\ job'[x].state = "completed" /\ job[x].state = "active"
          /\ \A y \in Messages : y # x => job'[y] = job[y]
      <3>1. QP!IsFiniteSet(Messages) /\ KeepCompleted >= QP!Cardinality(Messages)
        BY FinitelyMany DEF RetainsAll, QP!IsFiniteSet, IsFiniteSet,
           QP!Cardinality, Cardinality
      <3> QED BY <1>6, <3>1, QP!KeepsEvery, QP!CompleteEffect
    <2>2. job'[x].made = job[x].made /\ job'[x].stalls = job[x].stalls
      BY <1>6, <2>1, QP!CompleteEffect DEF QP!NoJob
    <2> QED BY <1>1, <2>1, <2>2
  <1> QED BY <1>2, <1>3, <1>4, <1>5, <1>6 DEF QP!QueueNext, QP!Serve, QP!EndAttempt

LEMMA BudgetAdds ==
  ASSUME QP!QueueInv, NEW m \in Messages
  PROVE  /\ \A w \in Workers : Q!Take(w, m) => Budget(m)' = Budget(m) + 1
         /\ Q!GiveUp(m) => Budget(m)' = Budget(m) + 2
         /\ \A w \in Workers :
              Q!Fail(w, m) /\ Reported(m) => Budget(m)' = Budget(m) + 1
  <1> USE LeaveQueueAssumption, QueueOperations DEF Budget, Started
  <1>1. job[m].made \in Nat /\ job[m].stalls \in Nat
    BY LeaveAssumption DEF QP!QueueInv, QP!QueueTypeOK, QP!JobRecord
  <1>2. ASSUME NEW w \in Workers, Q!Take(w, m) PROVE Budget(m)' = Budget(m) + 1
    BY <1>1, <1>2, QP!TakeEffect
  <1>3. ASSUME Q!GiveUp(m) PROVE Budget(m)' = Budget(m) + 2
    BY <1>1, <1>3, QP!GiveUpEffect
  <1>4. ASSUME NEW w \in Workers, Q!Fail(w, m), Reported(m)
        PROVE  Budget(m)' = Budget(m) + 1
    BY <1>1, <1>4, QP!FailEffect DEF Reported, QP!LastAttempt
  <1> QED BY <1>2, <1>3, <1>4

LEMMA AffordedStep ==
  ASSUME LeaveInv, QP!QueueInv, QP!QueueInv', QP!Forgotten, Busy, RetainsAll,
         Afforded, [Next]_vars
  PROVE  Afforded'
  <1> SUFFICES ASSUME NEW m \in Messages PROVE Answering(m)' <= Budget(m)'
    BY DEF Afforded
  <1>1. Budget(m) <= Budget(m)'
    BY QueueStep, BudgetGrows
  <1>2. /\ Len(posts[m]) \in Nat /\ Budget(m) \in Nat
        /\ Cardinality(Unanswered(m)) \in Nat /\ Cardinality(Notices(m)) \in Nat
        /\ Answering(m) <= Budget(m)
    BY Counts DEF Afforded
  <1>3. Unanswered(m) \in SUBSET Workers /\ Unanswered(m)' \in SUBSET Workers
        /\ Notices(m) \in SUBSET Workers /\ Notices(m)' \in SUBSET Workers
    BY DEF Unanswered, Notices
  <1>4. ASSUME NEW w \in Workers, NEW x \in Messages, Take(w, x)
        PROVE  Answering(m)' <= Budget(m)'
    <2>1. /\ posts' = posts /\ Notices(m)' = Notices(m)
          /\ \A y \in Workers : y # w => (y \in Unanswered(m) <=> y \in Unanswered(m)')
      BY <1>4 DEF Take, GoTo, thread, Unanswered, Notices, Busy
    <2>2. CASE x # m
      <3>1. Unanswered(m)' \subseteq Unanswered(m)
        BY <1>4, <2>2 DEF Take, GoTo, Unanswered, Busy
      <3> QED BY <1>1, <2>1, <3>1, Quiet
    <2>3. CASE x = m
      <3>1. Cardinality(Unanswered(m)') <= Cardinality(Unanswered(m)) + 1
            /\ Cardinality(Unanswered(m)') \in Nat
        BY <1>3, <2>1, OneWorker
      <3>2. Budget(m)' = Budget(m) + 1
        BY <1>4, <2>3, BudgetAdds DEF Take
      <3> QED BY <1>2, <2>1, <3>1, <3>2 DEF Answering
    <2> QED BY <2>2, <2>3
  <1>5. ASSUME NEW w \in Workers, NEW x \in Messages, GiveUp(w, x)
        PROVE  Answering(m)' <= Budget(m)'
    <2>1. /\ posts' = posts /\ Unanswered(m)' = Unanswered(m)
          /\ \A y \in Workers : y # w => (y \in Notices(m) <=> y \in Notices(m)')
      BY <1>5 DEF GiveUp, attempt, thread, Unanswered, Notices
    <2>2. CASE x # m
      <3>1. Notices(m)' \subseteq Notices(m)
        BY <1>5, <2>2 DEF GiveUp, Notices
      <3> QED BY <1>1, <2>1, <3>1, Quiet
    <2>3. CASE x = m
      <3>1. Cardinality(Notices(m)') <= Cardinality(Notices(m)) + 1
            /\ Cardinality(Notices(m)') \in Nat
        BY <1>3, <2>1, OneWorker
      <3>2. Budget(m)' = Budget(m) + 2
        BY <1>5, <2>3, BudgetAdds DEF GiveUp
      <3> QED BY <1>2, <2>1, <3>1, <3>2 DEF Answering
    <2> QED BY <2>2, <2>3
  <1>6. ASSUME NEW w \in Workers, Fail(w) PROVE Answering(m)' <= Budget(m)'
    <2>1. /\ posts' = posts /\ Unanswered(m)' \subseteq Unanswered(m)
          /\ \A y \in Workers : y # w => (y \in Notices(m) <=> y \in Notices(m)')
      BY <1>6 DEF Fail, Forget, GoTo, thread, Unanswered, Notices, Busy
    <2>2. CASE cur[w] # m \/ ~Reported(cur[w])
      <3>1. Notices(m)' \subseteq Notices(m)
        BY <1>6, <2>2 DEF Fail, Notices
      <3> QED BY <1>1, <2>1, <3>1, Quiet
    <2>3. CASE cur[w] = m /\ Reported(m)
      <3>1. Cardinality(Notices(m)') <= Cardinality(Notices(m)) + 1
            /\ Cardinality(Notices(m)') \in Nat
        BY <1>3, <2>1, OneWorker
      <3>2. Budget(m)' = Budget(m) + 1
        BY <1>6, <2>3, BudgetAdds DEF Fail
      <3>3. Cardinality(Unanswered(m)') <= Cardinality(Unanswered(m))
            /\ Cardinality(Unanswered(m)') \in Nat
        <4>1. IsFiniteSet(Unanswered(m)) /\ IsFiniteSet(Unanswered(m)')
          BY <1>3, FinitelyMany, FS_Subset
        <4> QED BY <2>1, <4>1, FS_Subset, FS_CardinalityType
      <3> QED BY <1>2, <2>1, <3>1, <3>2, <3>3 DEF Answering
    <2> QED BY <2>2, <2>3
  <1>7. ASSUME NEW w \in Workers, NEW shown, NEW ok, Respond(w, shown, ok)
        PROVE  Answering(m)' <= Budget(m)'
    <2>1. /\ cur[w] \in Messages /\ answer[w] \in Answers
          /\ pc[w] = "posting" /\ pc'[w] \in {"returned", "threw"}
          /\ cur' = cur /\ reports' = reports
          /\ \A y \in Workers : y # w => pc'[y] = pc[y]
      BY <1>7 DEF Respond, LeaveInv, Staged, GoTo, Busy
    <2>2. Notices(m)' = Notices(m)
          /\ \A y \in Workers : y # w => (y \in Unanswered(m) <=> y \in Unanswered(m)')
      BY <2>1 DEF Unanswered, Notices
    <2>3. CASE cur[w] # m
      <3>1. posts'[m] = posts[m]
        BY <1>7, <2>1, <2>3, OnePost DEF Respond
      <3>2. Unanswered(m)' \subseteq Unanswered(m)
        BY <2>1, <2>3 DEF Unanswered
      <3> QED BY <1>1, <2>2, <3>1, <3>2, Quiet
    <2>4. CASE cur[w] = m
      <3>1. w \in Unanswered(m) /\ w \notin Unanswered(m)'
        BY <2>1, <2>4 DEF Unanswered
      <3>2. Cardinality(Unanswered(m)') = Cardinality(Unanswered(m)) - 1
        BY <1>3, <2>2, <3>1, OneWorker
      <3>3. Len(posts'[m]) = Len(posts[m]) + 1 \/ Len(posts'[m]) = Len(posts[m])
        BY <1>7, <2>1, <2>4, OnePost DEF Respond
      <3>4. Budget(m)' \in Nat
        <4>1. job' = job
          BY <1>7 DEF Respond, queue
        <4> QED BY <1>2, <4>1 DEF Budget, Started
      <3> QED BY <1>1, <1>2, <2>2, <3>2, <3>3, <3>4 DEF Answering
    <2> QED BY <2>3, <2>4
  <1>8. ASSUME NEW w \in Workers, NEW x \in Messages, NEW shown \in BOOLEAN,
               OnFailed(w, x, shown)
        PROVE  Answering(m)' <= Budget(m)'
    <2>1. /\ <<w, x>> \in reports /\ reports' = reports \ {<<w, x>>}
          /\ Unanswered(m)' = Unanswered(m)
          /\ \A y \in Workers : y # w => (y \in Notices(m) <=> y \in Notices(m)')
      BY <1>8 DEF OnFailed, attempt, Unanswered, Notices
    <2>2. CASE x # m
      <3>1. posts'[m] = posts[m]
        BY <1>8, <2>2, OnePost DEF OnFailed
      <3>2. Notices(m)' \subseteq Notices(m)
        BY <2>1 DEF Notices
      <3> QED BY <1>1, <2>1, <3>1, <3>2, Quiet
    <2>3. CASE x = m
      <3>1. w \in Notices(m) /\ w \notin Notices(m)'
        BY <2>1, <2>3 DEF Notices
      <3>2. Cardinality(Notices(m)') = Cardinality(Notices(m)) - 1
        BY <1>3, <2>1, <3>1, OneWorker
      <3>3. Len(posts'[m]) = Len(posts[m]) + 1 \/ Len(posts'[m]) = Len(posts[m])
        BY <1>8, <2>3, OnePost DEF OnFailed
      <3>4. Budget(m)' = Budget(m)
        BY <1>8 DEF OnFailed, queue, Budget, Started
      <3> QED BY <1>2, <2>1, <3>2, <3>3, <3>4 DEF Answering
    <2> QED BY <2>2, <2>3
  <1>9. ASSUME posts' = posts, reports' \subseteq reports,
               Unanswered(m)' \subseteq Unanswered(m)
        PROVE  Answering(m)' <= Budget(m)'
    <2>1. Notices(m)' \subseteq Notices(m)
      BY <1>9 DEF Notices
    <2> QED BY <1>1, <1>9, <2>1, Quiet
  <1>10. ASSUME NEW w \in Workers, Attend(w), ~Fail(w),
                ~(\E shown, ok \in BOOLEAN : Respond(w, shown, ok))
         PROVE  /\ posts' = posts /\ reports' \subseteq reports
                /\ Unanswered(m)' \subseteq Unanswered(m)
    <2>1. posts' = posts /\ reports' \subseteq reports
      BY <1>10 DEF Attend, Classify, Resolve, Throw, MarkStep, ReadBefore,
         ReadBack, Patch, Post, Modify, PatchNotFound, MarkStepUnchanged,
         Conclude, Return, EndWithoutLock, thread
    <2>2. \/ cur' = cur /\ pc' = pc
          \/ /\ cur' = cur /\ pc[w] \in {"reading", "resolving", "marking"}
             /\ \A y \in Workers : y # w => pc'[y] = pc[y]
          \/ Forget(w)
      BY <1>10 DEF Attend, Classify, Resolve, Throw, MarkStep, ReadBefore,
         ReadBack, Patch, Post, Modify, PatchNotFound, MarkStepUnchanged,
         Conclude, Return, EndWithoutLock, GoTo, ToPost, Busy
    <2> QED BY <2>1, <2>2 DEF Unanswered, Forget, GoTo, Busy
  <1>11. CASE Environment
    <2>1. posts' = posts /\ reports' \subseteq reports
      BY <1>11 DEF Environment, OnLeavesMessage, QueueTimer, Crash,
         EditedByPeople, LateRequest, thread
    <2>2. UNCHANGED attempt \/ \E w \in Workers : Forget(w)
      BY <1>11 DEF Environment, OnLeavesMessage, QueueTimer, Crash,
         EditedByPeople, LateRequest
    <2>3. Unanswered(m)' \subseteq Unanswered(m)
      BY <2>2 DEF Unanswered, attempt, Forget, GoTo, Busy
    <2> QED BY <1>9, <2>1, <2>3
  <1>12. CASE UNCHANGED vars
    <2>1. posts' = posts /\ reports' = reports /\ Unanswered(m)' = Unanswered(m)
      BY <1>12 DEF vars, thread, attempt, Unanswered
    <2> QED BY <1>9, <2>1
  <1> QED BY <1>4, <1>5, <1>6, <1>7, <1>8, <1>9, <1>10, <1>11, <1>12
          DEF Next, Serve, Notify

(* A message is answered once, and once more for every attempt that failed *)
(* or lost its lock, as long as no job is dropped.                         *)
THEOREM LeaveAnswersBounded == Spec => []AnswersBounded
  <1> DEFINE Inv == RetainsAll => Afforded
  <1>1. Init => Inv /\ QP!Forgotten
    <2> SUFFICES ASSUME Init PROVE Afforded /\ QP!Forgotten
      OBVIOUS
    <2>1. ASSUME NEW m \in Messages PROVE Answering(m) <= Budget(m)
      <3>1. Unanswered(m) = {} /\ Notices(m) = {} /\ posts[m] = <<>>
        BY DEF Init, Unanswered, Notices
      <3>2. Budget(m) = 0
        BY DEF Init, Q!QueueInit, Q!NoJob, Budget, Started
      <3> QED BY <3>1, <3>2, FS_EmptySet DEF Answering
    <2> QED BY <2>1 DEF Afforded, Init, Q!QueueInit, Q!NoJob, QP!Forgotten, QP!NoJob
  <1>2. Inv /\ LeaveInv /\ QP!QueueInv /\ QP!QueueInv' /\ QP!Forgotten /\ Busy
        /\ [Next]_vars => Inv'
    BY AffordedStep DEF RetainsAll
  <1>3. QP!QueueInv /\ QP!Forgotten /\ Busy /\ [Next]_vars => QP!Forgotten'
    BY QueueStep, LeaveQueueAssumption, QP!ForgottenStep
  <1>4. Inv /\ LeaveInv /\ QP!QueueInv => AnswersBounded
    <2> SUFFICES ASSUME Afforded, LeaveInv, QP!QueueInv, NEW m \in Messages
                 PROVE  Len(posts[m]) <= job[m].made + job[m].stalls + 1
      BY DEF AnswersBounded, RetainsAll
    <2>1. /\ Len(posts[m]) \in Nat /\ job[m].made \in Nat /\ job[m].stalls \in Nat
          /\ Cardinality(Unanswered(m)) \in Nat /\ Cardinality(Notices(m)) \in Nat
          /\ Started(m) \in {0, 1}
      BY Counts
    <2>2. Len(posts[m]) + Cardinality(Unanswered(m)) + Cardinality(Notices(m))
            <= job[m].made + job[m].stalls + Started(m)
      BY DEF Afforded, Answering, Budget
    <2> QED BY <2>1, <2>2
  <1> HIDE DEF Inv
  <1> QED BY <1>1, <1>2, <1>3, <1>4, LeaveInvAlways, LeaveQueueCorrect, PTL DEF Spec

(* AnsweredRight puts the three together.                                  *)
THEOREM LeaveAnsweredRight == Spec => []AnsweredRight
  <1>1. AnswersBounded /\ SorryOnlyWhenExhausted /\ CompletedIsAnswered
          => AnsweredRight
    BY DEF AnsweredRight
  <1> QED BY <1>1, LeaveAnswersBounded, LeaveSorryOnlyWhenExhausted,
          LeaveCompletedIsAnswered, PTL
=============================================================================
