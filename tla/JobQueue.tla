------------------------------ MODULE JobQueue ------------------------------
(***************************************************************************)
(* One BullMQ queue as src/modules/queue configures it and as the          *)
(* processors use it: jobs are added under a chosen id, taken one at a     *)
(* time by the workers, retried after a backoff while attempts are left,   *)
(* and given back to the queue when their lock expires ("stalled").        *)
(*                                                                         *)
(* BullMQ itself is a library; what is modelled is the part of its         *)
(* behaviour the processors rely on.  The other modules INSTANCE this one  *)
(* and conjoin its operations with their own state changes.                *)
(***************************************************************************)
EXTENDS Naturals, Sequences, Functions

CONSTANTS
    Jobs,           \* the ids a producer may add
    Workers,        \* the worker processes serving the queue
    NoWorker,       \* owner of a job nobody is running
    Attempts,       \* defaultJobOptions.attempts, or the job's own
    MaxStalls,      \* BullMQ's maxStalledCount
    KeepCompleted   \* removeOnComplete.count

ASSUME QueueAssumption ==
    /\ NoWorker \notin Workers
    /\ Attempts \in Nat \ {0}
    /\ MaxStalls \in Nat
    /\ KeepCompleted \in Nat

VARIABLES
    job,            \* the record of each job id
    waiting,        \* the wait list, next job first
    kept            \* completed jobs still retained, oldest first

queueVars == <<job, waiting, kept>>

States == {"absent", "waiting", "delayed", "active", "completed", "failed"}

JobRecord == [state  : States,
              made   : 0..Attempts,          \* attemptsMade
              stalls : 0..(MaxStalls + 1),   \* stalled counter
              owner  : Workers \cup {NoWorker}]

NoJob == [state |-> "absent", made |-> 0, stalls |-> 0, owner |-> NoWorker]

NewJob == [NoJob EXCEPT !.state = "waiting"]

QueueTypeOK ==
    /\ job \in [Jobs -> JobRecord]
    /\ waiting \in Seq(Jobs)
    /\ kept \in Seq(Jobs)

QueueInit ==
    /\ job = [id \in Jobs |-> NoJob]
    /\ waiting = <<>>
    /\ kept = <<>>

-----------------------------------------------------------------------------
HoldsLock(w, id) == job[id].state = "active" /\ job[id].owner = w

(* Variants, each named for the slip it makes, stand before what they      *)
(* replace: the runs show that the properties tell them apart.             *)
DoomedTooLate(id) == job[id].stalls > MaxStalls + 1

(* A job that stalled too often is failed the next time it is taken.       *)
Doomed(id) == job[id].stalls > MaxStalls

LastAttempt(id) == job[id].made + 1 >= Attempts

Settled(id) == job[id].state \in {"completed", "failed"}

AddUnchecked(id) ==
    /\ job' = [job EXCEPT ![id] = NewJob]
    /\ waiting' = Append(waiting, id)
    /\ UNCHANGED kept

AddSettledAgain(id) ==
    IF job[id].state \in {"absent", "completed", "failed"}
    THEN /\ job' = [job EXCEPT ![id] = NewJob]
         /\ waiting' = Append(waiting, id)
         /\ UNCHANGED kept
    ELSE UNCHANGED queueVars

(* queue.add(name, data, {jobId}): an id that is still retained, in any    *)
(* state, makes the call a no-op.                                          *)
Add(id) ==
    IF job[id].state = "absent"
    THEN /\ job' = [job EXCEPT ![id] = NewJob]
         /\ waiting' = Append(waiting, id)
         /\ UNCHANGED kept
    ELSE UNCHANGED queueVars

IsNext(id) == waiting # <<>> /\ id = Head(waiting)

Take(w, id) ==
    /\ IsNext(id)
    /\ ~Doomed(id)
    /\ waiting' = Tail(waiting)
    /\ job' = [job EXCEPT ![id] = [@ EXCEPT !.state = "active", !.owner = w]]
    /\ UNCHANGED kept

(* The processor is not called: the worker fails the job for good.         *)
GiveUp(id) ==
    /\ IsNext(id)
    /\ Doomed(id)
    /\ waiting' = Tail(waiting)
    /\ job' = [job EXCEPT ![id] = [@ EXCEPT !.state = "failed",
                                             !.made = job[id].made + 1]]
    /\ UNCHANGED kept

(* The processor returned.  Retention drops the oldest completed job.      *)
Complete(w, id) ==
    /\ HoldsLock(w, id)
    /\ LET done == [job EXCEPT ![id] = [@ EXCEPT !.state = "completed",
                                                 !.owner = NoWorker]]
           all  == Append(kept, id)
       IN  IF Len(all) > KeepCompleted
           THEN /\ job' = [done EXCEPT ![Head(all)] = NoJob]
                /\ kept' = Tail(all)
           ELSE /\ job' = done
                /\ kept' = all
    /\ UNCHANGED waiting

FailUncounted(w, id) ==
    /\ HoldsLock(w, id)
    /\ job' = [job EXCEPT ![id] = [@ EXCEPT !.state = "delayed",
                                             !.owner = NoWorker]]
    /\ UNCHANGED <<waiting, kept>>

(* The processor threw: another attempt after the backoff, or the end.     *)
Fail(w, id) ==
    /\ HoldsLock(w, id)
    /\ job' = [job EXCEPT ![id] =
                 [@ EXCEPT !.state = IF LastAttempt(id) THEN "failed"
                                                        ELSE "delayed",
                           !.made  = job[id].made + 1,
                           !.owner = NoWorker]]
    /\ UNCHANGED <<waiting, kept>>

(* The backoff of a delayed job is over.                                   *)
Promote(id) ==
    /\ job[id].state = "delayed"
    /\ job' = [job EXCEPT ![id] = [@ EXCEPT !.state = "waiting"]]
    /\ waiting' = Append(waiting, id)
    /\ UNCHANGED kept

(* The lock of an active job expired: its process died, or it is alive but *)
(* could not renew the lock in time.  The job goes to the head of the      *)
(* line, and attemptsMade stays as it is.                                  *)
Stall(id) ==
    /\ job[id].state = "active"
    /\ job' = [job EXCEPT ![id] = [@ EXCEPT !.state  = "waiting",
                                             !.owner  = NoWorker,
                                             !.stalls = job[id].stalls + 1]]
    /\ waiting' = <<id>> \o waiting
    /\ UNCHANGED kept

-----------------------------------------------------------------------------
(* The queue with the most general clients: any producer, and workers that *)
(* take and end attempts anyhow.  How many attempts a worker runs at once  *)
(* is the processors' concern.                                             *)
Serve(w) == \E id \in Jobs : Take(w, id) \/ GiveUp(id)

EndAttempt(w, id) == Complete(w, id) \/ Fail(w, id)

QueueNext ==
    \/ \E id \in Jobs : Add(id) \/ Promote(id) \/ Stall(id)
    \/ \E w \in Workers : Serve(w) \/ \E id \in Jobs : EndAttempt(w, id)

(* The workers poll, the attempt at a job ends and its backoff is over.    *)
GoesOn(id) == Promote(id) \/ \E w \in Workers : EndAttempt(w, id)

QueueFairness ==
    /\ WF_queueVars(\E w \in Workers : Serve(w))
    /\ \A id \in Jobs : WF_queueVars(GoesOn(id))

QueueSafe == QueueInit /\ [][QueueNext]_queueVars

QueueSpec == QueueSafe /\ QueueFairness

-----------------------------------------------------------------------------
(* The wait list and the job records agree: a waiting job is listed, once, *)
(* and no other job is; the same holds of the retained completed jobs.  A  *)
(* job listed twice would run twice; one not listed would never run.       *)
InState(state) == {id \in Jobs : job[id].state = state}

ListsJust(seq, state) == IsInjective(seq) /\ Range(seq) = InState(state)

ListsExact == ListsJust(waiting, "waiting") /\ ListsJust(kept, "completed")

(* Retries are used up before a job is given up: a failed job either made  *)
(* every attempt or stalled more often than allowed, and a job that is     *)
(* still to run has an attempt left.                                       *)
GivenUpOnlyAtLimit ==
    \A id \in Jobs :
      /\ job[id].state = "failed" => job[id].made = Attempts \/ Doomed(id)
      /\ job[id].state \in {"waiting", "delayed", "active"}
            => job[id].made < Attempts

(* A queue that can be relied on: its lists hold just the jobs whose       *)
(* records say so, and what it gives up it has tried.                      *)
QueueIsSound == ListsExact /\ GivenUpOnlyAtLimit

(* A settled job never runs again while it is retained: re-delivering its  *)
(* message is a no-op, and only retention makes the id free again.         *)
SettledOnce ==
    [][\A id \in Jobs : Settled(id) =>
          job'[id] = job[id] \/ (job[id].state = "completed"
                                    /\ job'[id].state = "absent")]_queueVars

(* Every added job settles, whatever its attempts do, each time it is      *)
(* added: attempts and stalls are both limited, delayed jobs come back.    *)
EveryJobSettles ==
    \A id \in Jobs : []<>(job[id].state \notin {"waiting", "delayed", "active"})
=============================================================================
