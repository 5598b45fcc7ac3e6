----------------------------- MODULE Processors -----------------------------
(***************************************************************************)
(* Several BullMQ queues and the processors that serve them, as the coding *)
(* worker and the web process run them: one processor per queue and        *)
(* process, one attempt at a time (concurrency 1), every await of an       *)
(* attempt a place it can be at.  Each queue on its own is a JobQueue,     *)
(* which is stated, and checked, below.                                    *)
(*                                                                         *)
(* A module about certain processors EXTENDS this one; its actions combine *)
(* the operations here with what the processor does at each place.         *)
(***************************************************************************)
EXTENDS Naturals, Sequences, Functions, FiniteSets

CONSTANTS
    Queues,
    Jobs, QueueOf,          \* the ids that may be added, and to which queue
    Workers, ServedBy,      \* the processors, and the queue each one serves
    Places,                 \* where a processor can be: an await, or between
    None,                   \* no job, no worker
    AttemptsOf, KeepOf,     \* attempts and removeOnComplete of each queue
    MaxStalls,              \* BullMQ's maxStalledCount
    Faults,                 \* what may become of a call that errors
    MaxFaults               \* bound: calls that error, locks that are lost,
                            \* processes that die

(* "lost": it had no effect; "late": it had, and the answer got lost.      *)
ASSUME ProcessorsAssumption ==
    /\ QueueOf \in [Jobs -> Queues] /\ ServedBy \in [Workers -> Queues]
    /\ {"idle", "returned", "threw"} \subseteq Places
    /\ None \notin Jobs \cup Workers
    /\ AttemptsOf \in [Queues -> Nat \ {0}] /\ KeepOf \in [Queues -> Nat]
    /\ MaxStalls \in Nat
    /\ Faults \subseteq {"lost", "late"} /\ MaxFaults \in Nat

VARIABLES
    job,        \* the record of each job, as in JobQueue
    line,       \* the wait list of each queue, next job first
    kept,       \* the completed jobs each queue retains, oldest first
    at, cur,    \* where each processor is, and in which job
    faults      \* such mishaps so far

queues   == <<job, line, kept>>
attempts == <<at, cur>>

States == {"absent", "waiting", "delayed", "active", "completed", "failed"}

JobRecord(id) == [state  : States,
                  made   : 0..AttemptsOf[QueueOf[id]],
                  stalls : 0..(MaxStalls + 1),
                  owner  : Workers \cup {None}]

NoJob == [state |-> "absent", made |-> 0, stalls |-> 0, owner |-> None]

ProcessorsTypeOK ==
    /\ DOMAIN job = Jobs
    /\ \A id \in Jobs : job[id] \in JobRecord(id)
    /\ line \in [Queues -> Seq(Jobs)]
    /\ kept \in [Queues -> Seq(Jobs)]
    /\ at \in [Workers -> Places]
    /\ cur \in [Workers -> Jobs \cup {None}]
    /\ faults \in 0..MaxFaults

ProcessorsInit ==
    /\ job = [id \in Jobs |-> NoJob]
    /\ line = [q \in Queues |-> <<>>]
    /\ kept = [q \in Queues |-> <<>>]
    /\ at = [w \in Workers |-> "idle"]
    /\ cur = [w \in Workers |-> None]
    /\ faults = 0

-----------------------------------------------------------------------------
Outcomes == {"ok"} \cup Faults

Mishap == faults < MaxFaults /\ faults' = faults + 1

Outcome(o) == IF o = "ok" THEN UNCHANGED faults ELSE Mishap

HoldsLock(w, id) == job[id].state = "active" /\ job[id].owner = w

Doomed(id) == job[id].stalls > MaxStalls

LastAttempt(id) == job[id].made + 1 >= AttemptsOf[QueueOf[id]]

Settled(id) == job[id].state \in {"completed", "failed"}

Pending(id) == job[id].state \in {"waiting", "delayed", "active"}

GoTo(w, place) == at' = [at EXCEPT ![w] = place]

(* Variants, each named for the slip it makes, stand before what they      *)
(* replace: the runs show that the properties tell them apart.             *)
EnqueueUnchecked(id) ==
    /\ job' = [job EXCEPT ![id] = [NoJob EXCEPT !.state = "waiting"]]
    /\ line' = [line EXCEPT ![QueueOf[id]] = Append(@, id)]
    /\ UNCHANGED kept

(* queue.add: an id that is still retained makes the call a no-op.         *)
Enqueue(id) ==
    IF job[id].state = "absent"
    THEN /\ job' = [job EXCEPT ![id] = [NoJob EXCEPT !.state = "waiting"]]
         /\ line' = [line EXCEPT ![QueueOf[id]] = Append(@, id)]
         /\ UNCHANGED kept
    ELSE UNCHANGED queues

(* The add of a call that errors may have been executed.                   *)
TryEnqueue(id, o) == IF o = "lost" THEN UNCHANGED queues ELSE Enqueue(id)

IsNext(w, id) ==
    /\ at[w] = "idle"
    /\ QueueOf[id] = ServedBy[w]
    /\ line[QueueOf[id]] # <<>> /\ id = Head(line[QueueOf[id]])

Dequeue(id) == line' = [line EXCEPT ![QueueOf[id]] = Tail(@)]

(* An attempt at the job begins.                                           *)
Begin(w, id, place) ==
    /\ IsNext(w, id)
    /\ ~Doomed(id)
    /\ Dequeue(id)
    /\ job' = [job EXCEPT ![id] = [@ EXCEPT !.state = "active", !.owner = w]]
    /\ GoTo(w, place)
    /\ cur' = [cur EXCEPT ![w] = id]
    /\ UNCHANGED <<kept, faults>>

(* The worker fails a job that stalled too often without an attempt.       *)
GiveUp(w, id) ==
    /\ IsNext(w, id)
    /\ Doomed(id)
    /\ Dequeue(id)
    /\ job' = [job EXCEPT ![id] = [@ EXCEPT !.state = "failed",
                                            !.made  = job[id].made + 1]]
    /\ UNCHANGED <<kept, attempts, faults>>

Complete(w) ==
    LET id   == cur[w]
        q    == QueueOf[id]
        all  == Append(kept[q], id)
        done == [job EXCEPT ![id] = [@ EXCEPT !.state = "completed",
                                              !.owner = None]]
    IN  /\ IF Len(all) > KeepOf[q]
           THEN /\ job' = [done EXCEPT ![Head(all)] = NoJob]
                /\ kept' = [kept EXCEPT ![q] = Tail(all)]
           ELSE job' = done /\ kept' = [kept EXCEPT ![q] = all]
        /\ UNCHANGED line

Fail(w) ==
    LET id == cur[w]
    IN  /\ job' = [job EXCEPT ![id] =
                     [@ EXCEPT !.state = IF LastAttempt(id) THEN "failed"
                                                            ELSE "delayed",
                               !.made  = job[id].made + 1,
                               !.owner = None]]
        /\ UNCHANGED <<line, kept>>

Forget(w) ==
    /\ GoTo(w, "idle")
    /\ cur' = [cur EXCEPT ![w] = None]

EndUnchecked(w) ==
    /\ at[w] \in {"returned", "threw"}
    /\ IF at[w] = "returned" THEN Complete(w) ELSE Fail(w)
    /\ Forget(w)
    /\ UNCHANGED faults

(* The worker tells its queue, which refuses if the lock was lost.         *)
End(w) ==
    /\ at[w] \in {"returned", "threw"}
    /\ IF ~HoldsLock(w, cur[w]) THEN UNCHANGED queues
       ELSE IF at[w] = "returned" THEN Complete(w) ELSE Fail(w)
    /\ Forget(w)
    /\ UNCHANGED faults

(* A process dies, and with it the attempts of its processors ws.          *)
Crash(ws) ==
    /\ at'  = [w \in Workers |-> IF w \in ws THEN "idle" ELSE at[w]]
    /\ cur' = [w \in Workers |-> IF w \in ws THEN None ELSE cur[w]]
    /\ Mishap
    /\ UNCHANGED queues

PromoteUnlisted(id) ==
    /\ job[id].state = "delayed"
    /\ job' = [job EXCEPT ![id] = [@ EXCEPT !.state = "waiting"]]
    /\ UNCHANGED line

(* The backoff of a delayed job is over.                                   *)
Promote(id) ==
    /\ job[id].state = "delayed"
    /\ job' = [job EXCEPT ![id] = [@ EXCEPT !.state = "waiting"]]
    /\ line' = [line EXCEPT ![QueueOf[id]] = Append(@, id)]

(* The process of the job died, and its lock expired.                      *)
Orphaned(id) == job[id].state = "active" /\ cur[job[id].owner] # id

(* The lock of an active job expired, which a live process may miss too.   *)
Stall(id) ==
    /\ job[id].state = "active"
    /\ job' = [job EXCEPT ![id] = [@ EXCEPT !.state  = "waiting",
                                            !.owner  = None,
                                            !.stalls = job[id].stalls + 1]]
    /\ line' = [line EXCEPT ![QueueOf[id]] = <<id>> \o @]

Timer(id) ==
    /\ \/ Promote(id) /\ UNCHANGED faults
       \/ Stall(id) /\ IF Orphaned(id) THEN UNCHANGED faults ELSE Mishap
    /\ UNCHANGED <<kept, attempts>>

(* What a timer is sure to find.                                           *)
Overdue(id) == job[id].state = "delayed" \/ Orphaned(id)

-----------------------------------------------------------------------------
(* Each of the queues is a JobQueue (it behaves as J(q)!QueueSafe allows): *)
(* adds, attempts and timers of the other queues leave it alone.           *)
JobsOf(q) == {id \in Jobs : QueueOf[id] = q}

J(q) == INSTANCE JobQueue WITH
          Jobs <- JobsOf(q), NoWorker <- None,
          Attempts <- AttemptsOf[q], KeepCompleted <- KeepOf[q],
          job <- [id \in JobsOf(q) |-> job[id]],
          waiting <- line[q], kept <- kept[q]

QueuesAreJobQueues ==
    /\ \A q \in Queues : J(q)!QueueInit
    /\ [][\A q \in Queues : UNCHANGED J(q)!queueVars \/ J(q)!QueueNext]_queues
=============================================================================
