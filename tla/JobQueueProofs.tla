--------------------------- MODULE JobQueueProofs ---------------------------
(***************************************************************************)
(* What the job queue guarantees to every producer and processor, for any  *)
(* set of jobs and workers and any limits.                                 *)
(***************************************************************************)
EXTENDS JobQueue, FiniteSetTheorems, TLAPS

-----------------------------------------------------------------------------
(* Lists without repetitions, as the sets of their elements.               *)

(* Appending a new element keeps a list free of repetitions and adds just  *)
(* that element (the producers' end of the wait list).                     *)
LEMMA AppendList ==
  ASSUME NEW S, NEW seq \in Seq(S), NEW e \in S,
         IsInjective(seq), e \notin Range(seq)
  PROVE  /\ Append(seq, e) \in Seq(S)
         /\ IsInjective(Append(seq, e))
         /\ Range(Append(seq, e)) = Range(seq) \cup {e}
  <1> DEFINE new == Append(seq, e)
  <1>1. /\ new \in Seq(S)
        /\ Len(new) = Len(seq) + 1
        /\ DOMAIN new = 1..(Len(seq) + 1)
        /\ \A i \in 1..Len(seq) : new[i] = seq[i]
        /\ new[Len(seq) + 1] = e
    OBVIOUS
  <1>2. Len(seq) \in Nat /\ DOMAIN seq = 1..Len(seq)
    OBVIOUS
  <1>3. \A i \in DOMAIN seq : seq[i] # e
    BY DEF Range
  <1>4. IsInjective(new)
    BY <1>1, <1>2, <1>3 DEF IsInjective
  <1>5. Range(new) = Range(seq) \cup {e}
    BY <1>1, <1>2 DEF Range
  <1> QED BY <1>1, <1>4, <1>5

(* Taking the first element leaves the others (the workers' end).          *)
LEMMA TailList ==
  ASSUME NEW S, NEW seq \in Seq(S), seq # <<>>, IsInjective(seq)
  PROVE  /\ Tail(seq) \in Seq(S)
         /\ Head(seq) \in S
         /\ IsInjective(Tail(seq))
         /\ Range(Tail(seq)) = Range(seq) \ {Head(seq)}
         /\ Head(seq) \in Range(seq)
  <1> DEFINE rest == Tail(seq)
  <1>1. /\ rest \in Seq(S)
        /\ DOMAIN rest = 1..(Len(seq) - 1)
        /\ \A i \in 1..(Len(seq) - 1) : rest[i] = seq[i + 1]
    OBVIOUS
  <1>2. /\ Len(seq) \in Nat /\ Len(seq) > 0
        /\ DOMAIN seq = 1..Len(seq)
        /\ Head(seq) = seq[1] /\ Head(seq) \in S
    OBVIOUS
  <1>3. IsInjective(rest)
    BY <1>1, <1>2 DEF IsInjective
  <1>4. \A i \in 1..(Len(seq) - 1) : seq[i + 1] # seq[1]
    BY <1>2 DEF IsInjective
  <1>5. \A x \in Range(seq) \ {seq[1]} : x \in Range(rest)
    <2>1. SUFFICES ASSUME NEW i \in 1..Len(seq), seq[i] # seq[1]
                   PROVE  seq[i] \in Range(rest)
      BY <1>2 DEF Range
    <2>2. i - 1 \in 1..(Len(seq) - 1) /\ rest[i - 1] = seq[i]
      BY <1>1, <1>2, <2>1
    <2> QED BY <2>2, <1>1 DEF Range
  <1>6. Range(rest) \subseteq Range(seq) \ {seq[1]}
    BY <1>1, <1>2, <1>4 DEF Range
  <1>7. seq[1] \in Range(seq)
    BY <1>2 DEF Range
  <1> QED BY <1>1, <1>2, <1>3, <1>5, <1>6, <1>7

(* A new element may also be put first (a stalled job).                    *)
LEMMA PrependList ==
  ASSUME NEW S, NEW seq \in Seq(S), NEW e \in S,
         IsInjective(seq), e \notin Range(seq)
  PROVE  /\ <<e>> \o seq \in Seq(S)
         /\ IsInjective(<<e>> \o seq)
         /\ Range(<<e>> \o seq) = Range(seq) \cup {e}
  <1> DEFINE new == <<e>> \o seq
  <1>1. /\ new \in Seq(S)
        /\ DOMAIN new = 1..(Len(seq) + 1)
        /\ 1 \in DOMAIN new /\ new[1] = e
        /\ \A i \in 1..Len(seq) : i + 1 \in DOMAIN new /\ new[i + 1] = seq[i]
    OBVIOUS
  <1>2. Len(seq) \in Nat /\ DOMAIN seq = 1..Len(seq)
    OBVIOUS
  <1>3. \A i \in 2..(Len(seq) + 1) : i - 1 \in 1..Len(seq) /\ new[i] = seq[i - 1]
    BY <1>1, <1>2
  <1>4. \A i \in DOMAIN seq : seq[i] # e
    BY DEF Range
  <1>5. IsInjective(new)
    BY <1>1, <1>2, <1>3, <1>4 DEF IsInjective
  <1>6. Range(new) = Range(seq) \cup {e}
    <2>1. Range(new) \subseteq Range(seq) \cup {e}
      BY <1>1, <1>2, <1>3 DEF Range
    <2>2. e \in Range(new)
      BY <1>1 DEF Range
    <2>3. \A i \in DOMAIN seq : seq[i] \in Range(new)
      BY <1>1, <1>2 DEF Range
    <2> QED BY <2>1, <2>2, <2>3 DEF Range
  <1> QED BY <1>1, <1>5, <1>6

-----------------------------------------------------------------------------
(* The queue's own invariant.                                              *)

(* A job that is running or waits for a retry has not stalled too often:   *)
(* a doomed job is never handed out again.                                 *)
NotDoomed ==
    \A id \in Jobs :
      job[id].state \in {"active", "delayed"} => ~Doomed(id)

QueueInv == QueueTypeOK /\ ListsExact /\ GivenUpOnlyAtLimit /\ NotDoomed

(* Changing one job's record moves that job between the states and leaves  *)
(* the others alone; the common shape of every operation.                  *)
LEMMA OneJobChanges ==
  ASSUME QueueTypeOK, NEW id \in Jobs, NEW r \in JobRecord,
         job' = [job EXCEPT ![id] = r]
  PROVE  /\ job' \in [Jobs -> JobRecord]
         /\ \A x \in Jobs : job'[x] = IF x = id THEN r ELSE job[x]
         /\ \A s \in States :
              InState(s)' = (InState(s) \ {id})
                              \cup (IF r.state = s THEN {id} ELSE {})
  <1>1. \A x \in Jobs : job'[x] = IF x = id THEN r ELSE job[x]
    BY DEF QueueTypeOK
  <1> QED BY <1>1 DEF QueueTypeOK, InState

(* The empty queue satisfies the invariant.                                *)
LEMMA QueueInitInv == QueueInit => QueueInv
  <1> SUFFICES ASSUME QueueInit PROVE QueueInv
    OBVIOUS
  <1>1. NoJob \in JobRecord /\ NoJob.state = "absent"
    BY QueueAssumption DEF NoJob, JobRecord, States
  <1>2. \A id \in Jobs : job[id] = NoJob
    BY DEF QueueInit
  <1>3. QueueTypeOK
    BY <1>1 DEF QueueInit, QueueTypeOK
  <1>4. ListsExact
    BY <1>1, <1>2 DEF QueueInit, ListsExact, ListsJust, InState, IsInjective, Range
  <1>5. GivenUpOnlyAtLimit /\ NotDoomed
    BY <1>1, <1>2 DEF GivenUpOnlyAtLimit, NotDoomed
  <1> QED BY <1>3, <1>4, <1>5 DEF QueueInv

(* Adding a job, under a new or a retained id.                             *)
LEMMA AddInv == ASSUME QueueInv, NEW id \in Jobs, Add(id) PROVE QueueInv'
  <1> USE DEF QueueInv
  <1>1. CASE job[id].state # "absent"
    BY <1>1 DEF Add, queueVars, QueueTypeOK, ListsExact, ListsJust, InState,
        GivenUpOnlyAtLimit, NotDoomed, Doomed
  <1>2. CASE job[id].state = "absent"
    <2>1. /\ job' = [job EXCEPT ![id] = NewJob]
          /\ waiting' = Append(waiting, id) /\ kept' = kept
      BY <1>2 DEF Add
    <2>2. /\ NewJob \in JobRecord /\ NewJob.state = "waiting"
          /\ NewJob.made = 0 /\ NewJob.stalls = 0
      BY QueueAssumption DEF NewJob, NoJob, JobRecord, States
    <2>a. /\ job' \in [Jobs -> JobRecord]
          /\ \A x \in Jobs : job'[x] = IF x = id THEN NewJob ELSE job[x]
          /\ \A s \in States :
               InState(s)' = (InState(s) \ {id})
                               \cup (IF NewJob.state = s THEN {id} ELSE {})
      BY <2>1, <2>2, OneJobChanges
    <2>3. /\ job' \in [Jobs -> JobRecord]
          /\ \A x \in Jobs : job'[x] = IF x = id THEN NewJob ELSE job[x]
          /\ InState("waiting")' = InState("waiting") \cup {id}
          /\ InState("completed")' = InState("completed")
      BY <1>2, <2>a, <2>2 DEF States, InState
    <2>4. id \notin Range(waiting)
      BY <1>2 DEF ListsExact, ListsJust, InState
    <2>5. /\ waiting' \in Seq(Jobs) /\ IsInjective(waiting')
          /\ Range(waiting') = Range(waiting) \cup {id}
      BY <2>1, <2>4, AppendList DEF QueueTypeOK, ListsExact, ListsJust
    <2>6. QueueTypeOK' /\ ListsExact'
      BY <2>1, <2>3, <2>5 DEF QueueTypeOK, ListsExact, ListsJust
    <2>7. GivenUpOnlyAtLimit' /\ NotDoomed'
      BY <2>2, <2>3, QueueAssumption DEF GivenUpOnlyAtLimit, NotDoomed, Doomed
    <2> QED BY <2>6, <2>7
  <1> QED BY <1>1, <1>2

(* The head of the wait list is a waiting job, and only it leaves the list *)
LEMMA HeadOfLine ==
  ASSUME QueueInv, NEW id \in Jobs, IsNext(id), waiting' = Tail(waiting)
  PROVE  /\ job[id].state = "waiting"
         /\ waiting' \in Seq(Jobs) /\ IsInjective(waiting')
         /\ Range(waiting') = InState("waiting") \ {id}
  <1>1. waiting \in Seq(Jobs) /\ waiting # <<>> /\ IsInjective(waiting)
    BY DEF QueueInv, QueueTypeOK, ListsExact, ListsJust, IsNext
  <1>2. /\ Tail(waiting) \in Seq(Jobs) /\ IsInjective(Tail(waiting))
        /\ Range(Tail(waiting)) = Range(waiting) \ {id}
        /\ id \in Range(waiting)
    BY <1>1, TailList DEF IsNext
  <1> QED BY <1>2 DEF QueueInv, ListsExact, ListsJust, InState

(* Taking a job and giving up a doomed one.                                *)
LEMMA TakeInv ==
  ASSUME QueueInv, NEW w \in Workers, NEW id \in Jobs, Take(w, id)
  PROVE  QueueInv'
  <1> DEFINE r == [job[id] EXCEPT !.state = "active", !.owner = w]
  <1>1. /\ IsNext(id) /\ waiting' = Tail(waiting) /\ kept' = kept
        /\ ~Doomed(id)
    BY DEF Take
  <1>2. /\ job[id].state = "waiting"
        /\ waiting' \in Seq(Jobs) /\ IsInjective(waiting')
        /\ Range(waiting') = InState("waiting") \ {id}
    BY <1>1, HeadOfLine
  <1>3. job[id] \in JobRecord
    BY DEF QueueInv, QueueTypeOK
  <1>4. /\ r \in JobRecord /\ r.state = "active"
        /\ r.made = job[id].made /\ r.stalls = job[id].stalls
    BY <1>3 DEF JobRecord, States
  <1>5. job' = [job EXCEPT ![id] = r]
    BY <1>3 DEF Take, JobRecord, QueueInv, QueueTypeOK
  <1> HIDE DEF r
  <1>a. /\ job' \in [Jobs -> JobRecord]
        /\ \A x \in Jobs : job'[x] = IF x = id THEN r ELSE job[x]
        /\ \A s \in States :
             InState(s)' = (InState(s) \ {id})
                             \cup (IF r.state = s THEN {id} ELSE {})
    BY <1>2, <1>4, <1>5, OneJobChanges DEF QueueInv
  <1>6. /\ job' \in [Jobs -> JobRecord]
        /\ \A x \in Jobs : job'[x] = IF x = id THEN r ELSE job[x]
        /\ InState("waiting")' = InState("waiting") \ {id}
        /\ InState("completed")' = InState("completed")
    BY <1>a, <1>2, <1>4, <1>5 DEF States, InState
  <1>7. QueueTypeOK' /\ ListsExact'
    BY <1>1, <1>2, <1>6 DEF QueueInv, QueueTypeOK, ListsExact, ListsJust
  <1>8. GivenUpOnlyAtLimit' /\ NotDoomed'
    BY <1>1, <1>2, <1>4, <1>6
    DEF QueueInv, GivenUpOnlyAtLimit, NotDoomed, Doomed
  <1> QED BY <1>7, <1>8 DEF QueueInv

LEMMA GiveUpInv ==
  ASSUME QueueInv, NEW id \in Jobs, GiveUp(id)
  PROVE  QueueInv'
  <1> DEFINE n == job[id].made + 1
             r == [job[id] EXCEPT !.state = "failed", !.made = n]
  <1>1. /\ IsNext(id) /\ waiting' = Tail(waiting) /\ kept' = kept
        /\ Doomed(id)
    BY DEF GiveUp
  <1>2. /\ job[id].state = "waiting"
        /\ waiting' \in Seq(Jobs) /\ IsInjective(waiting')
        /\ Range(waiting') = InState("waiting") \ {id}
    BY <1>1, HeadOfLine
  <1>3. job[id] \in JobRecord /\ job[id].made < Attempts
    BY <1>2 DEF QueueInv, QueueTypeOK, GivenUpOnlyAtLimit
  <1>b. n \in 0..Attempts
    BY <1>3, QueueAssumption DEF JobRecord
  <1>4. /\ r \in JobRecord /\ r.state = "failed"
        /\ r.stalls = job[id].stalls
    <2> HIDE DEF n
    <2> QED BY <1>3, <1>b DEF JobRecord, States
  <1>5. job' = [job EXCEPT ![id] = r]
    BY DEF GiveUp
  <1> HIDE DEF r
  <1>a. /\ job' \in [Jobs -> JobRecord]
        /\ \A x \in Jobs : job'[x] = IF x = id THEN r ELSE job[x]
        /\ \A s \in States :
             InState(s)' = (InState(s) \ {id})
                             \cup (IF r.state = s THEN {id} ELSE {})
    BY <1>2, <1>4, <1>5, OneJobChanges DEF QueueInv
  <1>6. /\ job' \in [Jobs -> JobRecord]
        /\ \A x \in Jobs : job'[x] = IF x = id THEN r ELSE job[x]
        /\ InState("waiting")' = InState("waiting") \ {id}
        /\ InState("completed")' = InState("completed")
    BY <1>a, <1>2, <1>4, <1>5 DEF States, InState
  <1>7. QueueTypeOK' /\ ListsExact'
    BY <1>1, <1>2, <1>6 DEF QueueInv, QueueTypeOK, ListsExact, ListsJust
  <1>8. GivenUpOnlyAtLimit' /\ NotDoomed'
    BY <1>1, <1>4, <1>6
    DEF QueueInv, GivenUpOnlyAtLimit, NotDoomed, Doomed
  <1> QED BY <1>7, <1>8 DEF QueueInv

(* The ends of an attempt.                                                 *)
LEMMA FailInv ==
  ASSUME QueueInv, NEW w \in Workers, NEW id \in Jobs, Fail(w, id)
  PROVE  QueueInv'
  <1> DEFINE n == job[id].made + 1
             r == [job[id] EXCEPT
                    !.state = IF LastAttempt(id) THEN "failed" ELSE "delayed",
                    !.made = n, !.owner = NoWorker]
  <1>1. job[id].state = "active" /\ waiting' = waiting /\ kept' = kept
    BY DEF Fail, HoldsLock
  <1>2. job[id] \in JobRecord /\ job[id].made < Attempts /\ ~Doomed(id)
    BY <1>1 DEF QueueInv, QueueTypeOK, GivenUpOnlyAtLimit, NotDoomed
  <1>b. /\ n \in 0..Attempts
        /\ LastAttempt(id) => n = Attempts
        /\ ~LastAttempt(id) => n < Attempts
    BY <1>2, QueueAssumption DEF JobRecord, LastAttempt
  <1>3. /\ r \in JobRecord /\ r.state \in {"failed", "delayed"}
        /\ r.stalls = job[id].stalls
        /\ r.state = "failed" => r.made = Attempts
        /\ r.state = "delayed" => r.made < Attempts
    <2> HIDE DEF n
    <2>1. /\ r \in JobRecord
          /\ r.state = IF LastAttempt(id) THEN "failed" ELSE "delayed"
          /\ r.stalls = job[id].stalls /\ r.made = n
      BY <1>2, <1>b DEF JobRecord, States
    <2> HIDE DEF r
    <2> QED BY <2>1, <1>b
  <1>4. job' = [job EXCEPT ![id] = r]
    BY DEF Fail
  <1> HIDE DEF r
  <1>a. /\ job' \in [Jobs -> JobRecord]
        /\ \A x \in Jobs : job'[x] = IF x = id THEN r ELSE job[x]
        /\ \A s \in States :
             InState(s)' = (InState(s) \ {id})
                             \cup (IF r.state = s THEN {id} ELSE {})
    BY <1>1, <1>3, <1>4, OneJobChanges DEF QueueInv
  <1>5. /\ job' \in [Jobs -> JobRecord]
        /\ \A x \in Jobs : job'[x] = IF x = id THEN r ELSE job[x]
        /\ InState("waiting")' = InState("waiting")
        /\ InState("completed")' = InState("completed")
    BY <1>a, <1>1, <1>3, <1>4 DEF States, InState
  <1>6. QueueTypeOK' /\ ListsExact'
    BY <1>1, <1>5 DEF QueueInv, QueueTypeOK, ListsExact, ListsJust
  <1>7. GivenUpOnlyAtLimit' /\ NotDoomed'
    BY <1>2, <1>3, <1>5
    DEF QueueInv, GivenUpOnlyAtLimit, NotDoomed, Doomed
  <1> QED BY <1>6, <1>7 DEF QueueInv

LEMMA CompleteInv ==
  ASSUME QueueInv, NEW w \in Workers, NEW id \in Jobs, Complete(w, id)
  PROVE  QueueInv'
  <1> DEFINE r == [job[id] EXCEPT !.state = "completed", !.owner = NoWorker]
             done == [job EXCEPT ![id] =
                        [@ EXCEPT !.state = "completed", !.owner = NoWorker]]
             all == Append(kept, id)
  <1>1. job[id].state = "active" /\ waiting' = waiting
    BY DEF Complete, HoldsLock
  <1>2. job[id] \in JobRecord /\ job \in [Jobs -> JobRecord]
    BY DEF QueueInv, QueueTypeOK
  <1>3. r \in JobRecord /\ r.state = "completed"
    BY <1>2, QueueAssumption DEF JobRecord, States
  <1>4. done = [job EXCEPT ![id] = r]
    BY <1>2 DEF JobRecord
  <1>5. /\ done \in [Jobs -> JobRecord]
        /\ \A x \in Jobs : done[x] = IF x = id THEN r ELSE job[x]
    BY <1>2, <1>3, <1>4
  <1>6. /\ all \in Seq(Jobs) /\ IsInjective(all) /\ all # <<>>
        /\ Range(all) = InState("completed") \cup {id}
    <2>1. kept \in Seq(Jobs) /\ IsInjective(kept) /\ id \notin Range(kept)
      BY <1>1 DEF QueueInv, QueueTypeOK, ListsExact, ListsJust, InState
    <2>2. Len(all) = Len(kept) + 1 /\ Len(kept) \in Nat
      BY <2>1
    <2>3. all # <<>>
      BY <2>2
    <2> QED BY <2>1, <2>3, AppendList DEF QueueInv, ListsExact, ListsJust
  <1>7. /\ Len(all) > KeepCompleted
              => job' = [done EXCEPT ![Head(all)] = NoJob] /\ kept' = Tail(all)
        /\ ~(Len(all) > KeepCompleted) => job' = done /\ kept' = all
    BY DEF Complete
  <1> HIDE DEF r, done, all
  <1>8. CASE ~(Len(all) > KeepCompleted)
    <2>1. /\ job' = done /\ kept' = all
          /\ \A x \in Jobs : job'[x] = IF x = id THEN r ELSE job[x]
      BY <1>5, <1>7, <1>8
    <2>2. QueueTypeOK'
      BY <1>1, <1>5, <1>6, <2>1 DEF QueueInv, QueueTypeOK
    <2>3. /\ InState("waiting")' = InState("waiting")
          /\ InState("completed")' = InState("completed") \cup {id}
      BY <1>1, <1>3, <2>1 DEF InState
    <2>4. ListsExact'
      BY <1>1, <1>6, <2>1, <2>3 DEF QueueInv, ListsExact, ListsJust
    <2>5. GivenUpOnlyAtLimit' /\ NotDoomed'
      BY <1>3, <2>1 DEF QueueInv, GivenUpOnlyAtLimit, NotDoomed, Doomed
    <2> QED BY <2>2, <2>4, <2>5 DEF QueueInv
  <1>9. CASE Len(all) > KeepCompleted
    <2>1. /\ Head(all) \in Jobs /\ Tail(all) \in Seq(Jobs)
          /\ IsInjective(Tail(all))
          /\ Range(Tail(all)) = Range(all) \ {Head(all)}
          /\ Head(all) \in Range(all)
      BY <1>6, TailList
    <2>2. Head(all) \in InState("completed") \cup {id}
      BY <1>6, <2>1
    <2>3. /\ NoJob \in JobRecord /\ NoJob.state = "absent"
      BY QueueAssumption DEF NoJob, JobRecord, States
    <2>4. /\ job' \in [Jobs -> JobRecord] /\ kept' = Tail(all)
          /\ \A x \in Jobs : job'[x] = IF x = Head(all) THEN NoJob
                                       ELSE IF x = id THEN r ELSE job[x]
      BY <1>5, <1>7, <1>9, <2>1, <2>3
    <2>5. QueueTypeOK'
      BY <1>1, <2>1, <2>4 DEF QueueInv, QueueTypeOK
    <2>6. InState("waiting")' = InState("waiting")
      BY <1>1, <1>3, <2>2, <2>3, <2>4 DEF InState
    <2>7. InState("completed")' = (InState("completed") \cup {id}) \ {Head(all)}
      BY <1>3, <2>3, <2>4 DEF InState
    <2>8. ListsExact'
      BY <1>1, <1>6, <2>1, <2>4, <2>6, <2>7 DEF QueueInv, ListsExact, ListsJust
    <2>9. GivenUpOnlyAtLimit' /\ NotDoomed'
      BY <1>3, <2>3, <2>4 DEF QueueInv, GivenUpOnlyAtLimit, NotDoomed, Doomed
    <2> QED BY <2>5, <2>8, <2>9 DEF QueueInv
  <1> QED BY <1>8, <1>9

(* The queue's own timers.                                                 *)
LEMMA PromoteInv ==
  ASSUME QueueInv, NEW id \in Jobs, Promote(id)
  PROVE  QueueInv'
  <1> DEFINE r == [job[id] EXCEPT !.state = "waiting"]
  <1>1. /\ job[id].state = "delayed" /\ waiting' = Append(waiting, id)
        /\ kept' = kept
    BY DEF Promote
  <1>2. job[id] \in JobRecord /\ job[id].made < Attempts
    BY <1>1 DEF QueueInv, QueueTypeOK, GivenUpOnlyAtLimit
  <1>3. r \in JobRecord /\ r.state = "waiting" /\ r.made = job[id].made
    BY <1>2 DEF JobRecord, States
  <1>4. job' = [job EXCEPT ![id] = r]
    BY <1>2 DEF Promote, JobRecord, QueueInv, QueueTypeOK
  <1> HIDE DEF r
  <1>a. /\ job' \in [Jobs -> JobRecord]
        /\ \A x \in Jobs : job'[x] = IF x = id THEN r ELSE job[x]
        /\ \A s \in States :
             InState(s)' = (InState(s) \ {id})
                             \cup (IF r.state = s THEN {id} ELSE {})
    BY <1>1, <1>3, <1>4, OneJobChanges DEF QueueInv
  <1>5. /\ job' \in [Jobs -> JobRecord]
        /\ \A x \in Jobs : job'[x] = IF x = id THEN r ELSE job[x]
        /\ InState("waiting")' = InState("waiting") \cup {id}
        /\ InState("completed")' = InState("completed")
    BY <1>a, <1>1, <1>3, <1>4 DEF States, InState
  <1>6. /\ waiting' \in Seq(Jobs) /\ IsInjective(waiting')
        /\ Range(waiting') = InState("waiting") \cup {id}
    <2>1. /\ waiting \in Seq(Jobs) /\ IsInjective(waiting)
          /\ id \notin Range(waiting) /\ Range(waiting) = InState("waiting")
      BY <1>1 DEF QueueInv, QueueTypeOK, ListsExact, ListsJust, InState
    <2> QED BY <1>1, <2>1, AppendList
  <1>7. QueueTypeOK' /\ ListsExact'
    BY <1>1, <1>5, <1>6 DEF QueueInv, QueueTypeOK, ListsExact, ListsJust
  <1>8. GivenUpOnlyAtLimit' /\ NotDoomed'
    BY <1>2, <1>3, <1>5
    DEF QueueInv, GivenUpOnlyAtLimit, NotDoomed, Doomed
  <1> QED BY <1>7, <1>8 DEF QueueInv

LEMMA StallInv ==
  ASSUME QueueInv, NEW id \in Jobs, Stall(id)
  PROVE  QueueInv'
  <1> DEFINE n == job[id].stalls + 1
             r == [job[id] EXCEPT !.state = "waiting", !.owner = NoWorker,
                                  !.stalls = n]
  <1>1. /\ job[id].state = "active" /\ waiting' = <<id>> \o waiting
        /\ kept' = kept
    BY DEF Stall
  <1>2. job[id] \in JobRecord /\ job[id].made < Attempts /\ ~Doomed(id)
    BY <1>1 DEF QueueInv, QueueTypeOK, GivenUpOnlyAtLimit, NotDoomed
  <1>b. n \in 0..(MaxStalls + 1)
    BY <1>2, QueueAssumption DEF JobRecord, Doomed
  <1>3. r \in JobRecord /\ r.state = "waiting" /\ r.made = job[id].made
    <2> HIDE DEF n
    <2> QED BY <1>2, <1>b DEF JobRecord, States
  <1>4. job' = [job EXCEPT ![id] = r]
    BY DEF Stall
  <1> HIDE DEF r
  <1>a. /\ job' \in [Jobs -> JobRecord]
        /\ \A x \in Jobs : job'[x] = IF x = id THEN r ELSE job[x]
        /\ \A s \in States :
             InState(s)' = (InState(s) \ {id})
                             \cup (IF r.state = s THEN {id} ELSE {})
    BY <1>1, <1>3, <1>4, OneJobChanges DEF QueueInv
  <1>5. /\ job' \in [Jobs -> JobRecord]
        /\ \A x \in Jobs : job'[x] = IF x = id THEN r ELSE job[x]
        /\ InState("waiting")' = InState("waiting") \cup {id}
        /\ InState("completed")' = InState("completed")
    BY <1>a, <1>1, <1>3, <1>4 DEF States, InState
  <1>6. /\ waiting' \in Seq(Jobs) /\ IsInjective(waiting')
        /\ Range(waiting') = InState("waiting") \cup {id}
    <2>1. /\ waiting \in Seq(Jobs) /\ IsInjective(waiting)
          /\ id \notin Range(waiting) /\ Range(waiting) = InState("waiting")
      BY <1>1 DEF QueueInv, QueueTypeOK, ListsExact, ListsJust, InState
    <2> QED BY <1>1, <2>1, PrependList
  <1>7. QueueTypeOK' /\ ListsExact'
    BY <1>1, <1>5, <1>6 DEF QueueInv, QueueTypeOK, ListsExact, ListsJust
  <1>8. GivenUpOnlyAtLimit' /\ NotDoomed'
    BY <1>2, <1>3, <1>5
    DEF QueueInv, GivenUpOnlyAtLimit, NotDoomed, Doomed
  <1> QED BY <1>7, <1>8 DEF QueueInv

-----------------------------------------------------------------------------
(* Every step of the queue keeps its invariant.                            *)
LEMMA QueueStepInv ==
  ASSUME QueueInv, [QueueNext]_queueVars
  PROVE  QueueInv'
  <1>1. CASE UNCHANGED queueVars
    BY <1>1 DEF queueVars, QueueInv, QueueTypeOK, ListsExact, ListsJust, InState,
        GivenUpOnlyAtLimit, NotDoomed, Doomed
  <1>2. ASSUME NEW id \in Jobs, Add(id) \/ Promote(id) \/ Stall(id)
        PROVE  QueueInv'
    BY <1>2, AddInv, PromoteInv, StallInv
  <1>3. ASSUME NEW w \in Workers, NEW id \in Jobs,
               Take(w, id) \/ GiveUp(id) \/ EndAttempt(w, id)
        PROVE  QueueInv'
    BY <1>3, TakeInv, GiveUpInv, CompleteInv, FailInv DEF EndAttempt
  <1> QED BY <1>1, <1>2, <1>3 DEF QueueNext, Serve

(* The queue's invariant holds whatever its producers and processors do.   *)
THEOREM QueueCorrect == QueueSafe => []QueueInv
  <1>1. QueueInv /\ [QueueNext]_queueVars => QueueInv'
    BY QueueStepInv
  <1> QED BY <1>1, QueueInitInv, PTL DEF QueueSafe

(* The wait list and the retained jobs agree with the job records: no job  *)
(* runs twice or never because a list and a record differ.                 *)
THEOREM QueueListsExact == QueueSpec => []ListsExact
  <1>1. QueueInv => ListsExact
    BY DEF QueueInv
  <1> QED BY <1>1, QueueCorrect, PTL DEF QueueSpec

(* A job is given up only when its attempts or its stalls are used up.     *)
THEOREM QueueGivesUpLast == QueueSpec => []GivenUpOnlyAtLimit
  <1>1. QueueInv => GivenUpOnlyAtLimit
    BY DEF QueueInv
  <1> QED BY <1>1, QueueCorrect, PTL DEF QueueSpec

(* QueueIsSound puts the two together, and the types.                      *)
THEOREM QueueSound == QueueSpec => [](QueueTypeOK /\ QueueIsSound)
  <1>1. QueueInv => QueueTypeOK /\ QueueIsSound
    BY DEF QueueInv, QueueIsSound
  <1> QED BY <1>1, QueueCorrect, PTL DEF QueueSpec

(* A settled job stays as it is until retention drops it: a failed one for *)
(* good, a completed one until enough others completed after it.           *)
LEMMA SettledStays ==
  ASSUME QueueInv, [QueueNext]_queueVars, NEW id \in Jobs, Settled(id)
  PROVE  \/ job'[id] = job[id]
         \/ job[id].state = "completed" /\ job'[id].state = "absent"
  <1>1. job \in [Jobs -> JobRecord] /\ waiting \in Seq(Jobs)
    BY DEF QueueInv, QueueTypeOK
  <1>2. CASE UNCHANGED queueVars
    BY <1>2 DEF queueVars
  <1>3. ASSUME NEW x \in Jobs, Add(x) \/ Promote(x) \/ Stall(x)
        PROVE  job'[id] = job[id]
    BY <1>1, <1>3 DEF Add, Promote, Stall, Settled, queueVars
  <1>4. ASSUME NEW w \in Workers, NEW x \in Jobs,
               Take(w, x) \/ GiveUp(x)
        PROVE  job'[id] = job[id]
    <2>1. IsNext(x) /\ waiting' = Tail(waiting)
      BY <1>4 DEF Take, GiveUp
    <2>2. job[x].state = "waiting"
      BY <2>1, HeadOfLine
    <2> QED BY <1>1, <1>4, <2>2 DEF Take, GiveUp, Settled
  <1>5. ASSUME NEW w \in Workers, NEW x \in Jobs, Fail(w, x)
        PROVE  job'[id] = job[id]
    BY <1>1, <1>5 DEF Fail, HoldsLock, Settled
  <1>6. ASSUME NEW w \in Workers, NEW x \in Jobs, Complete(w, x)
        PROVE  \/ job'[id] = job[id]
               \/ job[id].state = "completed" /\ job'[id].state = "absent"
    <2> DEFINE all == Append(kept, x)
    <2>1. id # x
      BY <1>6 DEF Complete, HoldsLock, Settled
    <2>2. kept \in Seq(Jobs) /\ Range(kept) = InState("completed")
      BY DEF QueueInv, QueueTypeOK, ListsExact, ListsJust
    <2>3. id = Head(all) => job[id].state = "completed"
      <3>1. id = Head(all) => kept # <<>> /\ id = kept[1] /\ 1 \in DOMAIN kept
        BY <2>1, <2>2
      <3> QED BY <2>2, <3>1 DEF Range, InState
    <2>4. id # Head(all) => job'[id] = job[id]
      BY <1>1, <1>6, <2>1 DEF Complete
    <2>5. id = Head(all) => job'[id] = job[id] \/ job'[id] = NoJob
      BY <1>1, <1>6, <2>1 DEF Complete
    <2> QED BY <2>3, <2>4, <2>5 DEF NoJob
  <1> QED BY <1>2, <1>3, <1>4, <1>5, <1>6
          DEF QueueNext, Serve, EndAttempt

(* A settled job stays as it is until retention drops it.                  *)
THEOREM QueueSettlesOnce == QueueSpec => SettledOnce
  <1> DEFINE Kept == \A id \in Jobs : Settled(id) =>
          job'[id] = job[id] \/ (job[id].state = "completed"
                                    /\ job'[id].state = "absent")
  <1>1. QueueInv /\ [QueueNext]_queueVars => [Kept]_queueVars
    BY SettledStays
  <1> QED BY <1>1, QueueCorrect, PTL DEF QueueSpec, QueueSafe, SettledOnce

-----------------------------------------------------------------------------
(* What each operation does to the job records, for the processors' own    *)
(* proofs.                                                                 *)
LEMMA AddEffect ==
  ASSUME QueueInv, NEW id \in Jobs, Add(id)
  PROVE  \A x \in Jobs :
           job'[x] = IF x = id /\ job[id].state = "absent" THEN NewJob ELSE job[x]
  BY DEF Add, queueVars, QueueInv, QueueTypeOK

LEMMA TakeEffect ==
  ASSUME QueueInv, NEW w \in Workers, NEW id \in Jobs, Take(w, id)
  PROVE  /\ job[id].state = "waiting"
         /\ job'[id].state = "active" /\ job'[id].owner = w
         /\ job'[id].made = job[id].made /\ job'[id].stalls = job[id].stalls
         /\ \A x \in Jobs : x # id => job'[x] = job[x]
  <1>1. IsNext(id) /\ waiting' = Tail(waiting)
    BY DEF Take
  <1>2. job[id].state = "waiting"
    BY <1>1, HeadOfLine
  <1> QED BY <1>2 DEF Take, QueueInv, QueueTypeOK, JobRecord

LEMMA GiveUpEffect ==
  ASSUME QueueInv, NEW id \in Jobs, GiveUp(id)
  PROVE  /\ job[id].state = "waiting" /\ job[id].made < Attempts
         /\ job'[id].state = "failed" /\ job'[id].made = job[id].made + 1
         /\ job'[id].stalls = job[id].stalls
         /\ \A x \in Jobs : x # id => job'[x] = job[x]
  <1>1. IsNext(id) /\ waiting' = Tail(waiting)
    BY DEF GiveUp
  <1>2. job[id].state = "waiting"
    BY <1>1, HeadOfLine
  <1> QED BY <1>2 DEF GiveUp, QueueInv, QueueTypeOK, JobRecord, GivenUpOnlyAtLimit

LEMMA FailEffect ==
  ASSUME QueueInv, NEW w \in Workers, NEW id \in Jobs, Fail(w, id)
  PROVE  /\ job[id].state = "active" /\ job[id].made < Attempts
         /\ job'[id].state = IF LastAttempt(id) THEN "failed" ELSE "delayed"
         /\ job'[id].made = job[id].made + 1
         /\ job'[id].stalls = job[id].stalls
         /\ \A x \in Jobs : x # id => job'[x] = job[x]
  BY DEF Fail, HoldsLock, QueueInv, QueueTypeOK, JobRecord, GivenUpOnlyAtLimit

LEMMA PromoteEffect ==
  ASSUME QueueInv, NEW id \in Jobs, Promote(id)
  PROVE  /\ job[id].state = "delayed" /\ job'[id].state = "waiting"
         /\ job'[id].made = job[id].made /\ job'[id].stalls = job[id].stalls
         /\ \A x \in Jobs : x # id => job'[x] = job[x]
  BY DEF Promote, QueueInv, QueueTypeOK, JobRecord

LEMMA StallEffect ==
  ASSUME QueueInv, NEW id \in Jobs, Stall(id)
  PROVE  /\ job[id].state = "active" /\ job'[id].state = "waiting"
         /\ job'[id].made = job[id].made /\ job'[id].stalls = job[id].stalls + 1
         /\ \A x \in Jobs : x # id => job'[x] = job[x]
  BY DEF Stall, QueueInv, QueueTypeOK, JobRecord

(* The oldest completed job may be dropped, which may be the new one.      *)
LEMMA CompleteEffect ==
  ASSUME QueueInv, NEW w \in Workers, NEW id \in Jobs, Complete(w, id)
  PROVE  /\ job[id].state = "active" /\ job[id].owner = w
         /\ \/ job'[id] = NoJob
            \/ /\ job'[id].state = "completed"
               /\ job'[id].made = job[id].made
               /\ job'[id].stalls = job[id].stalls
         /\ \A x \in Jobs : x # id =>
               \/ job'[x] = job[x]
               \/ job[x].state = "completed" /\ job'[x] = NoJob
  <1> DEFINE all == Append(kept, id)
             r == [job[id] EXCEPT !.state = "completed", !.owner = NoWorker]
             done == [job EXCEPT ![id] =
                        [@ EXCEPT !.state = "completed", !.owner = NoWorker]]
  <1>1. job \in [Jobs -> JobRecord] /\ kept \in Seq(Jobs)
        /\ Range(kept) = InState("completed")
    BY DEF QueueInv, QueueTypeOK, ListsExact, ListsJust
  <1>2. job[id].state = "active" /\ job[id].owner = w
    BY DEF Complete, HoldsLock
  <1>3. \A x \in Jobs : done[x] = IF x = id THEN r ELSE job[x]
    BY <1>1
  <1>4. r.state = "completed" /\ r.made = job[id].made /\ r.stalls = job[id].stalls
    BY <1>1 DEF JobRecord
  <1>5. job' = done \/ job' = [done EXCEPT ![Head(all)] = NoJob]
    BY DEF Complete
  <1>6. done \in [Jobs -> {done[x] : x \in Jobs}]
    BY <1>1
  <1>7. \A x \in Jobs : x = Head(all) /\ x # id => job[x].state = "completed"
    <2> SUFFICES ASSUME NEW x \in Jobs, x = Head(all), x # id
                 PROVE  job[x].state = "completed"
      OBVIOUS
    <2>1. kept # <<>> /\ x = kept[1] /\ 1 \in DOMAIN kept
      BY <1>1
    <2> QED BY <1>1, <2>1 DEF Range, InState
  <1> HIDE DEF done, r, all
  <1> QED BY <1>2, <1>3, <1>4, <1>5, <1>6, <1>7

(* A queue that retains as many completed jobs as there are ids drops none.*)
LEMMA KeepsEvery ==
  ASSUME QueueInv, NEW w \in Workers, NEW id \in Jobs, Complete(w, id),
         IsFiniteSet(Jobs), KeepCompleted >= Cardinality(Jobs)
  PROVE  /\ job'[id].state = "completed"
         /\ \A x \in Jobs : x # id => job'[x] = job[x]
  <1>1. kept \in Seq(Jobs) /\ IsInjective(kept) /\ Range(kept) = InState("completed")
    BY DEF QueueInv, QueueTypeOK, ListsExact, ListsJust
  <1>2. id \notin Range(kept)
    BY <1>1 DEF Complete, HoldsLock, InState
  <1>3. Cardinality(Range(kept)) = Len(kept) /\ IsFiniteSet(Range(kept))
    <2>1. Len(kept) \in Nat /\ DOMAIN kept = 1..Len(kept)
      BY <1>1
    <2>2. kept \in Bijection(1..Len(kept), Range(kept))
      BY <1>1, <2>1 DEF Bijection, Injection, Surjection, IsInjective, Range
    <2>3. ExistsBijection(1..Len(kept), Range(kept))
      BY <2>2 DEF ExistsBijection
    <2>4. Range(kept) \subseteq Jobs
      BY <1>1 DEF InState
    <2> QED BY <2>1, <2>3, <2>4, FS_CountingElements, FS_Subset
  <1>4. Cardinality(Range(kept) \cup {id}) = Len(kept) + 1
    BY <1>2, <1>3, FS_AddElement
  <1>5. Range(kept) \cup {id} \subseteq Jobs
    BY <1>1 DEF InState
  <1>6. Len(kept) + 1 <= Cardinality(Jobs)
    BY <1>4, <1>5, FS_Subset
  <1>7. ~(Len(Append(kept, id)) > KeepCompleted)
    <2>1. Len(Append(kept, id)) = Len(kept) + 1 /\ Len(kept) \in Nat
      BY <1>1
    <2>2. Cardinality(Jobs) \in Nat
      BY FS_CardinalityType
    <2> QED BY <1>6, <2>1, <2>2, QueueAssumption
  <1>8. job' = [job EXCEPT ![id] = [@ EXCEPT !.state = "completed",
                                             !.owner = NoWorker]]
    BY <1>7 DEF Complete
  <1> QED BY <1>8 DEF QueueInv, QueueTypeOK, JobRecord

(* A dropped job leaves nothing behind: its id is as good as new.          *)
Forgotten == \A id \in Jobs : job[id].state = "absent" => job[id] = NoJob

LEMMA ForgottenStep == QueueInv /\ Forgotten /\ [QueueNext]_queueVars => Forgotten'
  <1> SUFFICES ASSUME QueueInv, Forgotten, [QueueNext]_queueVars PROVE Forgotten'
    OBVIOUS
  <1>1. CASE UNCHANGED queueVars
    BY <1>1 DEF queueVars, Forgotten
  <1>2. ASSUME NEW id \in Jobs, Add(id) \/ Promote(id) \/ Stall(id) \/ GiveUp(id)
        PROVE  Forgotten'
    <2>1. NewJob.state = "waiting"
      BY DEF NewJob, NoJob
    <2> QED BY <1>2, <2>1, AddEffect, PromoteEffect, StallEffect, GiveUpEffect
            DEF Forgotten
  <1>3. ASSUME NEW w \in Workers, NEW id \in Jobs,
               Take(w, id) \/ EndAttempt(w, id)
        PROVE  Forgotten'
    <2>1. CASE Take(w, id)
      BY <2>1, TakeEffect DEF Forgotten
    <2>2. CASE Fail(w, id)
      BY <2>2, FailEffect DEF Forgotten
    <2>3. CASE Complete(w, id)
      BY <2>3, CompleteEffect DEF Forgotten
    <2> QED BY <1>3, <2>1, <2>2, <2>3 DEF EndAttempt
  <1> QED BY <1>1, <1>2, <1>3 DEF QueueNext, Serve

(* A job that retention has dropped, or that was never added, has no       *)
(* attempts and no stalls to its name: added again, it starts afresh.      *)
THEOREM QueueForgets == QueueSafe => []Forgotten
  <1>1. QueueInit => Forgotten
    BY DEF QueueInit, Forgotten
  <1> QED BY <1>1, QueueInitInv, QueueStepInv, ForgottenStep, PTL DEF QueueSafe
=============================================================================
