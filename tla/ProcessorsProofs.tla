-------------------------- MODULE ProcessorsProofs --------------------------
(***************************************************************************)
(* What the processors keep, whatever they do at each place: the invariant *)
(* of all queues together, what each operation does to the jobs, and that  *)
(* each queue on its own is a JobQueue.                                    *)
(***************************************************************************)
EXTENDS Processors, FiniteSetTheorems, TLAPS

-----------------------------------------------------------------------------
(* The lists' lemmas, which hold for sequences of anything, from the       *)
(* proofs of the single queue.                                             *)
LOCAL Lists == INSTANCE JobQueueProofs WITH
                 NoWorker <- None, Attempts <- 1, KeepCompleted <- 0,
                 waiting <- <<>>, kept <- <<>>

LEMMA ListsApply == Lists!QueueAssumption
  BY ProcessorsAssumption DEF Lists!QueueAssumption

LEMMA AppendNew ==
  ASSUME NEW S, NEW seq \in Seq(S), NEW e \in S,
         IsInjective(seq), e \notin Range(seq)
  PROVE  /\ Append(seq, e) \in Seq(S)
         /\ IsInjective(Append(seq, e))
         /\ Range(Append(seq, e)) = Range(seq) \cup {e}
  <1>1. Lists!IsInjective(seq) /\ e \notin Lists!Range(seq)
    BY DEF Range, IsInjective, Lists!Range, Lists!IsInjective
  <1>2. /\ Append(seq, e) \in Seq(S)
        /\ Lists!IsInjective(Append(seq, e))
        /\ Lists!Range(Append(seq, e)) = Lists!Range(seq) \cup {e}
    BY <1>1, ListsApply, Lists!AppendList
  <1> QED BY <1>2 DEF Range, IsInjective, Lists!Range, Lists!IsInjective

LEMMA TakeFirst ==
  ASSUME NEW S, NEW seq \in Seq(S), seq # <<>>, IsInjective(seq)
  PROVE  /\ Tail(seq) \in Seq(S)
         /\ Head(seq) \in S
         /\ IsInjective(Tail(seq))
         /\ Range(Tail(seq)) = Range(seq) \ {Head(seq)}
         /\ Head(seq) \in Range(seq)
  BY ListsApply, Lists!TailList
  DEF Range, IsInjective, Lists!Range, Lists!IsInjective

LEMMA PutFirst ==
  ASSUME NEW S, NEW seq \in Seq(S), NEW e \in S,
         IsInjective(seq), e \notin Range(seq)
  PROVE  /\ <<e>> \o seq \in Seq(S)
         /\ IsInjective(<<e>> \o seq)
         /\ Range(<<e>> \o seq) = Range(seq) \cup {e}
  <1>1. Lists!IsInjective(seq) /\ e \notin Lists!Range(seq)
    BY DEF Range, IsInjective, Lists!Range, Lists!IsInjective
  <1>2. /\ <<e>> \o seq \in Seq(S)
        /\ Lists!IsInjective(<<e>> \o seq)
        /\ Lists!Range(<<e>> \o seq) = Lists!Range(seq) \cup {e}
    BY <1>1, ListsApply, Lists!PrependList
  <1> QED BY <1>2 DEF Range, IsInjective, Lists!Range, Lists!IsInjective

(* A list without repetitions is no longer than its set of elements.       *)
LEMMA RoomForOneMore ==
  ASSUME NEW S, IsFiniteSet(S), NEW seq \in Seq(S), NEW e \in S,
         IsInjective(seq), e \notin Range(seq)
  PROVE  Len(seq) + 1 <= Cardinality(S) /\ Cardinality(S) \in Nat
  <1>1. Len(seq) \in Nat /\ DOMAIN seq = 1..Len(seq) /\ Range(seq) \subseteq S
    BY DEF Range
  <1>2. seq \in Bijection(1..Len(seq), Range(seq))
    BY <1>1 DEF Bijection, Injection, Surjection, IsInjective, Range
  <1>3. ExistsBijection(1..Len(seq), Range(seq))
    BY <1>2 DEF ExistsBijection
  <1>4. Cardinality(Range(seq)) = Len(seq) /\ IsFiniteSet(Range(seq))
    BY <1>1, <1>3, FS_CountingElements, FS_Subset
  <1>5. Cardinality(Range(seq) \cup {e}) = Len(seq) + 1
    BY <1>4, FS_AddElement
  <1> QED BY <1>1, <1>5, FS_Subset, FS_CardinalityType

-----------------------------------------------------------------------------
(* The invariant.                                                          *)
AnyRecord == [state : States, made : Nat, stalls : Nat,
              owner : Workers \cup {None}]

InState(q, state) == {id \in JobsOf(q) : job[id].state = state}

ListsJust(q, seq, state) == IsInjective(seq) /\ Range(seq) = InState(q, state)

(* The counters of a record, and what its state says of them: a failed job *)
(* used up its attempts or its stalls, one that is still to run did not.   *)
CountsRight(id, r) ==
    /\ r.made <= AttemptsOf[QueueOf[id]]
    /\ r.stalls <= MaxStalls + 1
    /\ r.state = "absent" => r = NoJob
    /\ r.state = "failed" =>
          r.made = AttemptsOf[QueueOf[id]] \/ r.stalls > MaxStalls
    /\ r.state \in {"waiting", "delayed", "active"} =>
          r.made < AttemptsOf[QueueOf[id]]
    /\ r.state \in {"active", "delayed"} => r.stalls <= MaxStalls

(* The lists of every queue are exact: a waiting job stands in line once,  *)
(* a completed one is retained once, and no list names any other.          *)
QueuesInv ==
    /\ job \in [Jobs -> AnyRecord]
    /\ line \in [Queues -> Seq(Jobs)]
    /\ kept \in [Queues -> Seq(Jobs)]
    /\ \A q \in Queues : /\ ListsJust(q, line[q], "waiting")
                         /\ ListsJust(q, kept[q], "completed")
    /\ \A id \in Jobs : CountsRight(id, job[id])

(* A processor that is not idle is in a job of the queue it serves.        *)
Busy ==
    /\ at \in [Workers -> Places]
    /\ cur \in [Workers -> Jobs \cup {None}]
    /\ \A w \in Workers :
         IF at[w] = "idle" THEN cur[w] = None
         ELSE cur[w] \in Jobs /\ QueueOf[cur[w]] = ServedBy[w]

ProcessorsInv == QueuesInv /\ Busy /\ faults \in 0..MaxFaults

(* What any module about certain processors lets them do: an operation of  *)
(* a queue, with or without a move of a busy processor to its next place.  *)
AddStep == \/ UNCHANGED queues
           \/ \E id \in Jobs : Enqueue(id)

MoveStep ==
    /\ UNCHANGED cur
    /\ \/ UNCHANGED at
       \/ \E w \in Workers, place \in Places :
            at[w] # "idle" /\ place # "idle" /\ GoTo(w, place)

FaultStep == UNCHANGED faults \/ Mishap

ProcessorsNext ==
    \/ AddStep /\ MoveStep /\ FaultStep
    \/ \E w \in Workers, id \in Jobs :
         \/ \E place \in Places : place # "idle" /\ Begin(w, id, place)
         \/ GiveUp(w, id)
    \/ \E w \in Workers : End(w)
    \/ \E id \in Jobs : Timer(id)
    \/ \E ws \in SUBSET Workers : Crash(ws)

(* The lists of one queue change along with the records of its jobs.       *)
LEMMA QueueChanges ==
  ASSUME QueuesInv, NEW q \in Queues,
         NEW l \in Seq(Jobs), NEW k \in Seq(Jobs),
         job' \in [Jobs -> AnyRecord],
         line' = [line EXCEPT ![q] = l], kept' = [kept EXCEPT ![q] = k],
         \A id \in Jobs : QueueOf[id] # q => job'[id] = job[id],
         \A id \in JobsOf(q) : CountsRight(id, job'[id]),
         IsInjective(l), Range(l) = InState(q, "waiting")',
         IsInjective(k), Range(k) = InState(q, "completed")'
  PROVE  QueuesInv'
  <1>1. line' \in [Queues -> Seq(Jobs)] /\ kept' \in [Queues -> Seq(Jobs)]
    BY DEF QueuesInv
  <1>2. ASSUME NEW p \in Queues
        PROVE  ListsJust(p, line[p], "waiting")' /\ ListsJust(p, kept[p], "completed")'
    <2>1. CASE p = q
      <3>1. line'[p] = l /\ kept'[p] = k
        BY <2>1 DEF QueuesInv
      <3> QED BY <3>1, <2>1 DEF ListsJust
    <2>2. CASE p # q
      <3>1. line'[p] = line[p] /\ kept'[p] = kept[p]
        BY <2>2 DEF QueuesInv
      <3>2. \A s : InState(p, s)' = InState(p, s)
        BY <2>2 DEF InState, JobsOf
      <3> QED BY <3>1, <3>2 DEF QueuesInv, ListsJust
    <2> QED BY <2>1, <2>2
  <1>3. ASSUME NEW id \in Jobs PROVE CountsRight(id, job'[id])
    <2>1. CASE QueueOf[id] # q
      BY <2>1 DEF QueuesInv
    <2>2. CASE QueueOf[id] = q
      BY <2>2 DEF JobsOf
    <2> QED BY <2>1, <2>2
  <1> QED BY <1>1, <1>2, <1>3 DEF QueuesInv

LEMMA ProcessorsInitInv == ProcessorsInit => ProcessorsInv
  <1> SUFFICES ASSUME ProcessorsInit PROVE ProcessorsInv
    OBVIOUS
  <1>1. /\ NoJob \in AnyRecord /\ NoJob.state = "absent"
        /\ NoJob.made = 0 /\ NoJob.stalls = 0
    BY DEF NoJob, AnyRecord, States
  <1>2. \A id \in Jobs : job[id] = NoJob
    BY DEF ProcessorsInit
  <1>3. \A id \in Jobs : CountsRight(id, job[id])
    BY <1>1, <1>2, ProcessorsAssumption DEF CountsRight
  <1>4. \A q \in Queues : /\ ListsJust(q, line[q], "waiting")
                          /\ ListsJust(q, kept[q], "completed")
    <2> SUFFICES ASSUME NEW q \in Queues, NEW s \in {"waiting", "completed"}
                 PROVE  ListsJust(q, <<>>, s)
      BY DEF ProcessorsInit
    <2>1. InState(q, s) = {}
      BY <1>1, <1>2 DEF InState, JobsOf
    <2>2. <<>> \in Seq(Jobs) /\ DOMAIN <<>> = {}
      OBVIOUS
    <2>3. IsInjective(<<>>) /\ Range(<<>>) = {}
      BY <2>2 DEF IsInjective, Range
    <2> QED BY <2>1, <2>3 DEF ListsJust
  <1>5. job \in [Jobs -> AnyRecord]
    BY <1>1 DEF ProcessorsInit
  <1>6. line \in [Queues -> Seq(Jobs)] /\ kept \in [Queues -> Seq(Jobs)]
    BY DEF ProcessorsInit
  <1>7. Busy
    <2>1. \A w \in Workers : at[w] = "idle" /\ cur[w] = None
      BY DEF ProcessorsInit
    <2>2. at \in [Workers -> Places] /\ cur \in [Workers -> Jobs \cup {None}]
      BY ProcessorsAssumption DEF ProcessorsInit
    <2> QED BY <2>1, <2>2 DEF Busy
  <1>8. faults \in 0..MaxFaults
    BY ProcessorsAssumption DEF ProcessorsInit
  <1> QED BY <1>3, <1>4, <1>5, <1>6, <1>7, <1>8 DEF ProcessorsInv, QueuesInv

-----------------------------------------------------------------------------
(* Every operation of a queue keeps the invariant.  Most change one job.   *)
After(q, state, id, r) ==
    (InState(q, state) \ {id}) \cup (IF r.state = state THEN {id} ELSE {})

LEMMA OneJobChanges ==
  ASSUME QueuesInv, NEW id \in Jobs, NEW r \in AnyRecord,
         NEW l \in Seq(Jobs), NEW k \in Seq(Jobs),
         job' = [job EXCEPT ![id] = r], CountsRight(id, r),
         line' = [line EXCEPT ![QueueOf[id]] = l],
         kept' = [kept EXCEPT ![QueueOf[id]] = k],
         IsInjective(l), Range(l) = After(QueueOf[id], "waiting", id, r),
         IsInjective(k), Range(k) = After(QueueOf[id], "completed", id, r)
  PROVE  QueuesInv'
  <1> DEFINE q == QueueOf[id]
  <1>1. q \in Queues /\ id \in JobsOf(q)
    BY ProcessorsAssumption DEF JobsOf
  <1>2. /\ job' \in [Jobs -> AnyRecord]
        /\ \A x \in Jobs : job'[x] = IF x = id THEN r ELSE job[x]
    BY DEF QueuesInv
  <1>3. \A s : InState(q, s)' = After(q, s, id, r)
    BY <1>1, <1>2 DEF InState, After, JobsOf
  <1>4. \A x \in Jobs : CountsRight(x, job'[x])
    BY <1>2 DEF QueuesInv
  <1>5. /\ Range(l) = InState(q, "waiting")'
        /\ Range(k) = InState(q, "completed")'
    BY <1>3
  <1>6. \A x \in Jobs : QueueOf[x] # q => job'[x] = job[x]
    BY <1>2
  <1>7. \A x \in JobsOf(q) : CountsRight(x, job'[x])
    BY <1>4 DEF JobsOf
  <1> QED BY <1>1, <1>2, <1>5, <1>6, <1>7, QueueChanges

(* What the invariant says of one job and its queue.                       *)
LEMMA JobFacts ==
  ASSUME QueuesInv, NEW id \in Jobs
  PROVE  /\ QueueOf[id] \in Queues /\ id \in JobsOf(QueueOf[id])
         /\ job[id] \in AnyRecord /\ CountsRight(id, job[id])
         /\ line[QueueOf[id]] \in Seq(Jobs) /\ kept[QueueOf[id]] \in Seq(Jobs)
         /\ IsInjective(line[QueueOf[id]])
         /\ Range(line[QueueOf[id]]) = InState(QueueOf[id], "waiting")
         /\ IsInjective(kept[QueueOf[id]])
         /\ Range(kept[QueueOf[id]]) = InState(QueueOf[id], "completed")
         /\ \A s : id \in InState(QueueOf[id], s) <=> job[id].state = s
         /\ AttemptsOf[QueueOf[id]] \in Nat \ {0}
         /\ KeepOf[QueueOf[id]] \in Nat /\ MaxStalls \in Nat
  <1>1. QueueOf[id] \in Queues
    BY ProcessorsAssumption
  <1>2. \A s : id \in InState(QueueOf[id], s) <=> job[id].state = s
    BY DEF InState, JobsOf
  <1>3. /\ AttemptsOf[QueueOf[id]] \in Nat \ {0}
        /\ KeepOf[QueueOf[id]] \in Nat /\ MaxStalls \in Nat
    BY <1>1, ProcessorsAssumption
  <1> QED BY <1>1, <1>2, <1>3 DEF QueuesInv, ListsJust, JobsOf

(* Adding a job.                                                           *)
LEMMA EnqueueInv ==
  ASSUME QueuesInv, NEW id \in Jobs, Enqueue(id)
  PROVE  /\ QueuesInv'
         /\ \A x \in Jobs : job'[x] =
              IF x = id /\ job[id].state = "absent"
              THEN [NoJob EXCEPT !.state = "waiting"] ELSE job[x]
  <1>1. CASE job[id].state # "absent"
    <2>1. job' = job /\ line' = line /\ kept' = kept
      BY <1>1 DEF Enqueue, queues
    <2> QED BY <1>1, <2>1 DEF QueuesInv, ListsJust, InState
  <1>2. CASE job[id].state = "absent"
    <2> DEFINE r == [NoJob EXCEPT !.state = "waiting"]
               q == QueueOf[id]
    <2>1. /\ job' = [job EXCEPT ![id] = r]
          /\ line' = [line EXCEPT ![q] = Append(line[q], id)]
          /\ kept' = [kept EXCEPT ![q] = kept[q]]
      BY <1>2, JobFacts DEF Enqueue, QueuesInv
    <2>2. /\ r \in AnyRecord /\ r.state = "waiting" /\ r.made = 0 /\ r.stalls = 0
      BY DEF AnyRecord, NoJob, States
    <2>3. CountsRight(id, r)
      BY <2>2, JobFacts DEF CountsRight
    <2>4. \A x \in Jobs : job'[x] = IF x = id THEN r ELSE job[x]
      BY <2>1 DEF QueuesInv
    <2> HIDE DEF r
    <2>5. id \notin Range(line[q]) /\ id \notin InState(q, "completed")
      BY <1>2, JobFacts
    <2>6. /\ Append(line[q], id) \in Seq(Jobs) /\ IsInjective(Append(line[q], id))
          /\ Range(Append(line[q], id)) = InState(q, "waiting") \cup {id}
      BY <2>5, JobFacts, AppendNew
    <2>7. /\ kept[q] \in Seq(Jobs) /\ IsInjective(kept[q])
          /\ Range(kept[q]) = InState(q, "completed")
      BY JobFacts
    <2>8. /\ Range(Append(line[q], id)) = After(q, "waiting", id, r)
          /\ Range(kept[q]) = After(q, "completed", id, r)
      BY <2>2, <2>5, <2>6, <2>7 DEF After
    <2>9. QueuesInv'
      BY <2>1, <2>2, <2>3, <2>6, <2>7, <2>8, OneJobChanges
    <2> QED BY <1>2, <2>4, <2>9 DEF r
  <1> QED BY <1>1, <1>2

(* The job at the head of the line, which only a processor that is idle    *)
(* takes.                                                                  *)
LEMMA HeadOfLine ==
  ASSUME QueuesInv, NEW w \in Workers, NEW id \in Jobs, IsNext(w, id)
  PROVE  /\ job[id].state = "waiting" /\ at[w] = "idle"
         /\ QueueOf[id] = ServedBy[w]
         /\ Tail(line[QueueOf[id]]) \in Seq(Jobs)
         /\ IsInjective(Tail(line[QueueOf[id]]))
         /\ Range(Tail(line[QueueOf[id]])) = InState(QueueOf[id], "waiting") \ {id}
  <1> DEFINE l == line[QueueOf[id]]
  <1>1. l # <<>> /\ id = Head(l) /\ at[w] = "idle" /\ QueueOf[id] = ServedBy[w]
    BY DEF IsNext
  <1>2. l \in Seq(Jobs) /\ IsInjective(l) /\ Range(l) = InState(QueueOf[id], "waiting")
    BY JobFacts
  <1> HIDE DEF l
  <1>3. /\ Tail(l) \in Seq(Jobs) /\ IsInjective(Tail(l))
        /\ Range(Tail(l)) = Range(l) \ {id} /\ id \in Range(l)
    BY <1>1, <1>2, TakeFirst
  <1>4. job[id].state = "waiting"
    BY <1>2, <1>3, JobFacts
  <1> QED BY <1>1, <1>2, <1>3, <1>4 DEF l

(* Taking a job from the line, to begin an attempt or to give it up.       *)
LEMMA BeginInv ==
  ASSUME QueuesInv, NEW w \in Workers, NEW id \in Jobs, NEW place, Begin(w, id, place)
  PROVE  /\ QueuesInv'
         /\ job[id].state = "waiting" /\ at[w] = "idle"
         /\ QueueOf[id] = ServedBy[w]
         /\ job'[id].state = "active" /\ job'[id].owner = w
         /\ job'[id].made = job[id].made /\ job'[id].stalls = job[id].stalls
         /\ \A x \in Jobs : x # id => job'[x] = job[x]
  <1> DEFINE r == [job[id] EXCEPT !.state = "active", !.owner = w]
             q == QueueOf[id]
  <1>1. /\ job' = [job EXCEPT ![id] = r] /\ ~Doomed(id)
        /\ line' = [line EXCEPT ![q] = Tail(line[q])]
        /\ kept' = [kept EXCEPT ![q] = kept[q]]
        /\ IsNext(w, id)
    BY JobFacts DEF Begin, Dequeue, QueuesInv
  <1>2. /\ job[id].state = "waiting" /\ at[w] = "idle" /\ q = ServedBy[w]
        /\ Tail(line[q]) \in Seq(Jobs) /\ IsInjective(Tail(line[q]))
        /\ Range(Tail(line[q])) = InState(q, "waiting") \ {id}
    BY <1>1, HeadOfLine
  <1>3. /\ r \in AnyRecord /\ r.state = "active" /\ r.owner = w
        /\ r.made = job[id].made /\ r.stalls = job[id].stalls
    BY JobFacts DEF AnyRecord, States
  <1>4. \A x \in Jobs : job'[x] = IF x = id THEN r ELSE job[x]
    BY <1>1 DEF QueuesInv
  <1> HIDE DEF r
  <1>5. CountsRight(id, r)
    BY <1>1, <1>2, <1>3, JobFacts DEF CountsRight, Doomed, AnyRecord
  <1>6. /\ Range(Tail(line[q])) = After(q, "waiting", id, r)
        /\ kept[q] \in Seq(Jobs) /\ IsInjective(kept[q])
        /\ Range(kept[q]) = After(q, "completed", id, r)
    <2>1. id \notin InState(q, "completed")
      BY <1>2 DEF InState
    <2>2. /\ kept[q] \in Seq(Jobs) /\ IsInjective(kept[q])
          /\ Range(kept[q]) = InState(q, "completed")
      BY JobFacts
    <2> QED BY <1>2, <1>3, <2>1, <2>2 DEF After
  <1>7. QueuesInv'
    BY <1>1, <1>2, <1>3, <1>5, <1>6, OneJobChanges
  <1> QED BY <1>2, <1>3, <1>4, <1>7

LEMMA GiveUpInv ==
  ASSUME QueuesInv, NEW w \in Workers, NEW id \in Jobs, GiveUp(w, id)
  PROVE  /\ QueuesInv'
         /\ job[id].state = "waiting" /\ Doomed(id)
         /\ job[id].made < AttemptsOf[QueueOf[id]]
         /\ job'[id].state = "failed"
         /\ job'[id].made = job[id].made + 1 /\ job'[id].stalls = job[id].stalls
         /\ \A x \in Jobs : x # id => job'[x] = job[x]
  <1> DEFINE n == job[id].made + 1
             r == [job[id] EXCEPT !.state = "failed", !.made = n]
             q == QueueOf[id]
  <1>1. /\ job' = [job EXCEPT ![id] = r] /\ Doomed(id)
        /\ line' = [line EXCEPT ![q] = Tail(line[q])]
        /\ kept' = [kept EXCEPT ![q] = kept[q]]
        /\ IsNext(w, id)
    BY JobFacts DEF GiveUp, Dequeue, QueuesInv
  <1>2. /\ job[id].state = "waiting"
        /\ Tail(line[q]) \in Seq(Jobs) /\ IsInjective(Tail(line[q]))
        /\ Range(Tail(line[q])) = InState(q, "waiting") \ {id}
    BY <1>1, HeadOfLine
  <1>b. job[id].made \in Nat /\ n \in Nat
    BY JobFacts DEF AnyRecord
  <1>3. /\ r \in AnyRecord /\ r.state = "failed"
        /\ r.made = n /\ r.stalls = job[id].stalls
    <2> HIDE DEF n
    <2> QED BY <1>b, JobFacts DEF AnyRecord, States
  <1>4. \A x \in Jobs : job'[x] = IF x = id THEN r ELSE job[x]
    BY <1>1 DEF QueuesInv
  <1> HIDE DEF r
  <1>5. CountsRight(id, r) /\ job[id].made < AttemptsOf[q]
    BY <1>1, <1>2, <1>3, <1>b, JobFacts DEF CountsRight, Doomed, AnyRecord
  <1>6. /\ Range(Tail(line[q])) = After(q, "waiting", id, r)
        /\ kept[q] \in Seq(Jobs) /\ IsInjective(kept[q])
        /\ Range(kept[q]) = After(q, "completed", id, r)
    <2>1. id \notin InState(q, "completed")
      BY <1>2 DEF InState
    <2>2. /\ kept[q] \in Seq(Jobs) /\ IsInjective(kept[q])
          /\ Range(kept[q]) = InState(q, "completed")
      BY JobFacts
    <2> QED BY <1>2, <1>3, <2>1, <2>2 DEF After
  <1>7. QueuesInv'
    BY <1>1, <1>2, <1>3, <1>5, <1>6, OneJobChanges
  <1> QED BY <1>1, <1>2, <1>3, <1>4, <1>5, <1>7

(* The ends of an attempt.                                                 *)
LEMMA FailInv ==
  ASSUME QueuesInv, NEW w, NEW id \in Jobs, id = cur[w],
         job[id].state = "active", Fail(w)
  PROVE  /\ QueuesInv'
         /\ job[id].made < AttemptsOf[QueueOf[id]]
         /\ job'[id].state = IF LastAttempt(id) THEN "failed" ELSE "delayed"
         /\ job'[id].made = job[id].made + 1 /\ job'[id].stalls = job[id].stalls
         /\ \A x \in Jobs : x # id => job'[x] = job[x]
  <1> DEFINE n == job[id].made + 1
             r == [job[id] EXCEPT
                    !.state = IF LastAttempt(id) THEN "failed" ELSE "delayed",
                    !.made = n, !.owner = None]
             q == QueueOf[id]
  <1>1. /\ job' = [job EXCEPT ![id] = r]
        /\ line' = [line EXCEPT ![q] = line[q]]
        /\ kept' = [kept EXCEPT ![q] = kept[q]]
    BY JobFacts DEF Fail, QueuesInv
  <1>2. job[id] \in AnyRecord /\ CountsRight(id, job[id]) /\ AttemptsOf[q] \in Nat
    BY JobFacts
  <1>3. /\ job[id].made \in Nat /\ n \in Nat /\ job[id].made < AttemptsOf[q]
        /\ LastAttempt(id) => n = AttemptsOf[q]
        /\ ~LastAttempt(id) => n < AttemptsOf[q]
    BY <1>2 DEF AnyRecord, CountsRight, LastAttempt
  <1>4. /\ r \in AnyRecord /\ r.made = n /\ r.stalls = job[id].stalls
        /\ r.state = IF LastAttempt(id) THEN "failed" ELSE "delayed"
    <2> HIDE DEF n
    <2> QED BY <1>2, <1>3 DEF AnyRecord, States
  <1>5. \A x \in Jobs : job'[x] = IF x = id THEN r ELSE job[x]
    BY <1>1 DEF QueuesInv
  <1> HIDE DEF r, n
  <1>6. r.state \in {"failed", "delayed"}
    BY <1>4
  <1>7. CountsRight(id, r)
    BY <1>2, <1>3, <1>4, <1>6 DEF CountsRight, AnyRecord
  <1>8. /\ line[q] \in Seq(Jobs) /\ IsInjective(line[q])
        /\ Range(line[q]) = After(q, "waiting", id, r)
        /\ kept[q] \in Seq(Jobs) /\ IsInjective(kept[q])
        /\ Range(kept[q]) = After(q, "completed", id, r)
    <2>1. id \notin InState(q, "completed") /\ id \notin InState(q, "waiting")
      BY DEF InState
    <2>2. /\ line[q] \in Seq(Jobs) /\ IsInjective(line[q])
          /\ Range(line[q]) = InState(q, "waiting")
          /\ kept[q] \in Seq(Jobs) /\ IsInjective(kept[q])
          /\ Range(kept[q]) = InState(q, "completed")
      BY JobFacts
    <2> QED BY <1>6, <2>1, <2>2 DEF After
  <1>9. QueuesInv'
    BY <1>1, <1>4, <1>7, <1>8, OneJobChanges
  <1> QED BY <1>3, <1>4, <1>5, <1>9 DEF n

(* Retention drops the oldest completed job, which may be the new one,     *)
(* and none where it has room for all.                                     *)
KeepsAll(q) == IsFiniteSet(JobsOf(q)) /\ KeepOf[q] >= Cardinality(JobsOf(q))

LEMMA CompleteInv ==
  ASSUME QueuesInv, NEW w, NEW id \in Jobs, id = cur[w],
         job[id].state = "active", Complete(w)
  PROVE  /\ QueuesInv'
         /\ \/ job'[id] = NoJob
            \/ /\ job'[id].state = "completed"
               /\ job'[id].made = job[id].made /\ job'[id].stalls = job[id].stalls
         /\ \A x \in Jobs : x # id =>
               \/ job'[x] = job[x]
               \/ /\ job[x].state = "completed" /\ QueueOf[x] = QueueOf[id]
                  /\ job'[x] = NoJob
         /\ KeepsAll(QueueOf[id]) => /\ job'[id].state = "completed"
                                     /\ \A x \in Jobs : x # id => job'[x] = job[x]
  <1> DEFINE q == QueueOf[id]
             r == [job[id] EXCEPT !.state = "completed", !.owner = None]
             done == [job EXCEPT ![id] = r]
             all == Append(kept[q], id)
             Full == Len(all) > KeepOf[q]
  <1>1. /\ Full => /\ job' = [done EXCEPT ![Head(all)] = NoJob]
                   /\ kept' = [kept EXCEPT ![q] = Tail(all)]
        /\ ~Full => job' = done /\ kept' = [kept EXCEPT ![q] = all]
        /\ line' = [line EXCEPT ![q] = line[q]]
    BY JobFacts DEF Complete, QueuesInv
  <1>2. /\ job[id] \in AnyRecord /\ CountsRight(id, job[id])
        /\ q \in Queues /\ id \in JobsOf(q)
        /\ line[q] \in Seq(Jobs) /\ IsInjective(line[q])
        /\ Range(line[q]) = InState(q, "waiting")
        /\ kept[q] \in Seq(Jobs) /\ IsInjective(kept[q])
        /\ Range(kept[q]) = InState(q, "completed")
        /\ id \notin InState(q, "completed") /\ id \notin InState(q, "waiting")
    BY JobFacts
  <1>3. /\ r \in AnyRecord /\ r.state = "completed"
        /\ r.made = job[id].made /\ r.stalls = job[id].stalls
    BY <1>2 DEF AnyRecord, States
  <1>4. /\ done \in [Jobs -> AnyRecord]
        /\ \A x \in Jobs : done[x] = IF x = id THEN r ELSE job[x]
    BY <1>3 DEF QueuesInv
  <1>5. /\ all \in Seq(Jobs) /\ IsInjective(all) /\ all # <<>>
        /\ Range(all) = InState(q, "completed") \cup {id}
    <2>1. all \in Seq(Jobs) /\ IsInjective(all) /\ Range(all) = Range(kept[q]) \cup {id}
      BY <1>2, AppendNew
    <2>2. all # <<>>
      BY <2>1 DEF Range
    <2> QED BY <1>2, <2>1, <2>2
  <1>6. CountsRight(id, r)
    BY <1>2, <1>3 DEF CountsRight
  <1>7. KeepsAll(q) => ~Full
    <2> SUFFICES ASSUME KeepsAll(q) PROVE ~Full
      OBVIOUS
    <2>1. id \in JobsOf(q) /\ id \notin Range(kept[q])
      BY <1>2
    <2>2. kept[q] \in Seq(JobsOf(q))
      <3>1. Range(kept[q]) \subseteq JobsOf(q)
        BY <1>2 DEF InState
      <3>2. \A i \in 1..Len(kept[q]) : kept[q][i] \in JobsOf(q)
        BY <1>2, <3>1 DEF Range
      <3> QED BY <1>2, <3>2
    <2>3. /\ Len(kept[q]) + 1 <= Cardinality(JobsOf(q))
          /\ Cardinality(JobsOf(q)) \in Nat
      <3> DEFINE s == kept[q]
      <3> HIDE DEF s
      <3>1. s \in Seq(JobsOf(q)) /\ IsInjective(s) /\ id \notin Range(s)
        BY <1>2, <2>1, <2>2 DEF s
      <3>2. /\ Len(s) + 1 <= Cardinality(JobsOf(q))
            /\ Cardinality(JobsOf(q)) \in Nat
        BY <2>1, <3>1, RoomForOneMore DEF KeepsAll
      <3> QED BY <3>2 DEF s
    <2>4. Len(all) = Len(kept[q]) + 1 /\ Len(kept[q]) \in Nat
      BY <1>2
    <2>5. KeepOf[q] \in Nat /\ KeepOf[q] >= Cardinality(JobsOf(q))
      BY JobFacts DEF KeepsAll
    <2> HIDE DEF all
    <2> QED BY <2>3, <2>4, <2>5
  <1> HIDE DEF r, done, all, Full
  <1>8. CASE ~Full
    <2>1. \A x \in Jobs : job'[x] = IF x = id THEN r ELSE job[x]
      BY <1>1, <1>4, <1>8
    <2>2. job' = [job EXCEPT ![id] = r] /\ kept' = [kept EXCEPT ![q] = all]
      BY <1>1, <1>8 DEF done
    <2>3. /\ Range(line[q]) = After(q, "waiting", id, r)
          /\ Range(all) = After(q, "completed", id, r)
      BY <1>2, <1>3, <1>5 DEF After
    <2>4. QueuesInv'
      BY <1>1, <1>2, <1>3, <1>5, <1>6, <2>2, <2>3, OneJobChanges
    <2> QED BY <1>3, <2>1, <2>4
  <1>9. CASE Full
    <2> DEFINE old == Head(all)
    <2>1. /\ old \in Jobs /\ Tail(all) \in Seq(Jobs) /\ IsInjective(Tail(all))
          /\ Range(Tail(all)) = Range(all) \ {old} /\ old \in Range(all)
      BY <1>5, TakeFirst
    <2> HIDE DEF old
    <2>2. /\ NoJob \in AnyRecord /\ NoJob.state = "absent"
          /\ NoJob.made = 0 /\ NoJob.stalls = 0
      BY DEF NoJob, AnyRecord, States
    <2>3. /\ job' \in [Jobs -> AnyRecord]
          /\ \A x \in Jobs : job'[x] = IF x = old THEN NoJob
                                       ELSE IF x = id THEN r ELSE job[x]
      BY <1>1, <1>4, <1>9, <2>1, <2>2 DEF old
    <2>4. old = id \/ (old \in JobsOf(q) /\ job[old].state = "completed")
      BY <1>5, <2>1 DEF InState
    <2>5. old \in JobsOf(q) /\ old \notin InState(q, "waiting")
      BY <1>2, <2>4 DEF InState
    <2>6. \A x \in Jobs : QueueOf[x] # q => job'[x] = job[x]
      BY <2>3, <2>5 DEF JobsOf
    <2>7. CountsRight(old, NoJob)
      BY <2>1, <2>2, JobFacts DEF CountsRight
    <2>8. \A x \in JobsOf(q) : CountsRight(x, job'[x])
      BY <1>6, <2>3, <2>7 DEF QueuesInv, JobsOf
    <2>9. /\ InState(q, "waiting")' = InState(q, "waiting")
          /\ InState(q, "completed")' =
               (InState(q, "completed") \cup {id}) \ {old}
      <3>1. InState(q, "waiting")' = InState(q, "waiting")
        BY <1>2, <1>3, <2>2, <2>3, <2>5 DEF InState, JobsOf
      <3>2. InState(q, "completed")' = (InState(q, "completed") \cup {id}) \ {old}
        BY <1>2, <1>3, <2>2, <2>3 DEF InState, JobsOf
      <3> QED BY <3>1, <3>2
    <2>10. IsInjective(Tail(all)) /\ Range(Tail(all)) = InState(q, "completed")'
      BY <1>5, <2>1, <2>9
    <2>11. kept' = [kept EXCEPT ![q] = Tail(all)]
      BY <1>1, <1>9
    <2>12. QueuesInv'
      <3> DEFINE k == Tail(all)
                 l == line[q]
      <3>1. l \in Seq(Jobs) /\ line' = [line EXCEPT ![q] = l]
            /\ IsInjective(l) /\ Range(l) = InState(q, "waiting")'
        BY <1>1, <1>2, <2>9
      <3>2. /\ k \in Seq(Jobs) /\ kept' = [kept EXCEPT ![q] = k]
            /\ IsInjective(k) /\ Range(k) = InState(q, "completed")'
        BY <2>1, <2>10, <2>11
      <3> HIDE DEF k, l
      <3> QED BY <1>2, <2>3, <2>6, <2>8, <3>1, <3>2, QueueChanges
    <2>13. \A x \in Jobs : x # id => \/ job'[x] = job[x]
                                    \/ /\ job[x].state = "completed"
                                       /\ QueueOf[x] = q /\ job'[x] = NoJob
      BY <2>3, <2>4 DEF JobsOf
    <2> QED BY <1>2, <1>3, <1>7, <1>9, <2>3, <2>12, <2>13
  <1> QED BY <1>8, <1>9

(* A processor tells its queue how the attempt ended; the job has another  *)
(* owner by then, if the lock was lost.                                    *)
LEMMA EndInv ==
  ASSUME ProcessorsInv, NEW w \in Workers, NEW id, id = cur[w], End(w)
  PROVE  /\ QueuesInv'
         /\ id \in Jobs /\ at[w] \in {"returned", "threw"}
         /\ ~HoldsLock(w, id) => job' = job
         /\ HoldsLock(w, id) /\ at[w] = "returned" =>
              /\ \/ job'[id] = NoJob
                 \/ /\ job'[id].state = "completed"
                    /\ job'[id].made = job[id].made
                    /\ job'[id].stalls = job[id].stalls
              /\ \A x \in Jobs : x # id =>
                    \/ job'[x] = job[x]
                    \/ /\ job[x].state = "completed" /\ QueueOf[x] = QueueOf[id]
                       /\ job'[x] = NoJob
              /\ KeepsAll(QueueOf[id]) =>
                    /\ job'[id].state = "completed"
                    /\ \A x \in Jobs : x # id => job'[x] = job[x]
         /\ HoldsLock(w, id) /\ at[w] = "threw" =>
              /\ job[id].made < AttemptsOf[QueueOf[id]]
              /\ job'[id].state = IF LastAttempt(id) THEN "failed" ELSE "delayed"
              /\ job'[id].made = job[id].made + 1
              /\ job'[id].stalls = job[id].stalls
              /\ \A x \in Jobs : x # id => job'[x] = job[x]
  <1>1. QueuesInv /\ id \in Jobs /\ at[w] \in {"returned", "threw"}
    BY DEF ProcessorsInv, Busy, End
  <1>2. CASE ~HoldsLock(w, id)
    <2>1. job' = job /\ line' = line /\ kept' = kept
      BY <1>2 DEF End, queues
    <2> QED BY <1>1, <1>2, <2>1 DEF QueuesInv, ListsJust, InState
  <1>3. CASE HoldsLock(w, id) /\ at[w] = "returned"
    <2>1. Complete(w) /\ job[id].state = "active"
      BY <1>3 DEF End, HoldsLock
    <2> HIDE DEF KeepsAll
    <2> QED BY <1>1, <1>3, <2>1, CompleteInv
  <1>4. CASE HoldsLock(w, id) /\ at[w] = "threw"
    <2>1. Fail(w) /\ job[id].state = "active"
      BY <1>4 DEF End, HoldsLock
    <2> QED BY <1>1, <1>4, <2>1, FailInv
  <1> QED BY <1>1, <1>2, <1>3, <1>4

(* The timers: a backoff that is over, a lock that expired.                *)
LEMMA TimerInv ==
  ASSUME QueuesInv, NEW id \in Jobs, Timer(id)
  PROVE  /\ QueuesInv'
         /\ job'[id].state = "waiting" /\ job'[id].made = job[id].made
         /\ \/ job[id].state = "delayed" /\ job'[id].stalls = job[id].stalls
            \/ job[id].state = "active" /\ job'[id].stalls = job[id].stalls + 1
         /\ \A x \in Jobs : x # id => job'[x] = job[x]
  <1> DEFINE q == QueueOf[id]
  <1>1. /\ job[id] \in AnyRecord /\ CountsRight(id, job[id])
        /\ q \in Queues /\ id \in JobsOf(q)
        /\ line[q] \in Seq(Jobs) /\ IsInjective(line[q])
        /\ Range(line[q]) = InState(q, "waiting")
        /\ kept[q] \in Seq(Jobs) /\ IsInjective(kept[q])
        /\ Range(kept[q]) = InState(q, "completed")
        /\ MaxStalls \in Nat
    BY JobFacts
  <1>2. CASE Promote(id)
    <2> DEFINE r == [job[id] EXCEPT !.state = "waiting"]
               l == Append(line[q], id)
    <2>1. /\ job[id].state = "delayed" /\ job' = [job EXCEPT ![id] = r]
          /\ line' = [line EXCEPT ![q] = l]
          /\ kept' = [kept EXCEPT ![q] = kept[q]]
      BY <1>2, JobFacts DEF Timer, Promote, QueuesInv
    <2>2. /\ r \in AnyRecord /\ r.state = "waiting"
          /\ r.made = job[id].made /\ r.stalls = job[id].stalls
      BY <1>1 DEF AnyRecord, States
    <2>3. \A x \in Jobs : job'[x] = IF x = id THEN r ELSE job[x]
      BY <2>1 DEF QueuesInv
    <2> HIDE DEF r
    <2>4. CountsRight(id, r)
      BY <1>1, <2>1, <2>2 DEF CountsRight
    <2>5. id \notin InState(q, "waiting") /\ id \notin InState(q, "completed")
      BY <2>1 DEF InState
    <2>6. /\ l \in Seq(Jobs) /\ IsInjective(l)
          /\ Range(l) = InState(q, "waiting") \cup {id}
      BY <1>1, <2>5, AppendNew
    <2> HIDE DEF l
    <2>7. /\ Range(l) = After(q, "waiting", id, r)
          /\ Range(kept[q]) = After(q, "completed", id, r)
      BY <1>1, <2>2, <2>5, <2>6 DEF After
    <2>8. QueuesInv'
      BY <1>1, <2>1, <2>2, <2>4, <2>6, <2>7, OneJobChanges
    <2> QED BY <2>1, <2>2, <2>3, <2>8
  <1>3. CASE Stall(id)
    <2> DEFINE n == job[id].stalls + 1
               r == [job[id] EXCEPT !.state = "waiting", !.owner = None,
                                    !.stalls = n]
               l == <<id>> \o line[q]
    <2>1. /\ job[id].state = "active" /\ job' = [job EXCEPT ![id] = r]
          /\ line' = [line EXCEPT ![q] = l]
          /\ kept' = [kept EXCEPT ![q] = kept[q]]
      BY <1>3, JobFacts DEF Timer, Stall, QueuesInv
    <2>b. n \in Nat /\ n <= MaxStalls + 1
      BY <1>1, <2>1 DEF AnyRecord, CountsRight
    <2>2. /\ r \in AnyRecord /\ r.state = "waiting"
          /\ r.made = job[id].made /\ r.stalls = n
      <3> HIDE DEF n
      <3> QED BY <1>1, <2>b DEF AnyRecord, States
    <2>3. \A x \in Jobs : job'[x] = IF x = id THEN r ELSE job[x]
      BY <2>1 DEF QueuesInv
    <2> HIDE DEF r
    <2>4. CountsRight(id, r)
      BY <1>1, <2>1, <2>2, <2>b DEF CountsRight
    <2>5. id \notin InState(q, "waiting") /\ id \notin InState(q, "completed")
      BY <2>1 DEF InState
    <2>6. /\ l \in Seq(Jobs) /\ IsInjective(l)
          /\ Range(l) = InState(q, "waiting") \cup {id}
      BY <1>1, <2>5, PutFirst
    <2> HIDE DEF l
    <2>7. /\ Range(l) = After(q, "waiting", id, r)
          /\ Range(kept[q]) = After(q, "completed", id, r)
      BY <1>1, <2>2, <2>5, <2>6 DEF After
    <2>8. QueuesInv'
      BY <1>1, <2>1, <2>2, <2>4, <2>6, <2>7, OneJobChanges
    <2> QED BY <2>1, <2>2, <2>3, <2>8
  <1> QED BY <1>2, <1>3 DEF Timer

(* No step disturbs what the attempts of the processors rely on.           *)
LEMMA BusyStep ==
  ASSUME ProcessorsInv, ProcessorsNext
  PROVE  Busy'
  <1> USE DEF ProcessorsInv, Busy
  <1>1. CASE MoveStep
    <2>1. CASE UNCHANGED at
      BY <1>1, <2>1 DEF MoveStep
    <2>2. ASSUME NEW w \in Workers, NEW place \in Places,
                 at[w] # "idle", place # "idle", GoTo(w, place)
          PROVE  Busy'
      BY <1>1, <2>2 DEF MoveStep, GoTo
    <2> QED BY <1>1, <2>1, <2>2 DEF MoveStep
  <1>2. ASSUME NEW w \in Workers, NEW id \in Jobs, NEW place \in Places,
               place # "idle", Begin(w, id, place)
        PROVE  Busy'
    <2>1. QueueOf[id] = ServedBy[w]
      BY <1>2, BeginInv
    <2> QED BY <1>2, <2>1 DEF Begin, GoTo
  <1>3. ASSUME NEW w \in Workers, NEW id \in Jobs, GiveUp(w, id)
        PROVE  Busy'
    BY <1>3 DEF GiveUp, attempts
  <1>4. ASSUME NEW w \in Workers, End(w)
        PROVE  Busy'
    BY <1>4, ProcessorsAssumption DEF End, Forget, GoTo
  <1>5. ASSUME NEW id \in Jobs, Timer(id)
        PROVE  Busy'
    BY <1>5 DEF Timer, attempts
  <1>6. ASSUME NEW ws \in SUBSET Workers, Crash(ws)
        PROVE  Busy'
    BY <1>6, ProcessorsAssumption DEF Crash
  <1> HIDE DEF ProcessorsInv, Busy
  <1> QED BY <1>1, <1>2, <1>3, <1>4, <1>5, <1>6 DEF ProcessorsNext

LEMMA ProcessorsStepInv ==
  ProcessorsInv /\ [ProcessorsNext]_<<queues, attempts, faults>> => ProcessorsInv'
  <1> SUFFICES ASSUME ProcessorsInv, [ProcessorsNext]_<<queues, attempts, faults>>
               PROVE  ProcessorsInv'
    OBVIOUS
  <1>1. QueuesInv /\ Busy /\ faults \in 0..MaxFaults
    BY DEF ProcessorsInv
  <1>2. UNCHANGED queues => QueuesInv'
    <2> SUFFICES ASSUME UNCHANGED queues PROVE QueuesInv'
      OBVIOUS
    <2>1. job' = job /\ line' = line /\ kept' = kept
      BY DEF queues
    <2> QED BY <1>1, <2>1 DEF QueuesInv, ListsJust, InState
  <1>3. CASE UNCHANGED <<queues, attempts, faults>>
    BY <1>1, <1>2, <1>3 DEF attempts, Busy, ProcessorsInv
  <1>4. CASE ProcessorsNext
    <2>1. QueuesInv'
      <3>1. CASE AddStep
        BY <1>1, <1>2, <3>1, EnqueueInv DEF AddStep
      <3>2. ASSUME NEW w \in Workers, NEW id \in Jobs, NEW place, Begin(w, id, place)
            PROVE  QueuesInv'
        BY <1>1, <3>2, BeginInv
      <3>3. ASSUME NEW w \in Workers, NEW id \in Jobs, GiveUp(w, id)
            PROVE  QueuesInv'
        BY <1>1, <3>3, GiveUpInv
      <3>4. ASSUME NEW w \in Workers, End(w) PROVE QueuesInv'
        BY <3>4, EndInv
      <3>5. ASSUME NEW id \in Jobs, Timer(id) PROVE QueuesInv'
        BY <1>1, <3>5, TimerInv
      <3>6. ASSUME NEW ws, Crash(ws) PROVE QueuesInv'
        BY <1>2, <3>6 DEF Crash
      <3> QED BY <1>4, <3>1, <3>2, <3>3, <3>4, <3>5, <3>6 DEF ProcessorsNext
    <2>2. faults' \in 0..MaxFaults
      <3>1. Mishap => faults' \in 0..MaxFaults
        BY <1>1, ProcessorsAssumption DEF Mishap
      <3>2. UNCHANGED faults \/ Mishap
        BY <1>4 DEF ProcessorsNext, FaultStep, Begin, GiveUp, End, Timer, Crash
      <3> QED BY <1>1, <3>1, <3>2
    <2> QED BY <1>4, <2>1, <2>2, BusyStep DEF ProcessorsInv
  <1> QED BY <1>3, <1>4

-----------------------------------------------------------------------------
(* What the operations do, as the proofs about certain processors cite it. *)
LEMMA TryEnqueueEffect ==
  ASSUME QueuesInv, NEW id \in Jobs, NEW o, TryEnqueue(id, o)
  PROVE  /\ \A x \in Jobs : x # id => job'[x] = job[x]
         /\ job[id].state # "absent" => job'[id] = job[id]
         /\ job[id].state = "absent" =>
              \/ job'[id] = job[id]
              \/ /\ job'[id].state = "waiting"
                 /\ job'[id].made = 0 /\ job'[id].stalls = 0
         /\ o # "lost" => job'[id].state # "absent"
  <1>1. CASE o = "lost"
    <2>1. job' = job
      BY <1>1 DEF TryEnqueue, queues
    <2> QED BY <1>1, <2>1
  <1>2. CASE o # "lost"
    <2>1. \A x \in Jobs : job'[x] =
             IF x = id /\ job[id].state = "absent"
             THEN [NoJob EXCEPT !.state = "waiting"] ELSE job[x]
      BY <1>2, EnqueueInv DEF TryEnqueue
    <2> DEFINE r == [NoJob EXCEPT !.state = "waiting"]
    <2>2. r.state = "waiting" /\ r.made = 0 /\ r.stalls = 0
      BY DEF NoJob
    <2> HIDE DEF r
    <2>3. \A x \in Jobs : job'[x] = IF x = id /\ job[id].state = "absent"
                                    THEN r ELSE job[x]
      BY <2>1 DEF r
    <2> QED BY <2>2, <2>3
  <1> QED BY <1>1, <1>2

LEMMA MoveEffect ==
  ASSUME Busy, NEW w \in Workers, NEW place, GoTo(w, place)
  PROVE  \A v \in Workers : at'[v] = IF v = w THEN place ELSE at[v]
  BY DEF Busy, GoTo

LEMMA BeginEffect ==
  ASSUME Busy, NEW w \in Workers, NEW id, NEW place, Begin(w, id, place)
  PROVE  /\ \A v \in Workers : at'[v] = IF v = w THEN place ELSE at[v]
         /\ \A v \in Workers : cur'[v] = IF v = w THEN id ELSE cur[v]
         /\ UNCHANGED faults
  BY DEF Busy, Begin, GoTo

LEMMA EndEffect ==
  ASSUME Busy, NEW w \in Workers, End(w)
  PROVE  /\ \A v \in Workers : at'[v] = IF v = w THEN "idle" ELSE at[v]
         /\ \A v \in Workers : cur'[v] = IF v = w THEN None ELSE cur[v]
         /\ UNCHANGED faults
  BY DEF Busy, End, Forget, GoTo

(* In a queue that has room for all its jobs, what was added remains.      *)
LEMMA AddedStays ==
  ASSUME ProcessorsInv, [ProcessorsNext]_<<queues, attempts, faults>>,
         NEW id \in Jobs, KeepsAll(QueueOf[id]), job[id].state # "absent"
  PROVE  job'[id].state # "absent"
  <1>1. QueuesInv
    BY DEF ProcessorsInv
  <1>2. CASE UNCHANGED queues
    BY <1>2 DEF queues
  <1>3. ASSUME NEW x \in Jobs, Enqueue(x) PROVE job'[id].state # "absent"
    <2>1. job'[id] = job[id]
      BY <1>1, <1>3, EnqueueInv
    <2> QED BY <2>1
  <1>4. ASSUME NEW w \in Workers, NEW x \in Jobs, NEW place, Begin(w, x, place)
        PROVE  job'[id].state # "absent"
    BY <1>1, <1>4, BeginInv
  <1>5. ASSUME NEW w \in Workers, NEW x \in Jobs, GiveUp(w, x)
        PROVE  job'[id].state # "absent"
    BY <1>1, <1>5, GiveUpInv
  <1>6. ASSUME NEW w \in Workers, End(w) PROVE job'[id].state # "absent"
    <2> HIDE DEF KeepsAll
    <2> DEFINE x == cur[w]
    <2>1. x \in Jobs /\ at[w] \in {"returned", "threw"}
      BY <1>6, EndInv
    <2>2. CASE ~HoldsLock(w, x)
      BY <1>6, <2>2, EndInv
    <2>3. CASE HoldsLock(w, x) /\ at[w] = "threw"
      <3>1. job'[x].state # "absent" /\ \A y \in Jobs : y # x => job'[y] = job[y]
        BY <1>6, <2>3, EndInv
      <3> QED BY <3>1
    <2>4. CASE HoldsLock(w, x) /\ at[w] = "returned"
      <3>1. KeepsAll(QueueOf[x]) =>
              /\ job'[x].state = "completed"
              /\ \A y \in Jobs : y # x => job'[y] = job[y]
        BY <1>6, <2>4, EndInv
      <3>2. \A y \in Jobs : y # x => job'[y] = job[y] \/ QueueOf[y] = QueueOf[x]
        BY <1>6, <2>4, EndInv
      <3> QED BY <3>1, <3>2
    <2> QED BY <2>1, <2>2, <2>3, <2>4
  <1>7. ASSUME NEW x \in Jobs, Timer(x) PROVE job'[id].state # "absent"
    BY <1>1, <1>7, TimerInv
  <1> QED BY <1>2, <1>3, <1>4, <1>5, <1>6, <1>7 DEF ProcessorsNext, AddStep, Crash

-----------------------------------------------------------------------------
(* Each queue on its own is a JobQueue: an operation on one of its jobs is *)
(* that operation there, and it leaves the other queues alone.             *)
Unmoved(q) == UNCHANGED J(q)!queueVars

Behaves(q) == Unmoved(q) \/ J(q)!QueueNext

LEMMA StaysAsItIs ==
  ASSUME QueuesInv, NEW p \in Queues,
         \A x \in JobsOf(p) : job'[x] = job[x],
         line'[p] = line[p], kept'[p] = kept[p]
  PROVE  Unmoved(p)
  <1>1. [x \in JobsOf(p) |-> job[x]]' = [x \in JobsOf(p) |-> job[x]]
    OBVIOUS
  <1> QED BY <1>1 DEF Unmoved, J!queueVars

(* What an operation on a job of q does to the records of q.               *)
LEMMA RecordsOfQueue ==
  ASSUME QueuesInv, NEW q \in Queues, NEW id \in JobsOf(q), NEW r,
         job' = [job EXCEPT ![id] = r]
  PROVE  [x \in JobsOf(q) |-> job[x]]' =
           [[x \in JobsOf(q) |-> job[x]] EXCEPT ![id] = r]
  BY DEF QueuesInv, JobsOf

LEMMA OneQueueMoves ==
  ASSUME QueuesInv, NEW q \in Queues, J(q)!QueueNext,
         \A p \in Queues : p # q =>
           /\ \A x \in JobsOf(p) : job'[x] = job[x]
           /\ line'[p] = line[p] /\ kept'[p] = kept[p]
  PROVE  \A p \in Queues : Behaves(p)
  BY StaysAsItIs DEF Behaves

LEMMA EnqueueIsAdd ==
  ASSUME QueuesInv, NEW id \in Jobs, Enqueue(id)
  PROVE  \A p \in Queues : Behaves(p)
  <1> DEFINE q == QueueOf[id]
  <1>1. CASE job[id].state # "absent"
    <2>1. job' = job /\ line' = line /\ kept' = kept
      BY <1>1 DEF Enqueue, queues
    <2> QED BY <2>1, StaysAsItIs DEF Behaves
  <1>2. CASE job[id].state = "absent"
    <2>1. q \in Queues /\ id \in JobsOf(q)
      BY JobFacts
    <2>2. job' = [job EXCEPT ![id] = [NoJob EXCEPT !.state = "waiting"]]
      BY <1>2 DEF Enqueue
    <2>3. /\ line'[q] = Append(line[q], id) /\ kept'[q] = kept[q]
          /\ \A p \in Queues : p # q => line'[p] = line[p] /\ kept'[p] = kept[p]
      BY <1>2, <2>1 DEF Enqueue, QueuesInv
    <2>4. J(q)!Add(id)
      <3>1. [x \in JobsOf(q) |-> job[x]][id] = job[id]
        BY <2>1
      <3>2. [x \in JobsOf(q) |-> job[x]]' =
              [[x \in JobsOf(q) |-> job[x]] EXCEPT
                 ![id] = [NoJob EXCEPT !.state = "waiting"]]
        BY <2>1, <2>2, RecordsOfQueue
      <3>3. J(q)!NewJob = [NoJob EXCEPT !.state = "waiting"]
        BY DEF J!NewJob, J!NoJob, NoJob
      <3> QED BY <1>2, <2>3, <3>1, <3>2, <3>3 DEF J!Add
    <2>5. J(q)!QueueNext
      BY <2>1, <2>4 DEF J!QueueNext
    <2>6. \A p \in Queues : p # q => \A x \in JobsOf(p) : job'[x] = job[x]
      BY <2>2 DEF QueuesInv, JobsOf
    <2> QED BY <2>1, <2>3, <2>5, <2>6, OneQueueMoves
  <1> QED BY <1>1, <1>2

LEMMA BeginIsTake ==
  ASSUME QueuesInv, NEW w \in Workers, NEW id \in Jobs, NEW place, Begin(w, id, place)
  PROVE  \A p \in Queues : Behaves(p)
  <1> DEFINE q == QueueOf[id]
             r == [job[id] EXCEPT !.state = "active", !.owner = w]
             jobs == [x \in JobsOf(q) |-> job[x]]
  <1>1. q \in Queues /\ id \in JobsOf(q)
    BY JobFacts
  <1>2. job' = [job EXCEPT ![id] = r]
    BY DEF Begin, IsNext, Dequeue
  <1> HIDE DEF r
  <1>3. /\ line'[q] = Tail(line[q]) /\ kept'[q] = kept[q]
        /\ \A p \in Queues : p # q => line'[p] = line[p] /\ kept'[p] = kept[p]
    BY <1>1 DEF Begin, IsNext, Dequeue, QueuesInv
  <1>4. J(q)!Take(w, id)
    <2>1. jobs[id] = job[id]
      BY <1>1
    <2>2. jobs' = [jobs EXCEPT ![id] = r]
      BY <1>1, <1>2, RecordsOfQueue
    <2>3. J(q)!IsNext(id) /\ ~J(q)!Doomed(id)
      BY <2>1 DEF Begin, IsNext, Dequeue, J!IsNext, J!Doomed, Doomed
    <2> QED BY <1>1, <1>3, <2>1, <2>2, <2>3 DEF r, J!Take
  <1>5. J(q)!QueueNext
    BY <1>1, <1>4 DEF J!QueueNext, J!Serve
  <1>6. \A p \in Queues : p # q => \A x \in JobsOf(p) : job'[x] = job[x]
    BY <1>2 DEF QueuesInv, JobsOf
  <1> QED BY <1>1, <1>3, <1>5, <1>6, OneQueueMoves

LEMMA GiveUpIsGiveUp ==
  ASSUME QueuesInv, NEW w \in Workers, NEW id \in Jobs, GiveUp(w, id)
  PROVE  \A p \in Queues : Behaves(p)
  <1> DEFINE q == QueueOf[id]
             r == [job[id] EXCEPT !.state = "failed", !.made = job[id].made + 1]
             jobs == [x \in JobsOf(q) |-> job[x]]
  <1>1. q \in Queues /\ id \in JobsOf(q)
    BY JobFacts
  <1>2. job' = [job EXCEPT ![id] = r]
    BY DEF GiveUp, IsNext, Dequeue
  <1> HIDE DEF r
  <1>3. /\ line'[q] = Tail(line[q]) /\ kept'[q] = kept[q]
        /\ \A p \in Queues : p # q => line'[p] = line[p] /\ kept'[p] = kept[p]
    BY <1>1 DEF GiveUp, IsNext, Dequeue, QueuesInv
  <1>4. J(q)!GiveUp(id)
    <2>1. jobs[id] = job[id]
      BY <1>1
    <2>2. jobs' = [jobs EXCEPT ![id] = r]
      BY <1>1, <1>2, RecordsOfQueue
    <2>3. J(q)!IsNext(id) /\ J(q)!Doomed(id)
      BY <2>1 DEF GiveUp, IsNext, Dequeue, J!IsNext, J!Doomed, Doomed
    <2> QED BY <1>1, <1>3, <2>1, <2>2, <2>3 DEF r, J!GiveUp
  <1>5. J(q)!QueueNext
    BY <1>1, <1>4 DEF J!QueueNext, J!Serve
  <1>6. \A p \in Queues : p # q => \A x \in JobsOf(p) : job'[x] = job[x]
    BY <1>2 DEF QueuesInv, JobsOf
  <1> QED BY <1>1, <1>3, <1>5, <1>6, OneQueueMoves

LEMMA FailIsFail ==
  ASSUME QueuesInv, NEW w \in Workers, NEW id \in Jobs, id = cur[w],
         HoldsLock(w, id), Fail(w)
  PROVE  \A p \in Queues : Behaves(p)
  <1> DEFINE q == QueueOf[id]
             r == [job[id] EXCEPT !.state = IF LastAttempt(id) THEN "failed" ELSE "delayed",
                                  !.made = job[id].made + 1, !.owner = None]
             jobs == [x \in JobsOf(q) |-> job[x]]
  <1>1. q \in Queues /\ id \in JobsOf(q)
    BY JobFacts
  <1>2. job' = [job EXCEPT ![id] = r]
    BY DEF Fail
  <1> HIDE DEF r
  <1>3. /\ line'[q] = line[q] /\ kept'[q] = kept[q]
        /\ \A p \in Queues : p # q => line'[p] = line[p] /\ kept'[p] = kept[p]
    BY <1>1 DEF Fail, QueuesInv
  <1>4. J(q)!Fail(w, id)
    <2>1. jobs[id] = job[id]
      BY <1>1
    <2>2. jobs' = [jobs EXCEPT ![id] = r]
      BY <1>1, <1>2, RecordsOfQueue
    <2>3. J(q)!HoldsLock(w, id) /\ (J(q)!LastAttempt(id) <=> LastAttempt(id))
      BY <2>1 DEF Fail, J!HoldsLock, HoldsLock, J!LastAttempt, LastAttempt
    <2> QED BY <1>1, <1>3, <2>1, <2>2, <2>3 DEF r, J!Fail
  <1>5. J(q)!QueueNext
    BY <1>1, <1>4 DEF J!QueueNext, J!EndAttempt
  <1>6. \A p \in Queues : p # q => \A x \in JobsOf(p) : job'[x] = job[x]
    BY <1>2 DEF QueuesInv, JobsOf
  <1> QED BY <1>1, <1>3, <1>5, <1>6, OneQueueMoves

LEMMA PromoteIsPromote ==
  ASSUME QueuesInv, NEW id \in Jobs, Promote(id), UNCHANGED kept
  PROVE  \A p \in Queues : Behaves(p)
  <1> DEFINE q == QueueOf[id]
             r == [job[id] EXCEPT !.state = "waiting"]
             jobs == [x \in JobsOf(q) |-> job[x]]
  <1>1. q \in Queues /\ id \in JobsOf(q)
    BY JobFacts
  <1>2. job' = [job EXCEPT ![id] = r]
    BY DEF Promote
  <1> HIDE DEF r
  <1>3. /\ line'[q] = Append(line[q], id) /\ kept'[q] = kept[q]
        /\ \A p \in Queues : p # q => line'[p] = line[p] /\ kept'[p] = kept[p]
    BY <1>1 DEF Promote, QueuesInv
  <1>4. J(q)!Promote(id)
    <2>1. jobs[id] = job[id]
      BY <1>1
    <2>2. jobs' = [jobs EXCEPT ![id] = r]
      BY <1>1, <1>2, RecordsOfQueue
    <2>3. jobs[id].state = "delayed"
      BY <2>1 DEF Promote
    <2> QED BY <1>1, <1>3, <2>1, <2>2, <2>3 DEF r, J!Promote
  <1>5. J(q)!QueueNext
    BY <1>1, <1>4 DEF J!QueueNext
  <1>6. \A p \in Queues : p # q => \A x \in JobsOf(p) : job'[x] = job[x]
    BY <1>2 DEF QueuesInv, JobsOf
  <1> QED BY <1>1, <1>3, <1>5, <1>6, OneQueueMoves

LEMMA StallIsStall ==
  ASSUME QueuesInv, NEW id \in Jobs, Stall(id), UNCHANGED kept
  PROVE  \A p \in Queues : Behaves(p)
  <1> DEFINE q == QueueOf[id]
             r == [job[id] EXCEPT !.state = "waiting", !.owner = None,
                                  !.stalls = job[id].stalls + 1]
             jobs == [x \in JobsOf(q) |-> job[x]]
  <1>1. q \in Queues /\ id \in JobsOf(q)
    BY JobFacts
  <1>2. job' = [job EXCEPT ![id] = r]
    BY DEF Stall
  <1> HIDE DEF r
  <1>3. /\ line'[q] = <<id>> \o line[q] /\ kept'[q] = kept[q]
        /\ \A p \in Queues : p # q => line'[p] = line[p] /\ kept'[p] = kept[p]
    BY <1>1 DEF Stall, QueuesInv
  <1>4. J(q)!Stall(id)
    <2>1. jobs[id] = job[id]
      BY <1>1
    <2>2. jobs' = [jobs EXCEPT ![id] = r]
      BY <1>1, <1>2, RecordsOfQueue
    <2>3. jobs[id].state = "active"
      BY <2>1 DEF Stall
    <2> QED BY <1>1, <1>3, <2>1, <2>2, <2>3 DEF r, J!Stall
  <1>5. J(q)!QueueNext
    BY <1>1, <1>4 DEF J!QueueNext
  <1>6. \A p \in Queues : p # q => \A x \in JobsOf(p) : job'[x] = job[x]
    BY <1>2 DEF QueuesInv, JobsOf
  <1> QED BY <1>1, <1>3, <1>5, <1>6, OneQueueMoves

LEMMA CompleteIsComplete ==
  ASSUME QueuesInv, NEW w \in Workers, NEW id \in Jobs, id = cur[w],
         HoldsLock(w, id), Complete(w)
  PROVE  \A p \in Queues : Behaves(p)
  <1> DEFINE q == QueueOf[id]
             r == [job[id] EXCEPT !.state = "completed", !.owner = None]
             jobs == [x \in JobsOf(q) |-> job[x]]
             all == Append(kept[q], id)
             old == Head(all)
             Full == Len(all) > KeepOf[q]
  <1>1. q \in Queues /\ id \in JobsOf(q)
    BY JobFacts
  <1>2. /\ Full => /\ job' = [[job EXCEPT ![id] = r] EXCEPT ![old] = NoJob]
                   /\ kept' = [kept EXCEPT ![q] = Tail(all)]
        /\ ~Full => job' = [job EXCEPT ![id] = r] /\ kept' = [kept EXCEPT ![q] = all]
        /\ line' = line
    BY DEF Complete
  <1>3. old \in JobsOf(q)
    <2>1. /\ kept[q] \in Seq(Jobs) /\ IsInjective(kept[q])
          /\ Range(kept[q]) = InState(q, "completed")
          /\ id \notin InState(q, "completed")
      BY JobFacts DEF HoldsLock
    <2>2. all \in Seq(Jobs) /\ IsInjective(all) /\ Range(all) = Range(kept[q]) \cup {id}
      BY <2>1, AppendNew
    <2>3. all # <<>>
      BY <2>2 DEF Range
    <2> HIDE DEF all
    <2>4. old \in Range(all)
      BY <2>2, <2>3, TakeFirst
    <2> QED BY <1>1, <2>1, <2>2, <2>4 DEF InState
  <1> HIDE DEF r, old
  <1>4. /\ line'[q] = line[q]
        /\ kept'[q] = IF Full THEN Tail(all) ELSE all
        /\ \A p \in Queues : p # q => line'[p] = line[p] /\ kept'[p] = kept[p]
    <2> HIDE DEF all, Full
    <2> QED BY <1>1, <1>2 DEF QueuesInv
  <1>5. jobs' = IF Full THEN [[jobs EXCEPT ![id] = r] EXCEPT ![old] = NoJob]
                ELSE [jobs EXCEPT ![id] = r]
    <2> DEFINE done == [job EXCEPT ![id] = r]
    <2>1. [x \in JobsOf(q) |-> done[x]] = [jobs EXCEPT ![id] = r]
      BY <1>1 DEF QueuesInv, JobsOf
    <2>2. DOMAIN done = Jobs
      BY DEF QueuesInv
    <2> HIDE DEF done, all, Full
    <2>3. CASE ~Full
      BY <1>2, <2>1, <2>3 DEF done
    <2>4. CASE Full
      <3>1. job' = [done EXCEPT ![old] = NoJob]
        BY <1>2, <2>4 DEF done
      <3>2. \A x \in JobsOf(q) : job'[x] = IF x = old THEN NoJob ELSE done[x]
        BY <2>2, <3>1 DEF JobsOf
      <3>3. [x \in JobsOf(q) |-> job'[x]] =
              [[x \in JobsOf(q) |-> done[x]] EXCEPT ![old] = NoJob]
        BY <1>3, <3>2
      <3> QED BY <2>1, <2>4, <3>3
    <2> QED BY <2>3, <2>4
  <1>6. J(q)!Complete(w, id)
    <2>1. jobs[id] = job[id]
      BY <1>1
    <2>2. J(q)!HoldsLock(w, id)
      BY <2>1 DEF J!HoldsLock, HoldsLock
    <2>3. J(q)!NoJob = NoJob
      BY DEF J!NoJob, NoJob
    <2> HIDE DEF Full
    <2>4. CASE Full
      BY <1>4, <1>5, <2>1, <2>2, <2>3, <2>4 DEF r, old, Full, J!Complete
    <2>5. CASE ~Full
      BY <1>4, <1>5, <2>1, <2>2, <2>3, <2>5 DEF r, old, Full, J!Complete
    <2> QED BY <2>4, <2>5
  <1>7. J(q)!QueueNext
    BY <1>1, <1>6 DEF J!QueueNext, J!EndAttempt
  <1>8. \A p \in Queues : p # q => \A x \in JobsOf(p) : job'[x] = job[x]
    <2> HIDE DEF all, Full
    <2> QED BY <1>2, <1>3 DEF QueuesInv, JobsOf
  <1> QED BY <1>1, <1>4, <1>7, <1>8, OneQueueMoves

(* Every step, of whatever processors, is a step of each queue or none.    *)
LEMMA QueuesBehave ==
  ProcessorsInv /\ [ProcessorsNext]_<<queues, attempts, faults>>
    => [\A q \in Queues : Unmoved(q) \/ J(q)!QueueNext]_queues
  <1> SUFFICES ASSUME ProcessorsInv, [ProcessorsNext]_<<queues, attempts, faults>>,
                      ~UNCHANGED queues
               PROVE  \A p \in Queues : Behaves(p)
    BY DEF Behaves
  <1>1. QueuesInv /\ ProcessorsNext
    BY DEF ProcessorsInv
  <1>2. ASSUME NEW id \in Jobs, Enqueue(id)
        PROVE  \A p \in Queues : Behaves(p)
    BY <1>1, <1>2, EnqueueIsAdd
  <1>3. ASSUME NEW w \in Workers, NEW id \in Jobs, NEW place, Begin(w, id, place)
        PROVE  \A p \in Queues : Behaves(p)
    BY <1>1, <1>3, BeginIsTake
  <1>4. ASSUME NEW w \in Workers, NEW id \in Jobs, GiveUp(w, id)
        PROVE  \A p \in Queues : Behaves(p)
    BY <1>1, <1>4, GiveUpIsGiveUp
  <1>5. ASSUME NEW w \in Workers, End(w)
        PROVE  \A p \in Queues : Behaves(p)
    <2>1. cur[w] \in Jobs
      BY <1>5 DEF ProcessorsInv, Busy, End
    <2>2. HoldsLock(w, cur[w]) /\ (Complete(w) \/ Fail(w))
      BY <1>5 DEF End
    <2> QED BY <1>1, <2>1, <2>2, CompleteIsComplete, FailIsFail
  <1>6. ASSUME NEW id \in Jobs, Timer(id)
        PROVE  \A p \in Queues : Behaves(p)
    BY <1>1, <1>6, PromoteIsPromote, StallIsStall DEF Timer
  <1> QED BY <1>1, <1>2, <1>3, <1>4, <1>5, <1>6 DEF ProcessorsNext, AddStep, Crash

LEMMA QueuesBegin == ProcessorsInit => \A q \in Queues : J(q)!QueueInit
  <1> SUFFICES ASSUME ProcessorsInit, NEW q \in Queues PROVE J(q)!QueueInit
    OBVIOUS
  <1>1. [x \in JobsOf(q) |-> job[x]] = [x \in JobsOf(q) |-> J(q)!NoJob]
    BY DEF ProcessorsInit, JobsOf, J!NoJob, NoJob
  <1>2. line[q] = <<>> /\ kept[q] = <<>>
    BY DEF ProcessorsInit
  <1> QED BY <1>1, <1>2 DEF J!QueueInit

(* Whatever certain processors do in these operations' terms keeps the     *)
(* invariant: the queues are sound, and a busy processor is at work on a   *)
(* job of a queue it serves.                                               *)
THEOREM ProcessorsCorrect ==
  ProcessorsInit /\ [][ProcessorsNext]_<<queues, attempts, faults>>
    => []ProcessorsInv
  BY ProcessorsInitInv, ProcessorsStepInv, PTL

LEMMA ProcessorsTypes == ProcessorsInv => ProcessorsTypeOK
  <1> SUFFICES ASSUME ProcessorsInv, NEW id \in Jobs
               PROVE  DOMAIN job = Jobs /\ job[id] \in JobRecord(id)
    BY DEF ProcessorsInv, QueuesInv, Busy, ProcessorsTypeOK
  <1>1. job \in [Jobs -> AnyRecord] /\ CountsRight(id, job[id])
    BY DEF ProcessorsInv, QueuesInv
  <1>2. AttemptsOf[QueueOf[id]] \in Nat /\ MaxStalls \in Nat
    BY ProcessorsAssumption
  <1> QED BY <1>1, <1>2 DEF AnyRecord, JobRecord, CountsRight

(* It also makes each of the queues they share behave as a JobQueue of its *)
(* own, whatever the others do meanwhile.                                  *)
THEOREM ProcessorsAreJobQueues ==
  ProcessorsInit /\ [][ProcessorsNext]_<<queues, attempts, faults>>
    => QueuesAreJobQueues
  <1>1. ProcessorsInv /\ [ProcessorsNext]_<<queues, attempts, faults>>
          => [\A q \in Queues : UNCHANGED J(q)!queueVars \/ J(q)!QueueNext]_queues
    BY QueuesBehave DEF Unmoved
  <1> QED BY <1>1, ProcessorsCorrect, QueuesBegin, PTL DEF QueuesAreJobQueues
=============================================================================
