----------------------- MODULE ArtifactPipelineProofs -----------------------
(***************************************************************************)
(* The artifact pipeline uses its two queues as queues, saves versions in  *)
(* order, announces only what it saved and hands on what it built, for any *)
(* number of requests, workers and faults; and a thread served by a single *)
(* web process has one artifact.                                           *)
(***************************************************************************)
EXTENDS ArtifactPipeline, FiniteSetTheorems, TLAPS

BP == INSTANCE JobQueueProofs WITH Jobs <- Requests, Workers <- Builders,
         NoWorker <- None, Attempts <- BuildAttempts,
         KeepCompleted <- KeepBuilt,
         job <- bJob, waiting <- bWaiting, kept <- bKept

PP == INSTANCE JobQueueProofs WITH Jobs <- Requests, Workers <- Publishers,
         NoWorker <- None, Attempts <- PublishAttempts, KeepCompleted <- 0,
         job <- pJob, waiting <- pWaiting, kept <- pKept

-----------------------------------------------------------------------------
(* The queues.                                                             *)

(* Where the two kinds of workers can be, and that they work on a request. *)
BuilderPlaces == {"idle", "building", "handing_on", "returned", "threw"}

PublisherPlaces == {"idle", "finding", "writing", "noting", "posting",
                    "returned", "threw"}

Busy ==
    /\ at \in [Workers -> Places]
    /\ cur \in [Workers -> Requests \cup {None}]
    /\ \A w \in Workers : at[w] # "idle" => cur[w] \in Requests
    /\ \A w \in Builders : at[w] \in BuilderPlaces
    /\ \A w \in Publishers : at[w] \in PublisherPlaces

(* The steps of an attempt.                                                *)
LEMMA AttendKeepsBusy ==
  ASSUME Busy, NEW w \in Workers, Attend(w) PROVE Busy'
  <1> USE PipelineAssumption DEF Busy, GoTo, Workers, Places, BuilderPlaces,
          PublisherPlaces
  <1>1. ASSUME NEW wrote \in BOOLEAN, Build(w, wrote) PROVE Busy'
    BY <1>1 DEF Build
  <1>2. ASSUME NEW o, HandOn(w, o) PROVE Busy'
    BY <1>2 DEF HandOn
  <1>3. ASSUME NEW o, Find(w, o) PROVE Busy'
    BY <1>3 DEF Find
  <1>4. ASSUME NEW o, Write(w, o) PROVE Busy'
    <2>1. /\ at[w] = "writing" /\ cur' = cur
          /\ \/ at' = [at EXCEPT ![w] = "noting"]
             \/ at' = [at EXCEPT ![w] = "threw"]
      BY <1>4 DEF Write
    <2> QED BY <2>1
  <1>5. ASSUME NEW o, Note(w, o) PROVE Busy'
    <2>1. /\ at[w] = "noting" /\ cur' = cur
          /\ \/ at' = [at EXCEPT ![w] = "posting"]
             \/ at' = [at EXCEPT ![w] = "threw"]
      BY <1>5 DEF Note
    <2> QED BY <2>1
  <1>6. ASSUME NEW o, Post(w, o) PROVE Busy'
    BY <1>6 DEF Post
  <1>7. ASSUME NEW r, EndBuild(w, r) \/ EndPublish(w, r) PROVE Busy'
    <2>1. Forget(w)
      BY <1>7 DEF EndBuild, EndPublish
    <2> QED BY <2>1 DEF Forget
  <1> QED BY <1>1, <1>2, <1>3, <1>4, <1>5, <1>6, <1>7 DEF Attend

LEMMA BusyStep == Busy /\ [Next]_vars => Busy'
  <1> SUFFICES ASSUME Busy, [Next]_vars PROVE Busy'
    OBVIOUS
  <1>1. CASE UNCHANGED vars
    BY <1>1 DEF vars, attempt, Busy
  <1>2. ASSUME NEW w \in Workers, NEW r \in Requests,
               w \in Builders, TakeBuild(w, r)
        PROVE  Busy'
    BY <1>2, PipelineAssumption
       DEF TakeBuild, GoTo, Busy, Workers, Places, BuilderPlaces
  <1>3. ASSUME NEW w \in Workers, NEW r \in Requests,
               w \in Publishers, TakePublish(w, r)
        PROVE  Busy'
    BY <1>3, PipelineAssumption
       DEF TakePublish, GoTo, Busy, Workers, Places, PublisherPlaces
  <1>4. ASSUME NEW w \in Workers, Attend(w) PROVE Busy'
    BY <1>4, AttendKeepsBusy
  <1>5. ASSUME NEW w \in Workers, Crash(w) PROVE Busy'
    BY <1>5 DEF Crash, Forget, GoTo, Busy, Workers, Places, BuilderPlaces,
       PublisherPlaces
  <1>6. ASSUME NEW w, NEW r, \/ GiveUpBuild(w, r) \/ GiveUpPublish(w, r)
                             \/ \E o \in Outcomes : OnFailed(w, r, o)
        PROVE  Busy'
    BY <1>6 DEF GiveUpBuild, GiveUpPublish, OnFailed, attempt, Busy
  <1>7. ASSUME NEW r, Ask(r) \/ BuildTimer(r) \/ PublishTimer(r) PROVE Busy'
    BY <1>7 DEF Ask, FindBase, Enqueue, BuildTimer, PublishTimer, attempt, Busy
  <1> QED BY <1>1, <1>2, <1>3, <1>4, <1>5, <1>6, <1>7 DEF Next, Serve, Notify

(* The operations of the two queues are those of the job queue.            *)
LEMMA BuildOperations ==
  /\ \A w, r : B!Take(w, r) <=> BP!Take(w, r)
  /\ \A r : B!GiveUp(r) <=> BP!GiveUp(r)
  /\ \A r : B!Add(r) <=> BP!Add(r)
  /\ \A r : B!Promote(r) <=> BP!Promote(r)
  /\ \A r : B!Stall(r) <=> BP!Stall(r)
  /\ \A w, r : B!Complete(w, r) <=> BP!Complete(w, r)
  /\ \A w, r : B!Fail(w, r) <=> BP!Fail(w, r)
  BY DEF B!Take, BP!Take, B!GiveUp, BP!GiveUp, B!Add, BP!Add, B!Promote,
     BP!Promote, B!Stall, BP!Stall, B!Complete, BP!Complete, B!Fail, BP!Fail,
     B!IsNext, BP!IsNext, B!Doomed, BP!Doomed, B!NewJob, BP!NewJob, B!NoJob,
     BP!NoJob, B!queueVars, BP!queueVars, B!HoldsLock, BP!HoldsLock,
     B!LastAttempt, BP!LastAttempt

LEMMA PublishOperations ==
  /\ \A w, r : P!Take(w, r) <=> PP!Take(w, r)
  /\ \A r : P!GiveUp(r) <=> PP!GiveUp(r)
  /\ \A r : P!Add(r) <=> PP!Add(r)
  /\ \A r : P!Promote(r) <=> PP!Promote(r)
  /\ \A r : P!Stall(r) <=> PP!Stall(r)
  /\ \A w, r : P!Complete(w, r) <=> PP!Complete(w, r)
  /\ \A w, r : P!Fail(w, r) <=> PP!Fail(w, r)
  BY DEF P!Take, PP!Take, P!GiveUp, PP!GiveUp, P!Add, PP!Add, P!Promote,
     PP!Promote, P!Stall, PP!Stall, P!Complete, PP!Complete, P!Fail, PP!Fail,
     P!IsNext, PP!IsNext, P!Doomed, PP!Doomed, P!NewJob, PP!NewJob, P!NoJob,
     PP!NoJob, P!queueVars, PP!queueVars, P!HoldsLock, PP!HoldsLock,
     P!LastAttempt, PP!LastAttempt

LEMMA QueueAssumptions == BP!QueueAssumption /\ PP!QueueAssumption
  BY PipelineAssumption DEF BP!QueueAssumption, PP!QueueAssumption, Workers

(* Who touches the build queue: the tool call, the builders and the queue. *)
LEMMA BuildQueueStep ==
  ASSUME Busy, [Next]_vars PROVE [BP!QueueNext]_(BP!queueVars)
  <1> USE DEF BP!QueueNext, BP!queueVars, BP!Serve, BP!EndAttempt, builds
  <1>1. CASE UNCHANGED vars
    BY <1>1 DEF vars
  <1>2. ASSUME NEW r \in Requests, Ask(r) \/ BuildTimer(r) \/ PublishTimer(r)
        PROVE  BP!QueueNext \/ UNCHANGED builds
    BY <1>2, BuildOperations
       DEF Ask, FindBase, Enqueue, BuildTimer, PublishTimer
  <1>3. ASSUME NEW w \in Workers, Serve(w)
        PROVE  BP!QueueNext \/ UNCHANGED builds
    BY <1>3, BuildOperations
       DEF Serve, TakeBuild, GiveUpBuild, TakePublish, GiveUpPublish
  <1>4. ASSUME NEW w \in Workers, NEW r \in Requests, EndBuild(w, r)
        PROVE  BP!QueueNext \/ UNCHANGED builds
    BY <1>4, BuildOperations DEF EndBuild
  <1>5. ASSUME NEW w \in Workers, Attend(w), \A r \in Requests : ~EndBuild(w, r)
        PROVE  UNCHANGED builds
    BY <1>5 DEF Attend, Build, HandOn, Find, Write, Note, Post, EndPublish
  <1>6. ASSUME NEW w \in Workers, Notify(w) \/ Crash(w)
        PROVE  UNCHANGED builds
    BY <1>6 DEF Notify, OnFailed, Crash
  <1> QED BY <1>1, <1>2, <1>3, <1>4, <1>5, <1>6 DEF Next

(* Who touches the publish queue: the builders, the publishers, the queue. *)
LEMMA PublishQueueStep ==
  ASSUME Busy, [Next]_vars PROVE [PP!QueueNext]_(PP!queueVars)
  <1> DEFINE Same == UNCHANGED <<pJob, pWaiting, pKept>>
  <1> USE DEF PP!QueueNext, PP!queueVars, PP!Serve, PP!EndAttempt, publishes
  <1>1. CASE UNCHANGED vars
    BY <1>1 DEF vars
  <1>2. ASSUME NEW r \in Requests, Ask(r) \/ BuildTimer(r) \/ PublishTimer(r)
        PROVE  PP!QueueNext \/ Same
    BY <1>2, PublishOperations
       DEF Ask, FindBase, Enqueue, BuildTimer, PublishTimer
  <1>3. ASSUME NEW w \in Workers, Serve(w)
        PROVE  PP!QueueNext \/ Same
    BY <1>3, PublishOperations
       DEF Serve, TakeBuild, GiveUpBuild, TakePublish, GiveUpPublish
  <1>4. ASSUME NEW w \in Workers, NEW r \in Requests, EndPublish(w, r)
        PROVE  PP!QueueNext \/ Same
    BY <1>4, PublishOperations DEF EndPublish
  <1>5. ASSUME NEW w \in Workers, NEW o, HandOn(w, o)
        PROVE  PP!QueueNext \/ Same
    <2>1. cur[w] \in Requests
      BY <1>5 DEF HandOn, Busy
    <2> QED BY <1>5, <2>1, PublishOperations DEF HandOn, QueuePublish
  <1>6. ASSUME NEW w \in Workers, Attend(w), \A r \in Requests : ~EndPublish(w, r),
               \A o \in Outcomes : ~HandOn(w, o)
        PROVE  Same
    BY <1>6 DEF Attend, Build, Find, Write, Note, Post, EndBuild
  <1>7. ASSUME NEW w \in Workers, Notify(w) \/ Crash(w)
        PROVE  Same
    BY <1>7 DEF Notify, OnFailed, Crash
  <1> QED BY <1>1, <1>2, <1>3, <1>4, <1>5, <1>6, <1>7 DEF Next

(* So what holds of every job queue holds of these two.                    *)
THEOREM PipelineQueuesCorrect ==
  Spec => []Busy /\ []BP!QueueInv /\ []PP!QueueInv
  <1>1. Init => Busy
    BY DEF Init, Busy, Places, BuilderPlaces, PublisherPlaces, Workers
  <1>2. Init => BP!QueueInit /\ PP!QueueInit
    BY DEF Init, B!QueueInit, BP!QueueInit, B!NoJob, BP!NoJob, P!QueueInit,
       PP!QueueInit, P!NoJob, PP!NoJob
  <1>3. Busy /\ [Next]_vars => [BP!QueueNext]_(BP!queueVars)
    BY BuildQueueStep
  <1>4. Busy /\ [Next]_vars => [PP!QueueNext]_(PP!queueVars)
    BY PublishQueueStep
  <1>5. BP!QueueSafe => []BP!QueueInv
    BY QueueAssumptions, BP!QueueCorrect
  <1>6. PP!QueueSafe => []PP!QueueInv
    BY QueueAssumptions, PP!QueueCorrect
  <1> QED BY <1>1, <1>2, <1>3, <1>4, <1>5, <1>6, BusyStep, PTL
          DEF Spec, BP!QueueSafe, PP!QueueSafe

-----------------------------------------------------------------------------
(* The inductive invariant behind what is saved and announced.             *)

LocalType ==
    /\ asked \in [Requests -> {"no", "based", "queued", "refused"}]
    /\ base \in [Requests -> SUBSET Requests]
    /\ found \in [Publishers -> [artifact : Nat, latest : Nat]]
    /\ link \in [Publishers -> Links \cup {None}]
    /\ published \in [Requests -> Links \cup {None}]
    /\ artifacts \in Seq(Artifact)
    /\ reports \subseteq Workers \X Requests
    /\ posts \in [Requests -> SUBSET Links]
    /\ notes \in [Requests -> SUBSET {"no_build", "no_publish"}]
    /\ faults \in 0..MaxFaults

(* The versions of a row are finitely many, numbered 1..latest, once each. *)
InOrder(row) ==
    /\ IsFiniteSet(row.versions)
    /\ {v.number : v \in row.versions} = 1..row.latest
    /\ Cardinality(row.versions) = row.latest

RowsInOrder == \A a \in DOMAIN artifacts : InOrder(artifacts[a])

(* A link to a version that was saved for the request.                     *)
Backed(r, l) ==
    /\ l.artifact \in DOMAIN artifacts
    /\ [number |-> l.version, by |-> r] \in artifacts[l.artifact].versions

(* What a publisher found is a row; what it is to announce, what a job has *)
(* noted and what was posted are links to saved versions.                  *)
Linked ==
    /\ \A w \in Publishers :
         /\ found[w].artifact \in 0..Len(artifacts)
         /\ at[w] \in {"noting", "posting", "returned"} => link[w] # None
         /\ link[w] # None => Backed(cur[w], link[w])
    /\ \A r \in Requests :
         /\ published[r] # None => Backed(r, published[r])
         /\ \A l \in posts[r] : Backed(r, l)

(* A request whose page is saved, or waits to be.                          *)
HandedOn(r) == pJob[r].state # "absent" \/ Versions(r) # {}

Handing ==
    /\ \A w \in Builders : at[w] = "returned" => HandedOn(cur[w])
    /\ \A r \in Requests : /\ bJob[r].state = "completed" => HandedOn(r)
                           /\ pJob[r].state = "completed" => Versions(r) # {}

PipelineInv == Busy /\ LocalType /\ RowsInOrder /\ Linked /\ Handing

LEMMA PipelineInitInv == Init => PipelineInv
  <1> SUFFICES ASSUME Init PROVE PipelineInv
    OBVIOUS
  <1> USE PipelineAssumption DEF Init
  <1>1. Busy
    BY DEF Busy, Places, BuilderPlaces, PublisherPlaces, Workers
  <1>2. LocalType
    BY DEF LocalType, NothingFound
  <1>3. RowsInOrder
    BY DEF RowsInOrder
  <1>4. Linked
    BY DEF Linked, NothingFound, Workers
  <1>5. Handing
    BY DEF Handing, B!QueueInit, B!NoJob, P!QueueInit, P!NoJob, Workers
  <1> QED BY <1>1, <1>2, <1>3, <1>4, <1>5 DEF PipelineInv

-----------------------------------------------------------------------------
(* The rows of the thread.                                                 *)

(* No row and no version ever goes away.                                   *)
Grown ==
    /\ Len(artifacts) <= Len(artifacts')
    /\ \A a \in DOMAIN artifacts : /\ a \in DOMAIN artifacts'
                                  /\ artifacts[a].versions \subseteq artifacts'[a].versions

LEMMA GrownKeeps ==
  ASSUME Grown
  PROVE  /\ \A r, l : Backed(r, l) => Backed(r, l)'
         /\ \A r : Versions(r) # {} => Versions(r)' # {}
  BY DEF Grown, Backed, Versions

LEMMA BackedHasVersion ==
  ASSUME NEW r, NEW l, Backed(r, l) PROVE Versions(r) # {}
  <1>1. LET v == [number |-> l.version, by |-> r]
        IN  /\ v \in artifacts[l.artifact].versions /\ v.by = r
            /\ artifacts[l.artifact].versions
                  \in {artifacts[a].versions : a \in DOMAIN artifacts}
    BY DEF Backed
  <1> QED BY <1>1 DEF Versions

(* The first version of a new row.                                         *)
LEMMA CreateRow ==
  ASSUME LocalType, RowsInOrder, NEW r \in Requests,
         artifacts' = CreateArtifact(r)
  PROVE  /\ artifacts' \in Seq(Artifact) /\ Grown /\ RowsInOrder'
         /\ \A l : l = [artifact |-> Len(artifacts) + 1, version |-> 1]
                     => Backed(r, l)'
         /\ Len(artifacts') = Len(artifacts) + 1
  <1> DEFINE v == [number |-> 1, by |-> r]
             row == [latest |-> 1, versions |-> {v}]
  <1>1. row \in Artifact
    BY DEF Artifact
  <1>2. /\ artifacts \in Seq(Artifact) /\ Len(artifacts) \in Nat
        /\ DOMAIN artifacts = 1..Len(artifacts)
    BY DEF LocalType
  <1>3. artifacts' = Append(artifacts, row)
    BY DEF CreateArtifact
  <1>4. InOrder(row)
    <2>1. {x.number : x \in {v}} = 1..1
      OBVIOUS
    <2>2. IsFiniteSet({v}) /\ Cardinality({v}) = 1
      BY FS_Singleton
    <2> QED BY <2>1, <2>2 DEF InOrder
  <1>5. v \in row.versions
    OBVIOUS
  <1> HIDE DEF row
  <1>6. /\ artifacts' \in Seq(Artifact)
        /\ Len(artifacts') = Len(artifacts) + 1
        /\ DOMAIN artifacts' = 1..(Len(artifacts) + 1)
        /\ \A a \in 1..Len(artifacts) : artifacts'[a] = artifacts[a]
        /\ artifacts'[Len(artifacts) + 1] = row
    BY <1>1, <1>2, <1>3
  <1>7. Grown
    BY <1>2, <1>6 DEF Grown
  <1>8. RowsInOrder'
    <2>1. \A a \in DOMAIN artifacts' :
            a \in 1..Len(artifacts) \/ a = Len(artifacts) + 1
      BY <1>2, <1>6
    <2>2. \A a \in DOMAIN artifacts' : InOrder(artifacts'[a])
      BY <1>2, <1>4, <1>6, <2>1 DEF RowsInOrder
    <2> QED BY <2>2 DEF RowsInOrder, InOrder
  <1>9. \A l : l = [artifact |-> Len(artifacts) + 1, version |-> 1] => Backed(r, l)'
    BY <1>2, <1>5, <1>6 DEF Backed
  <1> QED BY <1>6, <1>7, <1>8, <1>9

(* One more version of a row that is as it was found: its number is new.   *)
LEMMA AddRow ==
  ASSUME LocalType, RowsInOrder, NEW r \in Requests,
         NEW f \in [artifact : Nat, latest : Nat],
         f.artifact \in DOMAIN artifacts, ~Changed(f),
         artifacts' = AddVersion(r, f)
  PROVE  /\ artifacts' \in Seq(Artifact) /\ Grown /\ RowsInOrder'
         /\ Backed(r, [artifact |-> f.artifact, version |-> f.latest + 1])'
         /\ Len(artifacts') = Len(artifacts)
  <1> DEFINE n == f.latest + 1
             old == artifacts[f.artifact]
             v == [number |-> n, by |-> r]
             row == [latest |-> n, versions |-> old.versions \cup {v}]
  <1>1. /\ artifacts \in Seq(Artifact) /\ Len(artifacts) \in Nat
        /\ DOMAIN artifacts = 1..Len(artifacts)
        /\ old \in Artifact
    BY DEF LocalType
  <1>2. /\ old.latest = f.latest /\ f.latest \in Nat
        /\ n \in Nat \ {0} /\ v.number = n /\ v.by = r
    BY DEF Changed
  <1>3. row \in Artifact
    <2>1. v \in [number : Nat \ {0}, by : Requests]
      BY <1>2
    <2> QED BY <1>1, <1>2, <2>1 DEF Artifact
  <1>4. artifacts' = [artifacts EXCEPT ![f.artifact] = row]
    BY DEF AddVersion
  <1>5. InOrder(row)
    <2>1. /\ IsFiniteSet(old.versions)
          /\ {x.number : x \in old.versions} = 1..f.latest
          /\ Cardinality(old.versions) = f.latest
      BY <1>2 DEF RowsInOrder, InOrder
    <2>2. v \notin old.versions
      <3>1. v \in old.versions => n \in 1..f.latest
        BY <1>2, <2>1
      <3> QED BY <1>2, <3>1
    <2>3. /\ IsFiniteSet(row.versions)
          /\ Cardinality(row.versions) = f.latest + 1
      BY <2>1, <2>2, FS_AddElement
    <2>4. {x.number : x \in row.versions}
            = {x.number : x \in old.versions} \cup {n}
      BY <1>2
    <2>5. (1..f.latest) \cup {n} = 1..n
      BY <1>2
    <2>6. row.latest = n
      OBVIOUS
    <2> QED BY <2>1, <2>3, <2>4, <2>5, <2>6 DEF InOrder
  <1>6. v \in row.versions /\ old.versions \subseteq row.versions
    OBVIOUS
  <1> HIDE DEF row
  <1>7. /\ artifacts' \in Seq(Artifact)
        /\ Len(artifacts') = Len(artifacts)
        /\ DOMAIN artifacts' = DOMAIN artifacts
        /\ \A a \in DOMAIN artifacts :
              artifacts'[a] = IF a = f.artifact THEN row ELSE artifacts[a]
    BY <1>1, <1>3, <1>4
  <1>8. Grown
    BY <1>1, <1>6, <1>7 DEF Grown
  <1>9. RowsInOrder'
    <2>1. \A a \in DOMAIN artifacts' : InOrder(artifacts'[a])
      BY <1>5, <1>7 DEF RowsInOrder
    <2> QED BY <2>1 DEF RowsInOrder, InOrder
  <1>10. Backed(r, [artifact |-> f.artifact, version |-> f.latest + 1])'
    BY <1>6, <1>7 DEF Backed
  <1> QED BY <1>7, <1>8, <1>9, <1>10

(* A transaction's writes: what it found either is still so, or nothing is *)
(* written.                                                                *)
LEMMA WriteRows ==
  ASSUME PipelineInv, NEW w \in Publishers, NEW o, Write(w, o)
  PROVE  /\ artifacts' \in Seq(Artifact) /\ Grown /\ RowsInOrder'
         /\ \/ at' = [at EXCEPT ![w] = "threw"] /\ link' = link
            \/ \E l \in Links : /\ Backed(cur[w], l)'
                               /\ at' = [at EXCEPT ![w] = "noting"]
                               /\ link' = [link EXCEPT ![w] = l]
  <1> PICK f \in [artifact : Nat, latest : Nat] : f = found[w]
    BY DEF PipelineInv, LocalType
  <1>1. cur[w] \in Requests /\ LocalType /\ RowsInOrder
    BY DEF Write, PipelineInv, Busy, Workers
  <1>2. PICK r \in Requests : r = cur[w]
    BY <1>1
  <1>3. artifacts \in Seq(Artifact) /\ Len(artifacts) \in Nat
        /\ DOMAIN artifacts = 1..Len(artifacts)
    BY <1>1 DEF LocalType
  <1>4. f.artifact \in 0..Len(artifacts) /\ f.artifact \in Nat /\ f.latest \in Nat
    BY DEF PipelineInv, Linked
  <1> DEFINE refused == f.artifact # 0 /\ Changed(f)
  <1>5. /\ artifacts' = IF o = "lost" \/ refused THEN artifacts
                        ELSE IF f.artifact = 0 THEN CreateArtifact(r)
                        ELSE AddVersion(r, f)
        /\ IF o = "ok" /\ ~refused
           THEN /\ link' = [link EXCEPT ![w] = LinkTo(f)]
                /\ at' = [at EXCEPT ![w] = "noting"]
           ELSE at' = [at EXCEPT ![w] = "threw"] /\ link' = link
        /\ cur' = cur
    BY <1>2 DEF Write, GoTo
  <1>6. CASE artifacts' = artifacts /\ (o = "lost" \/ refused)
    <2>1. at' = [at EXCEPT ![w] = "threw"] /\ link' = link
      BY <1>5, <1>6
    <2> QED BY <1>1, <1>3, <1>6, <2>1 DEF Grown, RowsInOrder, InOrder
  <1>7. CASE f.artifact = 0 /\ artifacts' = CreateArtifact(r)
    <2>1. LinkTo(f) = [artifact |-> Len(artifacts) + 1, version |-> 1]
      BY <1>7 DEF LinkTo
    <2>2. LinkTo(f) \in Links
      BY <1>3, <2>1 DEF Links
    <2>4. /\ artifacts' \in Seq(Artifact) /\ Grown /\ RowsInOrder'
          /\ \A l : l = LinkTo(f) => Backed(r, l)'
      BY <1>1, <1>7, <2>1, <2>2, CreateRow
    <2>5. \A l : Backed(r, l)' => Backed(cur[w], l)'
      BY <1>2, <1>5 DEF Backed
    <2> HIDE DEF refused
    <2> QED BY <1>5, <2>2, <2>4, <2>5
  <1>8. CASE f.artifact # 0 /\ ~Changed(f) /\ artifacts' = AddVersion(r, f)
    <2>1. LinkTo(f) = [artifact |-> f.artifact, version |-> f.latest + 1]
      BY <1>8 DEF LinkTo
    <2>2. LinkTo(f) \in Links
      BY <1>4, <1>8, <2>1 DEF Links
    <2>3. f.artifact \in DOMAIN artifacts
      BY <1>3, <1>4, <1>8
    <2>4. /\ artifacts' \in Seq(Artifact) /\ Grown /\ RowsInOrder'
          /\ \A l : l = LinkTo(f) => Backed(r, l)'
      BY <1>1, <1>8, <2>1, <2>2, <2>3, AddRow
    <2>5. \A l : Backed(r, l)' => Backed(cur[w], l)'
      BY <1>2, <1>5 DEF Backed
    <2> HIDE DEF refused
    <2> QED BY <1>5, <2>2, <2>4, <2>5
  <1> QED BY <1>5, <1>6, <1>7, <1>8

(* Nothing but a publisher's write changes the rows.                       *)
LEMMA RowsStep ==
  ASSUME PipelineInv, [Next]_vars
  PROVE  artifacts' \in Seq(Artifact) /\ Grown /\ RowsInOrder'
  <1>1. CASE artifacts' = artifacts
    BY <1>1 DEF PipelineInv, LocalType, Grown, RowsInOrder, InOrder
  <1>2. ASSUME NEW w \in Workers, NEW o \in Outcomes, Write(w, o)
        PROVE  artifacts' \in Seq(Artifact) /\ Grown /\ RowsInOrder'
    <2>1. w \in Publishers
      BY <1>2 DEF Write, PipelineInv, Busy, Workers, BuilderPlaces
    <2> QED BY <1>2, <2>1, WriteRows
  <1>3. ASSUME NEW w \in Workers, Attend(w), \A o \in Outcomes : ~Write(w, o)
        PROVE  artifacts' = artifacts
    BY <1>3 DEF Attend, Build, HandOn, Find, Note, Post, EndBuild, EndPublish,
       output
  <1>4. ASSUME NEW w \in Workers, Serve(w) \/ Notify(w) \/ Crash(w)
        PROVE  artifacts' = artifacts
    BY <1>4 DEF Serve, TakeBuild, GiveUpBuild, TakePublish, GiveUpPublish,
       Notify, OnFailed, Crash, output
  <1>5. ASSUME NEW r, Ask(r) \/ BuildTimer(r) \/ PublishTimer(r)
        PROVE  artifacts' = artifacts
    BY <1>5 DEF Ask, FindBase, Enqueue, BuildTimer, PublishTimer, output
  <1>6. CASE UNCHANGED vars
    BY <1>1, <1>6 DEF vars, output
  <1> QED BY <1>1, <1>2, <1>3, <1>4, <1>5, <1>6 DEF Next

-----------------------------------------------------------------------------
(* How jobs end.                                                           *)

(* Only a builder that returned completes a build.                         *)
LEMMA BuildEnds ==
  ASSUME Busy, BP!QueueInv, [Next]_vars, NEW r \in Requests,
         bJob'[r].state = "completed", bJob[r].state # "completed"
  PROVE  \E w \in Builders : at[w] = "returned" /\ cur[w] = r
  <1> SUFFICES ASSUME \A w \in Builders : ~(at[w] = "returned" /\ cur[w] = r)
               PROVE  FALSE
    OBVIOUS
  <1> USE BuildOperations, QueueAssumptions
  <1>a. BP!NoJob.state = "absent" /\ BP!NewJob.state = "waiting"
    BY DEF BP!NoJob, BP!NewJob
  <1>1. ASSUME UNCHANGED builds PROVE FALSE
    BY <1>1 DEF builds
  <1>2. ASSUME NEW x \in Requests,
               B!Add(x) \/ B!Promote(x) \/ B!Stall(x) \/ B!GiveUp(x)
        PROVE  FALSE
    <2>1. CASE B!Add(x)
      BY <1>a, <2>1, BP!AddEffect
    <2>2. CASE B!Promote(x)
      BY <2>2, BP!PromoteEffect
    <2>3. CASE B!Stall(x)
      BY <2>3, BP!StallEffect
    <2>4. CASE B!GiveUp(x)
      BY <2>4, BP!GiveUpEffect
    <2> QED BY <1>2, <2>1, <2>2, <2>3, <2>4
  <1>3. ASSUME NEW w \in Builders, NEW x \in Requests, B!Take(w, x) \/ B!Fail(w, x)
        PROVE  FALSE
    <2>1. CASE B!Take(w, x)
      BY <2>1, BP!TakeEffect
    <2>2. CASE B!Fail(w, x)
      BY <2>2, BP!FailEffect
    <2> QED BY <1>3, <2>1, <2>2
  <1>4. ASSUME NEW w \in Builders, NEW x \in Requests, x # r, B!Complete(w, x)
        PROVE  FALSE
    BY <1>a, <1>4, BP!CompleteEffect
  <1>5. ASSUME NEW x \in Requests, Ask(x) \/ BuildTimer(x) \/ PublishTimer(x)
        PROVE  FALSE
    BY <1>1, <1>2, <1>5 DEF Ask, FindBase, Enqueue, BuildTimer, PublishTimer
  <1>6. ASSUME NEW w \in Workers, Serve(w) PROVE FALSE
    BY <1>1, <1>2, <1>3, <1>6
       DEF Serve, TakeBuild, GiveUpBuild, TakePublish, GiveUpPublish
  <1>7. ASSUME NEW w \in Workers, NEW x \in Requests, EndBuild(w, x) PROVE FALSE
    BY <1>1, <1>3, <1>4, <1>7 DEF EndBuild
  <1>8. ASSUME NEW w \in Workers, Attend(w), \A x \in Requests : ~EndBuild(w, x)
        PROVE  FALSE
    BY <1>1, <1>8 DEF Attend, Build, HandOn, Find, Write, Note, Post, EndPublish
  <1>9. ASSUME NEW w \in Workers, Notify(w) \/ Crash(w) PROVE FALSE
    BY <1>1, <1>9 DEF Notify, OnFailed, Crash
  <1> QED BY <1>1, <1>5, <1>6, <1>7, <1>8, <1>9 DEF Next, vars

(* Only a publisher that returned completes a publication, and only a      *)
(* completed one is dropped.                                               *)
LEMMA PublishEnds ==
  ASSUME Busy, PP!QueueInv, [Next]_vars, NEW r \in Requests,
         pJob[r].state # "completed",
         \/ pJob'[r].state = "completed"
         \/ pJob'[r].state = "absent" /\ pJob[r].state # "absent"
  PROVE  \E w \in Publishers : at[w] = "returned" /\ cur[w] = r
  <1> SUFFICES ASSUME \A w \in Publishers : ~(at[w] = "returned" /\ cur[w] = r)
               PROVE  FALSE
    OBVIOUS
  <1> USE PublishOperations, QueueAssumptions
  <1>a. PP!NoJob.state = "absent" /\ PP!NewJob.state = "waiting"
    BY DEF PP!NoJob, PP!NewJob
  <1>1. ASSUME UNCHANGED pJob PROVE FALSE
    BY <1>1
  <1>2. ASSUME NEW x \in Requests,
               P!Add(x) \/ P!Promote(x) \/ P!Stall(x) \/ P!GiveUp(x)
        PROVE  FALSE
    <2>1. CASE P!Add(x)
      BY <1>a, <2>1, PP!AddEffect
    <2>2. CASE P!Promote(x)
      BY <2>2, PP!PromoteEffect
    <2>3. CASE P!Stall(x)
      BY <2>3, PP!StallEffect
    <2>4. CASE P!GiveUp(x)
      BY <2>4, PP!GiveUpEffect
    <2> QED BY <1>2, <2>1, <2>2, <2>3, <2>4
  <1>3. ASSUME NEW w \in Publishers, NEW x \in Requests,
               P!Take(w, x) \/ P!Fail(w, x)
        PROVE  FALSE
    <2>1. CASE P!Take(w, x)
      BY <2>1, PP!TakeEffect
    <2>2. CASE P!Fail(w, x)
      BY <2>2, PP!FailEffect
    <2> QED BY <1>3, <2>1, <2>2
  <1>4. ASSUME NEW w \in Publishers, NEW x \in Requests, x # r, P!Complete(w, x)
        PROVE  FALSE
    BY <1>a, <1>4, PP!CompleteEffect
  <1>5. ASSUME NEW x \in Requests, Ask(x) \/ BuildTimer(x) \/ PublishTimer(x)
        PROVE  FALSE
    BY <1>1, <1>2, <1>5
       DEF Ask, FindBase, Enqueue, BuildTimer, PublishTimer, publishes
  <1>6. ASSUME NEW w \in Workers, Serve(w) PROVE FALSE
    BY <1>1, <1>2, <1>3, <1>6
       DEF Serve, TakeBuild, GiveUpBuild, TakePublish, GiveUpPublish, publishes
  <1>7. ASSUME NEW w \in Workers, NEW x \in Requests, EndPublish(w, x) PROVE FALSE
    BY <1>1, <1>3, <1>4, <1>7 DEF EndPublish
  <1>8. ASSUME NEW w \in Workers, NEW o, HandOn(w, o) PROVE FALSE
    <2>1. cur[w] \in Requests
      BY <1>8 DEF HandOn, Busy
    <2> QED BY <1>1, <1>2, <1>8, <2>1 DEF HandOn, QueuePublish, publishes
  <1>9. ASSUME NEW w \in Workers, Attend(w), \A x \in Requests : ~EndPublish(w, x),
               \A o \in Outcomes : ~HandOn(w, o)
        PROVE  FALSE
    BY <1>1, <1>9 DEF Attend, Build, Find, Write, Note, Post, EndBuild, publishes
  <1>10. ASSUME NEW w \in Workers, Notify(w) \/ Crash(w) PROVE FALSE
    BY <1>1, <1>10 DEF Notify, OnFailed, Crash, publishes
  <1> QED BY <1>1, <1>5, <1>6, <1>7, <1>8, <1>9, <1>10 DEF Next, vars, publishes

(* A builder returns when its page is queued for publication.              *)
LEMMA Returns ==
  ASSUME PipelineInv, PP!QueueInv, [Next]_vars, NEW w \in Builders,
         at'[w] = "returned"
  PROVE  \/ at[w] = "returned" /\ cur'[w] = cur[w]
         \/ cur'[w] = cur[w] /\ pJob'[cur[w]].state # "absent"
  <1> USE DEF PipelineInv, Busy, GoTo, Workers
  <1>1. ASSUME at'[w] = at[w], cur'[w] = cur[w] PROVE at[w] = "returned"
    BY <1>1
  <1>2. ASSUME NEW x \in Workers, NEW r \in Requests,
               \/ TakeBuild(x, r) \/ TakePublish(x, r)
               \/ GiveUpBuild(x, r) \/ GiveUpPublish(x, r)
        PROVE  at'[w] = at[w] /\ cur'[w] = cur[w]
    BY <1>2 DEF TakeBuild, TakePublish, GiveUpBuild, GiveUpPublish, attempt
  <1>3. ASSUME NEW x \in Workers, Crash(x) \/ \E r \in Requests :
                                      EndBuild(x, r) \/ EndPublish(x, r)
        PROVE  at'[w] = at[w] /\ cur'[w] = cur[w]
    <2>1. Forget(x)
      BY <1>3 DEF Crash, EndBuild, EndPublish
    <2> QED BY <2>1 DEF Forget
  <1>4. ASSUME NEW x \in Workers, Notify(x) PROVE at'[w] = at[w] /\ cur'[w] = cur[w]
    BY <1>4 DEF Notify, OnFailed, attempt
  <1>5. ASSUME NEW r, Ask(r) \/ BuildTimer(r) \/ PublishTimer(r)
        PROVE  at'[w] = at[w] /\ cur'[w] = cur[w]
    BY <1>5 DEF Ask, FindBase, Enqueue, BuildTimer, PublishTimer, attempt
  <1>6. ASSUME NEW x \in Workers, NEW wrote \in BOOLEAN, Build(x, wrote)
        PROVE  at'[w] = at[w] /\ cur'[w] = cur[w]
    BY <1>6 DEF Build
  <1>7. ASSUME NEW x \in Workers, NEW o \in Outcomes,
               Find(x, o) \/ Write(x, o) \/ Note(x, o) \/ Post(x, o)
        PROVE  at'[w] = at[w] /\ cur'[w] = cur[w]
    <2>1. x # w /\ cur' = cur
      BY <1>7 DEF Find, Write, Note, Post, BuilderPlaces
    <2>2. \E p : at' = [at EXCEPT ![x] = p]
      BY <1>7 DEF Find, Write, Note, Post
    <2> QED BY <2>1, <2>2
  <1>8. ASSUME NEW x \in Workers, NEW o \in Outcomes, HandOn(x, o)
        PROVE  \/ at'[w] = at[w] /\ cur'[w] = cur[w]
               \/ cur'[w] = cur[w] /\ pJob'[cur[w]].state # "absent"
    <2>1. CASE x # w
      BY <1>8, <2>1 DEF HandOn
    <2>2. CASE x = w
      <3>1. PICK r \in Requests : r = cur[w]
        BY <1>8, <2>2 DEF HandOn
      <3>2. P!Add(r) /\ cur' = cur
        BY <1>8, <2>2, <3>1 DEF HandOn, QueuePublish
      <3>3. \A y \in Requests :
              pJob'[y] = IF y = r /\ pJob[r].state = "absent" THEN PP!NewJob ELSE pJob[y]
        BY <3>2, PublishOperations, QueueAssumptions, PP!AddEffect
      <3>4. PP!NewJob.state # "absent"
        BY DEF PP!NewJob, PP!NoJob
      <3> QED BY <3>1, <3>2, <3>3, <3>4
    <2> QED BY <2>1, <2>2
  <1>9. CASE UNCHANGED vars
    BY <1>9 DEF vars, attempt
  <1> QED BY <1>1, <1>2, <1>3, <1>4, <1>5, <1>6, <1>7, <1>8, <1>9
          DEF Next, Serve, Attend

(* Handing on survives every step.                                         *)
LEMMA HandingStep ==
  ASSUME PipelineInv, BP!QueueInv, PP!QueueInv, [Next]_vars PROVE Handing'
  <1>1. \A r : Versions(r) # {} => Versions(r)' # {}
    BY RowsStep, GrownKeeps
  <1>2. Busy /\ Handing
    BY DEF PipelineInv
  <1>3. \A w \in Publishers : at[w] = "returned" => Versions(cur[w]) # {}
    BY BackedHasVersion DEF PipelineInv, Linked
  <1>4. \A r \in Requests : pJob'[r].state = "completed" => Versions(r)' # {}
    <2> SUFFICES ASSUME NEW r \in Requests, pJob'[r].state = "completed"
                 PROVE  Versions(r) # {}
      BY <1>1
    <2> QED BY <1>2, <1>3, PublishEnds DEF Handing
  <1>5. \A r \in Requests : HandedOn(r) => HandedOn(r)'
    <2> SUFFICES ASSUME NEW r \in Requests, pJob[r].state # "absent",
                        pJob'[r].state = "absent"
                 PROVE  Versions(r) # {}
      BY <1>1 DEF HandedOn
    <2> QED BY <1>2, <1>3, PublishEnds DEF Handing
  <1>6. \A r \in Requests : bJob'[r].state = "completed" => HandedOn(r)'
    <2> SUFFICES ASSUME NEW r \in Requests, bJob'[r].state = "completed"
                 PROVE  HandedOn(r)
      BY <1>5
    <2> QED BY <1>2, BuildEnds DEF Handing
  <1>7. ASSUME NEW w \in Builders, at'[w] = "returned"
        PROVE  HandedOn(cur[w])' 
    <2>1. PICK r \in Requests : r = cur'[w]
      BY <1>7, <1>2, BusyStep DEF Busy, Workers
    <2>2. HandedOn(r)'
      <3>1. CASE at[w] = "returned" /\ cur'[w] = cur[w]
        BY <1>2, <1>5, <2>1, <3>1 DEF Handing
      <3>2. CASE cur'[w] = cur[w] /\ pJob'[cur[w]].state # "absent"
        BY <2>1, <3>2 DEF HandedOn
      <3> QED BY <1>7, <3>1, <3>2, Returns
    <2> QED BY <2>1, <2>2 DEF HandedOn, Versions
  <1> QED BY <1>4, <1>6, <1>7 DEF Handing

-----------------------------------------------------------------------------
(* Types and links.                                                        *)

(* What every action keeps: errors are counted up to the bound.            *)
LEMMA OutcomeCounts ==
  ASSUME faults \in 0..MaxFaults, NEW o, Outcome(o) PROVE faults' \in 0..MaxFaults
  BY PipelineAssumption DEF Outcome

(* The page a new request starts from is made of requests.                 *)
LEMMA BaseIsPage ==
  ASSUME LocalType PROVE LatestPage \in SUBSET Requests
  <1>1. CASE artifacts = <<>>
    BY <1>1 DEF LatestPage
  <1>2. CASE artifacts # <<>>
    <2>1. artifacts[Len(artifacts)] \in Artifact
      BY <1>2 DEF LocalType
    <2>2. PICK a \in Artifact : a = artifacts[Len(artifacts)]
      BY <2>1
    <2>3. \A v \in a.versions : Page(v.by) \subseteq Requests
      BY DEF Artifact, Page, LocalType
    <2>4. LatestPage = UNION {Page(v.by) : v \in {x \in a.versions : x.number = a.latest}}
      BY <1>2, <2>2 DEF LatestPage
    <2> QED BY <2>3, <2>4
  <1> QED BY <1>1, <1>2

LEMMA ForgetTypes ==
  ASSUME LocalType, NEW w, Forget(w)
  PROVE  /\ found' \in [Publishers -> [artifact : Nat, latest : Nat]]
         /\ link' \in [Publishers -> Links \cup {None}]
  <1>1. found' = found \/ found' = [found EXCEPT ![w] = NothingFound]
    BY DEF Forget
  <1>2. link' = link \/ link' = [link EXCEPT ![w] = None]
    BY DEF Forget
  <1>3. NothingFound \in [artifact : Nat, latest : Nat]
    BY DEF NothingFound
  <1>4. found' \in [Publishers -> [artifact : Nat, latest : Nat]]
    BY <1>1, <1>3 DEF LocalType
  <1>5. link' \in [Publishers -> Links \cup {None}]
    BY <1>2 DEF LocalType
  <1> QED BY <1>4, <1>5

LEMMA TypeStep ==
  ASSUME PipelineInv, [Next]_vars PROVE LocalType'
  <1>1. artifacts' \in Seq(Artifact)
    BY RowsStep
  <1> USE <1>1 DEF PipelineInv, LocalType
  <1>2. CASE UNCHANGED vars
    BY <1>2 DEF vars, request, attempt, output, publishes
  <1>3. ASSUME NEW r \in Requests, Ask(r) \/ BuildTimer(r) \/ PublishTimer(r)
        PROVE  LocalType'
    <2>1. ASSUME NEW o \in Outcomes, FindBase(r, o) PROVE LocalType'
      BY <2>1, OutcomeCounts, BaseIsPage
         DEF FindBase, publishes, attempt, output
    <2>2. ASSUME NEW o \in Outcomes, Enqueue(r, o) PROVE LocalType'
      BY <2>2, OutcomeCounts DEF Enqueue, publishes, attempt, output
    <2>3. CASE BuildTimer(r) \/ PublishTimer(r)
      BY <2>3 DEF BuildTimer, PublishTimer, publishes, request, attempt, output
    <2> QED BY <1>3, <2>1, <2>2, <2>3 DEF Ask
  <1>4. ASSUME NEW w \in Workers, Serve(w) PROVE LocalType'
    <2>1. ASSUME NEW r \in Requests, TakeBuild(w, r) \/ TakePublish(w, r)
          PROVE  LocalType'
      BY <2>1 DEF TakeBuild, TakePublish, publishes, request, output
    <2>2. ASSUME NEW r \in Requests, GiveUpBuild(w, r) \/ GiveUpPublish(w, r)
          PROVE  LocalType'
      <3>1. reports' = reports \/ reports' = reports \cup {<<w, r>>}
        BY <2>2 DEF GiveUpBuild, GiveUpPublish
      <3>2. UNCHANGED <<published, request, found, link, output, faults>>
        BY <2>2 DEF GiveUpBuild, GiveUpPublish, publishes, attempt
      <3> QED BY <3>1, <3>2 DEF request, output
    <2> QED BY <1>4, <2>1, <2>2 DEF Serve
  <1>5. ASSUME NEW w \in Workers, Notify(w) PROVE LocalType'
    <2>1. PICK r \in Requests, o \in Outcomes : OnFailed(w, r, o)
      BY <1>5 DEF Notify
    <2>2. notes' \in [Requests -> SUBSET {"no_build", "no_publish"}]
      BY <2>1 DEF OnFailed
    <2>3. /\ UNCHANGED <<published, request, found, link, artifacts, posts>>
          /\ reports' \subseteq reports /\ Outcome(o)
      BY <2>1 DEF OnFailed, publishes, attempt
    <2> QED BY <2>2, <2>3, OutcomeCounts DEF request
  <1>6. ASSUME NEW w \in Workers, Crash(w) PROVE LocalType'
    <2>1. /\ reports' \subseteq reports
          /\ UNCHANGED <<published, request, output, faults>>
      BY <1>6 DEF Crash, publishes
    <2> QED BY <1>6, <2>1, ForgetTypes DEF Crash, request, output
  <1>7. ASSUME NEW w \in Workers, NEW r \in Requests, EndBuild(w, r) \/ EndPublish(w, r)
        PROVE  LocalType'
    <2>1. reports' = reports \/ reports' = reports \cup {<<w, r>>}
      BY <1>7 DEF EndBuild, EndPublish
    <2>2. Forget(w) /\ UNCHANGED <<published, request, output, faults>>
      BY <1>7 DEF EndBuild, EndPublish, publishes
    <2> QED BY <2>1, <2>2, ForgetTypes DEF request, output
  <1>8. ASSUME NEW w \in Workers, NEW wrote \in BOOLEAN, Build(w, wrote)
        PROVE  LocalType'
    BY <1>8 DEF Build, publishes, request, output
  <1>9. ASSUME NEW w \in Workers, NEW o \in Outcomes, HandOn(w, o) PROVE LocalType'
    BY <1>9, OutcomeCounts
       DEF HandOn, QueuePublish, publishes, request, output
  <1>10. ASSUME NEW w \in Workers, NEW o \in Outcomes, Find(w, o) PROVE LocalType'
    <2>1. Existing \in [artifact : Nat, latest : Nat]
      <3>1. artifacts # <<>> => artifacts[Len(artifacts)] \in Artifact
        OBVIOUS
      <3> QED BY <3>1 DEF Existing, NothingFound, Artifact
    <2> QED BY <1>10, <2>1, OutcomeCounts DEF Find, publishes, request, output
  <1>11. ASSUME NEW w \in Workers, NEW o \in Outcomes, Write(w, o) PROVE LocalType'
    <2>1. w \in Publishers
      BY <1>11 DEF Write, Busy, Workers, BuilderPlaces
    <2>2. link' \in [Publishers -> Links \cup {None}]
      BY <1>11, <2>1, WriteRows
    <2>3. /\ UNCHANGED <<publishes, request, posts, notes, reports>>
          /\ found' = [found EXCEPT ![w] = NothingFound] /\ Outcome(o)
      BY <1>11 DEF Write
    <2> QED BY <2>2, <2>3, OutcomeCounts DEF NothingFound, publishes, request
  <1>12. ASSUME NEW w \in Workers, NEW o \in Outcomes, Note(w, o) PROVE LocalType'
    <2>1. w \in Publishers /\ cur[w] \in Requests
      BY <1>12 DEF Note, Busy, Workers, BuilderPlaces
    <2>2. published' \in [Requests -> Links \cup {None}]
      BY <1>12, <2>1 DEF Note
    <2>3. UNCHANGED <<request, found, link, output, reports>> /\ Outcome(o)
      BY <1>12 DEF Note
    <2> QED BY <2>2, <2>3, OutcomeCounts DEF request, output
  <1>13. ASSUME NEW w \in Workers, NEW o \in Outcomes, Post(w, o) PROVE LocalType'
    <2>1. w \in Publishers /\ cur[w] \in Requests /\ link[w] \in Links
      BY <1>13 DEF Post, Busy, Workers, BuilderPlaces, Linked
    <2> QED BY <1>13, <2>1, OutcomeCounts DEF Post, publishes, request
  <1> QED BY <1>2, <1>3, <1>4, <1>5, <1>6, <1>7, <1>8, <1>9, <1>10, <1>11, <1>12,
          <1>13 DEF Next, Attend

LEMMA LinkedStep ==
  ASSUME PipelineInv, [Next]_vars PROVE Linked'
  <1>1. /\ \A r, l : Backed(r, l) => Backed(r, l)'
        /\ 0..Len(artifacts) \subseteq 0..Len(artifacts')
        /\ artifacts \in Seq(Artifact) /\ artifacts' \in Seq(Artifact)
    <2>1. /\ Grown /\ artifacts \in Seq(Artifact) /\ artifacts' \in Seq(Artifact)
          /\ Len(artifacts) \in Nat /\ Len(artifacts') \in Nat
      BY RowsStep DEF PipelineInv, LocalType
    <2>2. \A r, l : Backed(r, l) => Backed(r, l)'
      BY <2>1, GrownKeeps
    <2> QED BY <2>1, <2>2 DEF Grown
  (* What it means of one publisher and of one request.                    *)
  <1> DEFINE Knows(w) == /\ found[w].artifact \in 0..Len(artifacts)
                         /\ at[w] \in {"noting", "posting", "returned"}
                               => link[w] # None
                         /\ link[w] # None => Backed(cur[w], link[w])
             Noted(r) == /\ published[r] # None => Backed(r, published[r])
                         /\ \A l \in posts[r] : Backed(r, l)
  <1>2. \A r \in Requests : Noted(r)
    BY DEF PipelineInv, Linked
  <1>3. \A w \in Publishers : Knows(w)
    BY DEF PipelineInv, Linked
  <1>4. ASSUME NEW w \in Publishers, UNCHANGED <<found[w], at[w], link[w], cur[w]>>
        PROVE  Knows(w)'
    BY <1>1, <1>3, <1>4 DEF Backed
  <1>5. ASSUME NEW r \in Requests, UNCHANGED <<published[r], posts[r]>>
        PROVE  Noted(r)'
    BY <1>1, <1>2, <1>5 DEF Backed
  <1> DEFINE Goal == /\ \A w \in Publishers : Knows(w)'
                    /\ \A r \in Requests : Noted(r)'
  <1> SUFFICES Goal
    BY DEF Linked
  <1> USE PipelineAssumption DEF GoTo
  <1>t. Busy /\ LocalType /\ Workers = Builders \cup Publishers
    BY DEF PipelineInv, Workers
  <1>6. ASSUME UNCHANGED <<attempt, published, posts>> PROVE Goal
    BY <1>4, <1>5, <1>6 DEF attempt
  <1>7. ASSUME NEW r, Ask(r) \/ BuildTimer(r) \/ PublishTimer(r) PROVE Goal
    BY <1>6, <1>7 DEF Ask, FindBase, Enqueue, BuildTimer, PublishTimer,
       publishes, output
  <1>8. ASSUME NEW w, NEW r, GiveUpBuild(w, r) \/ GiveUpPublish(w, r) PROVE Goal
    BY <1>6, <1>8 DEF GiveUpBuild, GiveUpPublish, publishes, output
  <1>9. ASSUME NEW w, Notify(w) PROVE Goal
    BY <1>6, <1>9 DEF Notify, OnFailed, publishes
  <1>10. ASSUME NEW w \in Builders, NEW r \in Requests, TakeBuild(w, r) PROVE Goal
    <2>1. /\ \A x \in Publishers : UNCHANGED <<found[x], at[x], link[x], cur[x]>>
          /\ UNCHANGED <<published, posts>>
      BY <1>10, <1>t DEF TakeBuild, publishes, output, Busy
    <2> QED BY <2>1, <1>4, <1>5
  <1>11. ASSUME NEW w \in Publishers, NEW r \in Requests, TakePublish(w, r) PROVE Goal
    <2>1. /\ \A x \in Publishers \ {w} : UNCHANGED <<found[x], at[x], link[x], cur[x]>>
          /\ UNCHANGED <<published, posts, found>>
      BY <1>11, <1>t DEF TakePublish, output, Busy, LocalType
    <2>2. cur'[w] = r /\ link'[w] = published[r]
      BY <1>11, <1>t DEF TakePublish, Busy, LocalType
    <2>3. at'[w] = IF published[r] = None THEN "finding" ELSE "posting"
      BY <1>11, <1>t DEF TakePublish, Busy
    <2>4. Knows(w)'
      BY <1>1, <1>2, <1>3, <2>1, <2>2, <2>3 DEF Backed
    <2> QED BY <2>1, <2>4, <1>4, <1>5
  <1>12. ASSUME NEW w \in Workers, Forget(w), UNCHANGED <<published, posts>> PROVE Goal
    <2>1. \A x \in Publishers \ {w} : UNCHANGED <<found[x], at[x], link[x], cur[x]>>
      BY <1>12, <1>t DEF Forget, Busy, LocalType
    <2>2. w \in Publishers => /\ at'[w] = "idle" /\ link'[w] = None
                              /\ found'[w] = NothingFound
      BY <1>12, <1>t DEF Forget, Busy, LocalType
    <2>3. Len(artifacts') \in Nat
      BY <1>1
    <2>4. w \in Publishers => Knows(w)'
      BY <2>2, <2>3 DEF NothingFound
    <2> QED BY <1>12, <2>1, <2>4, <1>4, <1>5
  <1>13. ASSUME NEW w \in Workers, Crash(w) PROVE Goal
    BY <1>12, <1>13 DEF Crash, publishes, output
  <1>14. ASSUME NEW w \in Workers, NEW r, EndBuild(w, r) \/ EndPublish(w, r) PROVE Goal
    BY <1>12, <1>14 DEF EndBuild, EndPublish, publishes, output
  <1>15. ASSUME NEW w \in Workers, NEW wrote, Build(w, wrote) PROVE Goal
    <2>1. w \in Builders /\ UNCHANGED <<cur, found, link, published, posts>>
      BY <1>15, <1>t DEF Build, Busy, PublisherPlaces, publishes, output
    <2>2. \A x \in Publishers : at'[x] = at[x]
      BY <1>15, <1>t, <2>1 DEF Build, Busy
    <2> QED BY <2>1, <2>2, <1>4, <1>5
  <1>16. ASSUME NEW w \in Workers, NEW o, HandOn(w, o) PROVE Goal
    <2>1. w \in Builders /\ UNCHANGED <<cur, found, link, posts>>
      BY <1>16, <1>t DEF HandOn, Busy, PublisherPlaces, output
    <2>2. \A x \in Publishers : at'[x] = at[x]
      BY <1>16, <1>t, <2>1 DEF HandOn, Busy
    <2>3. \A r \in Requests : published'[r] \in {None, published[r]}
      BY <1>16, <1>t DEF HandOn, QueuePublish, publishes, LocalType
    <2>4. \A r \in Requests : Noted(r)'
      BY <1>1, <1>2, <2>1, <2>3 DEF Backed
    <2> QED BY <2>1, <2>2, <2>4, <1>4
  <1>17. ASSUME NEW w \in Workers, NEW o, Find(w, o) PROVE Goal
    <2>1. w \in Publishers /\ UNCHANGED <<cur, link, published, posts, artifacts>>
      BY <1>17, <1>t DEF Find, Busy, BuilderPlaces, publishes, output
    <2>2. /\ \A x \in Publishers \ {w} : UNCHANGED <<found[x], at[x]>>
          /\ at'[w] \in {"writing", "threw"}
          /\ found'[w] \in {found[w], Existing}
      BY <1>17, <1>t, <2>1 DEF Find, Busy, LocalType
    <2>3. Existing.artifact \in 0..Len(artifacts)
      BY <1>1 DEF Existing, NothingFound
    <2>4. Knows(w)'
      BY <1>1, <1>3, <2>1, <2>2, <2>3 DEF Backed
    <2> QED BY <2>1, <2>2, <2>4, <1>4, <1>5
  <1>18. ASSUME NEW w \in Workers, NEW o, Write(w, o) PROVE Goal
    <2>1. w \in Publishers /\ UNCHANGED <<cur, published, posts>>
      BY <1>18, <1>t DEF Write, Busy, BuilderPlaces, publishes
    <2>2. found' = [found EXCEPT ![w] = NothingFound]
      BY <1>18 DEF Write
    <2>3. Len(artifacts') \in Nat
      BY <1>1
    <2>4. CASE at' = [at EXCEPT ![w] = "threw"] /\ link' = link
      <3>0. found'[w].artifact = 0 /\ at'[w] = "threw"
        BY <1>t, <2>1, <2>2, <2>4 DEF Busy, LocalType, NothingFound
      <3>1. Knows(w)'
        BY <1>1, <1>3, <2>1, <2>3, <2>4, <3>0 DEF Backed
      <3>2. \A x \in Publishers \ {w} : UNCHANGED <<found[x], at[x], link[x], cur[x]>>
        BY <1>t, <2>1, <2>2, <2>4 DEF Busy, LocalType
      <3> QED BY <2>1, <3>1, <3>2, <1>4, <1>5
    <2>5. ASSUME NEW l \in Links, Backed(cur[w], l)',
                 at' = [at EXCEPT ![w] = "noting"], link' = [link EXCEPT ![w] = l]
          PROVE  Goal
      <3>1. link'[w] = l /\ l # None /\ found'[w].artifact = 0
        BY <1>t, <2>1, <2>2, <2>5 DEF LocalType, NothingFound
      <3>2. Knows(w)'
        BY <2>1, <2>3, <2>5, <3>1 DEF Backed
      <3>3. \A x \in Publishers \ {w} : UNCHANGED <<found[x], at[x], link[x], cur[x]>>
        BY <1>t, <2>1, <2>2, <2>5 DEF Busy, LocalType
      <3> QED BY <2>1, <3>2, <3>3, <1>4, <1>5
    <2> QED BY <1>18, <2>1, <2>4, <2>5, WriteRows
  <1>19. ASSUME NEW w \in Workers, NEW o, Note(w, o) PROVE Goal
    <2>1. w \in Publishers /\ UNCHANGED <<cur, found, link, posts>>
      BY <1>19, <1>t DEF Note, Busy, BuilderPlaces, output
    <2>2. PICK r \in Requests : r = cur[w]
      BY <1>19, <1>t DEF Note, Busy
    <2>3. /\ \A x \in Publishers \ {w} : at'[x] = at[x]
          /\ link[w] # None /\ Backed(r, link[w])
      BY <1>19, <1>t, <1>3, <2>1, <2>2 DEF Note, Busy
    <2>4. \A x \in Requests :
            published'[x] = published[x] \/ (x = r /\ published'[x] = link[w])
      BY <1>19, <1>t, <2>2 DEF Note, LocalType
    <2>5. \A x \in Requests : Noted(x)'
      BY <1>1, <1>2, <2>1, <2>3, <2>4 DEF Backed
    <2>6. Knows(w)'
      BY <1>1, <1>3, <2>1, <2>2, <2>3 DEF Backed
    <2> QED BY <2>1, <2>3, <2>5, <2>6, <1>4
  <1>20. ASSUME NEW w \in Workers, NEW o, Post(w, o) PROVE Goal
    <2>1. w \in Publishers /\ UNCHANGED <<cur, found, link, published>>
      BY <1>20, <1>t DEF Post, Busy, BuilderPlaces, publishes
    <2>2. PICK r \in Requests : r = cur[w]
      BY <1>20, <1>t DEF Post, Busy
    <2>3. /\ \A x \in Publishers \ {w} : at'[x] = at[x]
          /\ link[w] # None /\ Backed(r, link[w])
      BY <1>20, <1>t, <1>3, <2>1, <2>2 DEF Post, Busy
    <2>4. \A x \in Requests, l \in Links \cup {None} :
            l \in posts'[x] => l \in posts[x] \/ (x = r /\ l = link[w])
      BY <1>20, <1>t, <2>2 DEF Post, LocalType
    <2>a. \A x \in Requests : posts'[x] \subseteq Links \cup {None}
      BY <1>20, <1>t, <2>1, <2>2 DEF Post, LocalType
    <2>5. \A x \in Requests : Noted(x)'
      BY <1>1, <1>2, <2>1, <2>3, <2>4, <2>a DEF Backed
    <2>6. Knows(w)'
      BY <1>1, <1>3, <2>1, <2>2, <2>3 DEF Backed
    <2> QED BY <2>1, <2>3, <2>5, <2>6, <1>4
  <1>21. CASE UNCHANGED vars
    BY <1>6, <1>21 DEF vars, publishes, output
  <1> QED BY <1>7, <1>8, <1>9, <1>10, <1>11, <1>13, <1>14, <1>15, <1>16, <1>17,
          <1>18, <1>19, <1>20, <1>21 DEF Next, Serve, Attend

LEMMA PipelineStep ==
  ASSUME PipelineInv, BP!QueueInv, PP!QueueInv, [Next]_vars PROVE PipelineInv'
  <1>1. Busy'
    BY BusyStep DEF PipelineInv
  <1> QED BY <1>1, RowsStep, HandingStep, TypeStep, LinkedStep DEF PipelineInv

(* Every step of the pipeline, a crash, a failure and a retry included,    *)
(* keeps the invariant from which the theorems below follow.               *)
THEOREM PipelineCorrect == Spec => []PipelineInv
  <1>1. PipelineInv /\ BP!QueueInv /\ PP!QueueInv /\ [Next]_vars => PipelineInv'
    BY PipelineStep
  <1> QED BY <1>1, PipelineInitInv, PipelineQueuesCorrect, PTL DEF Spec

-----------------------------------------------------------------------------
(* What the pipeline guarantees.                                           *)

(* Every variable keeps its type.                                          *)
THEOREM PipelineTypeOK == Spec => []TypeOK
  <1>1. BP!QueueInv => B!QueueTypeOK
    BY DEF BP!QueueInv, BP!QueueTypeOK, B!QueueTypeOK, BP!JobRecord, B!JobRecord,
       BP!States, B!States
  <1>2. PP!QueueInv => P!QueueTypeOK
    BY DEF PP!QueueInv, PP!QueueTypeOK, P!QueueTypeOK, PP!JobRecord, P!JobRecord,
       PP!States, P!States
  <1>3. PipelineInv /\ BP!QueueInv /\ PP!QueueInv => TypeOK
    BY <1>1, <1>2 DEF PipelineInv, Busy, LocalType, TypeOK
  <1> QED BY <1>3, PipelineCorrect, PipelineQueuesCorrect, PTL

(* The versions of an artifact are numbered without gap or duplicate, a    *)
(* posted link leads to a version saved for its request, and no completed  *)
(* build is lost between the queues: overlapping transactions, lost        *)
(* answers, retries, stalls and crashes included.                          *)
THEOREM PipelinePublishedRight == Spec => []PublishedRight
  <1>1. PipelineInv => VersionsInOrder
    BY DEF PipelineInv, RowsInOrder, InOrder, VersionsInOrder
  <1>2. PipelineInv => AnnouncedIsPublished
    BY DEF PipelineInv, Linked, Backed, AnnouncedIsPublished
  <1>3. PipelineInv => CompletedIsHandedOn
    BY DEF PipelineInv, Handing, HandedOn, CompletedIsHandedOn
  <1>4. PipelineInv => PublishedRight
    BY <1>1, <1>2, <1>3 DEF PublishedRight
  <1> QED BY <1>4, PipelineCorrect, PTL

(* A transaction that found no row finds none still when it writes, as     *)
(* long as no other publishes.                                             *)
OneRow ==
    /\ Len(artifacts) <= 1
    /\ \A w \in Publishers : at[w] = "writing" /\ found[w].artifact = 0
                              => Len(artifacts) = 0

LEMMA OneRowStep ==
  ASSUME \A w, x \in Publishers : w = x, OneRow, PipelineInv, [Next]_vars
  PROVE  OneRow'
  <1>t. Busy /\ LocalType /\ Workers = Builders \cup Publishers
    BY DEF PipelineInv, Workers
  <1>1. ASSUME NEW w \in Workers, NEW o, Write(w, o) PROVE OneRow'
    <2>1. w \in Publishers
      BY <1>1, <1>t DEF Write, Busy, BuilderPlaces
    <2>2. \A x \in Publishers : at'[x] # "writing"
      BY <1>1, <1>t, <2>1 DEF Write, GoTo, Busy
    <2>3. PICK f : f = found[w]
      OBVIOUS
    <2>4. PICK r : r = cur[w]
      OBVIOUS
    <2>5. \/ artifacts' = artifacts
          \/ f.artifact = 0 /\ artifacts' = CreateArtifact(r)
          \/ artifacts' = AddVersion(r, f)
      BY <1>1, <2>3, <2>4 DEF Write
    <2>6. f.artifact = 0 => Len(artifacts) = 0
      BY <1>1, <2>1, <2>3 DEF OneRow, Write
    <2>7. artifacts' = AddVersion(r, f) => Len(artifacts') = Len(artifacts)
      BY <1>t DEF AddVersion, LocalType
    <2>8. f.artifact = 0 /\ artifacts' = CreateArtifact(r) => Len(artifacts') <= 1
      BY <1>t, <2>6 DEF CreateArtifact, LocalType
    <2>9. Len(artifacts') <= 1
      BY <2>5, <2>7, <2>8 DEF OneRow
    <2> QED BY <2>2, <2>9 DEF OneRow
  <1>2. ASSUME NEW w \in Workers, NEW o, Find(w, o) PROVE OneRow'
    <2>1. w \in Publishers /\ artifacts' = artifacts
      BY <1>2, <1>t DEF Find, Busy, BuilderPlaces, output
    <2>2. \A x \in Publishers : x = w
      BY <2>1
    <2>3. at'[w] = "writing" => found'[w] = Existing
      BY <1>2, <1>t, <2>1 DEF Find, GoTo, Busy, LocalType
    <2>4. Existing.artifact = 0 => Len(artifacts) = 0
      BY <1>t DEF Existing, LocalType
    <2> QED BY <2>1, <2>2, <2>3, <2>4 DEF OneRow
  <1>3. ASSUME artifacts' = artifacts,
               \A x \in Publishers : at'[x] = "writing" => at[x] = "writing",
               \A x \in Publishers : found'[x] = found[x] \/ at'[x] # "writing"
        PROVE  OneRow'
    BY <1>3 DEF OneRow
  <1>4. ASSUME NEW w, Forget(w), artifacts' = artifacts PROVE OneRow'
    <2>1. \A x \in Publishers : x # w => at'[x] = at[x] /\ found'[x] = found[x]
      BY <1>4, <1>t DEF Forget, GoTo, Busy, LocalType
    <2>2. \A x \in Publishers : x = w => at'[x] = "idle"
      BY <1>4, <1>t DEF Forget, GoTo, Busy
    <2> QED BY <1>3, <1>4, <2>1, <2>2
  <1>5. ASSUME NEW w \in Workers, NEW r \in Requests,
               \/ TakeBuild(w, r) \/ TakePublish(w, r)
               \/ GiveUpBuild(w, r) \/ GiveUpPublish(w, r)
        PROVE  OneRow'
    <2>1. artifacts' = artifacts /\ found' = found
      BY <1>5 DEF TakeBuild, TakePublish, GiveUpBuild, GiveUpPublish, attempt,
         output
    <2>2. \A x \in Publishers : at'[x] = "writing" => at[x] = "writing"
      BY <1>5, <1>t DEF TakeBuild, TakePublish, GiveUpBuild, GiveUpPublish,
         GoTo, attempt, Busy
    <2> QED BY <1>3, <2>1, <2>2
  <1>6. ASSUME NEW w \in Workers, NEW o \in Outcomes,
               HandOn(w, o) \/ Note(w, o) \/ Post(w, o)
        PROVE  OneRow'
    <2>1. artifacts' = artifacts /\ found' = found
      BY <1>6 DEF HandOn, Note, Post, output
    <2>2. \A x \in Publishers : at'[x] = "writing" => at[x] = "writing"
      BY <1>6, <1>t DEF HandOn, Note, Post, GoTo, Busy
    <2> QED BY <1>3, <2>1, <2>2
  <1>7. ASSUME NEW w \in Workers, NEW wrote \in BOOLEAN, Build(w, wrote) PROVE OneRow'
    <2>1. artifacts' = artifacts /\ found' = found
      BY <1>7 DEF Build, output
    <2>2. \A x \in Publishers : at'[x] = "writing" => at[x] = "writing"
      BY <1>7, <1>t DEF Build, GoTo, Busy
    <2> QED BY <1>3, <2>1, <2>2
  <1>8. ASSUME NEW w \in Workers, Notify(w) PROVE OneRow'
    BY <1>3, <1>8 DEF Notify, OnFailed, attempt
  <1>9. ASSUME NEW r, Ask(r) \/ BuildTimer(r) \/ PublishTimer(r) PROVE OneRow'
    BY <1>3, <1>9 DEF Ask, FindBase, Enqueue, BuildTimer, PublishTimer, attempt,
       output
  <1>10. ASSUME NEW w \in Workers, Crash(w) \/ \E r \in Requests :
                                     EndBuild(w, r) \/ EndPublish(w, r)
         PROVE  OneRow'
    BY <1>4, <1>10 DEF Crash, EndBuild, EndPublish, output
  <1>11. CASE UNCHANGED vars
    BY <1>3, <1>11 DEF vars, attempt, output
  <1> QED BY <1>1, <1>2, <1>5, <1>6, <1>7, <1>8, <1>9, <1>10, <1>11
          DEF Next, Serve, Attend

(* A thread has one artifact when a single web process publishes, even     *)
(* with crashes and repeated publications; MCArtifactTwoProcesses shows    *)
(* that a second process breaks it.                                        *)
THEOREM PipelineOneArtifact ==
  ASSUME \A w, x \in Publishers : w = x
  PROVE  Spec => []OneArtifact
  <1>1. Init => OneRow
    BY DEF Init, OneRow, Workers
  <1>2. OneRow /\ PipelineInv /\ [Next]_vars => OneRow'
    BY OneRowStep
  <1>3. OneRow => OneArtifact
    BY DEF OneRow, OneArtifact
  <1> QED BY <1>1, <1>2, <1>3, PipelineCorrect, PTL DEF Spec
=============================================================================
