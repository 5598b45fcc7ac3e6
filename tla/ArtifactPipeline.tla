-------------------------- MODULE ArtifactPipeline --------------------------
(***************************************************************************)
(* Artifacts of one Slack thread.  The assistant queues a request together *)
(* with the page that is published at that moment; the coding worker       *)
(* builds the page and queues its publication; the web process saves it as *)
(* a version in the database and posts the link.  The two queues retry on  *)
(* their own, and every await is a step.                                   *)
(*                                                                         *)
(* A page is the set of requests whose change it contains.                 *)
(***************************************************************************)
EXTENDS Naturals, Sequences, FiniteSets

CONSTANTS
    Requests,       \* calls of the requestArtifact tool in the thread
    Builders,       \* coding workers serving artifact-build
    Publishers,     \* web processes serving artifact-publish
    None,
    BuildAttempts, PublishAttempts, MaxStalls, KeepBuilt,   \* see JobQueue
    Faults,         \* what may become of a call that errors
    MaxFaults       \* bound: calls that error

(* Where a published page is found.                                        *)
Links == [artifact : Nat \ {0}, version : Nat \ {0}]

(* "lost": it had no effect; "late": it had, and the answer got lost.      *)
ASSUME PipelineAssumption ==
    /\ Builders \cap Publishers = {}
    /\ None \notin Requests \cup Builders \cup Publishers /\ None \notin Links
    /\ BuildAttempts \in Nat \ {0} /\ PublishAttempts \in Nat \ {0}
    /\ MaxStalls \in Nat /\ KeepBuilt \in Nat
    /\ Faults \subseteq {"lost", "late"} /\ MaxFaults \in Nat

Workers == Builders \cup Publishers

VARIABLES
    bJob, bWaiting, bKept,  \* the artifact-build queue
    pJob, pWaiting, pKept,  \* the artifact-publish queue
    asked, base,            \* each request: its progress, its base page
    at, cur,                \* where each worker is, and in which request
    found,                  \* what a publisher's transaction has read
    link,                   \* the version a publisher is to announce
    published,              \* job.data.published of each publish job
    artifacts,              \* rows of the thread, by creation
    reports,                \* onFailed handlers still to post
    posts, notes,           \* links and failures posted for each request
    faults                  \* errors so far

builds    == <<bJob, bWaiting, bKept>>
publishes == <<pJob, pWaiting, pKept, published>>
request   == <<asked, base>>
attempt   == <<at, cur, found, link>>
output    == <<artifacts, posts, notes>>
vars == <<builds, publishes, request, attempt, output, reports, faults>>

B == INSTANCE JobQueue WITH Jobs <- Requests, Workers <- Builders,
        NoWorker <- None, Attempts <- BuildAttempts,
        KeepCompleted <- KeepBuilt,
        job <- bJob, waiting <- bWaiting, kept <- bKept

(* removeOnComplete: true frees the publish job's id when it completes.    *)
P == INSTANCE JobQueue WITH Jobs <- Requests, Workers <- Publishers,
        NoWorker <- None, Attempts <- PublishAttempts, KeepCompleted <- 0,
        job <- pJob, waiting <- pWaiting, kept <- pKept

Places == {"idle", "building", "handing_on",
           "finding", "writing", "noting", "posting", "returned", "threw"}

(* The row of an artifact, with the versions that point to it.             *)
Artifact == [latest   : Nat \ {0},
             versions : SUBSET [number : Nat \ {0}, by : Requests]]

TypeOK ==
    /\ B!QueueTypeOK /\ P!QueueTypeOK
    /\ asked \in [Requests -> {"no", "based", "queued", "refused"}]
    /\ base \in [Requests -> SUBSET Requests]
    /\ at \in [Workers -> Places]
    /\ cur \in [Workers -> Requests \cup {None}]
    /\ found \in [Publishers -> [artifact : Nat, latest : Nat]]
    /\ link \in [Publishers -> Links \cup {None}]
    /\ published \in [Requests -> Links \cup {None}]
    /\ artifacts \in Seq(Artifact)
    /\ reports \subseteq Workers \X Requests
    /\ posts \in [Requests -> SUBSET Links]
    /\ notes \in [Requests -> SUBSET {"no_build", "no_publish"}]
    /\ faults \in 0..MaxFaults

NothingFound == [artifact |-> 0, latest |-> 0]

Init ==
    /\ B!QueueInit /\ P!QueueInit
    /\ asked = [r \in Requests |-> "no"]
    /\ base = [r \in Requests |-> {}]
    /\ at = [w \in Workers |-> "idle"]
    /\ cur = [w \in Workers |-> None]
    /\ found = [w \in Publishers |-> NothingFound]
    /\ link = [w \in Publishers |-> None]
    /\ published = [r \in Requests |-> None]
    /\ artifacts = <<>>
    /\ reports = {}
    /\ posts = [r \in Requests |-> {}]
    /\ notes = [r \in Requests |-> {}]
    /\ faults = 0

-----------------------------------------------------------------------------
Outcomes == {"ok"} \cup Faults

Outcome(o) ==
    /\ o # "ok" => faults < MaxFaults
    /\ faults' = IF o = "ok" THEN faults ELSE faults + 1

GoTo(w, place) == at' = [at EXCEPT ![w] = place]

(* The page that a request leads to: a revision keeps the rest of its base.*)
Page(r) == base[r] \cup {r}

(* findLatestHtmlInThread: the newest artifact's last version, or nothing. *)
LatestPage ==
    IF artifacts = <<>> THEN {}
    ELSE LET a == artifacts[Len(artifacts)]
         IN  UNION {Page(v.by) : v \in {x \in a.versions : x.number = a.latest}}

-----------------------------------------------------------------------------
(* ArtifactRequestService.request, in the tool call of the assistant.      *)
FindBase(r, o) ==
    /\ asked[r] = "no"
    /\ Outcome(o)
    /\ IF o = "ok" THEN /\ asked' = [asked EXCEPT ![r] = "based"]
                        /\ base' = [base EXCEPT ![r] = LatestPage]
                   ELSE /\ asked' = [asked EXCEPT ![r] = "refused"]
                        /\ UNCHANGED base
    /\ UNCHANGED <<builds, publishes, attempt, output, reports>>

Enqueue(r, o) ==
    /\ asked[r] = "based"
    /\ Outcome(o)
    /\ IF o = "lost" THEN UNCHANGED builds ELSE B!Add(r)
    /\ asked' = [asked EXCEPT ![r] = IF o = "ok" THEN "queued" ELSE "refused"]
    /\ UNCHANGED <<publishes, base, attempt, output, reports>>

-----------------------------------------------------------------------------
(* ArtifactBuildProcessor.  Every attempt starts over from the base page.  *)
TakeBuild(w, r) ==
    /\ at[w] = "idle"
    /\ B!Take(w, r)
    /\ GoTo(w, "building")
    /\ cur' = [cur EXCEPT ![w] = r]
    /\ UNCHANGED <<publishes, request, found, link, output, reports, faults>>

(* The agent writes the page, or fails, times out or writes nothing.       *)
Build(w, wrote) ==
    /\ at[w] = "building"
    /\ GoTo(w, IF wrote THEN "handing_on" ELSE "threw")
    /\ UNCHANGED <<builds, publishes, request, cur, found, link, output,
                   reports, faults>>

(* The publish job's id is derived from the build job's.                   *)
QueuePublish(r) ==
    /\ P!Add(r)
    /\ published' = IF pJob[r].state = "absent"
                    THEN [published EXCEPT ![r] = None] ELSE published

HandOn(w, o) ==
    /\ at[w] = "handing_on"
    /\ Outcome(o)
    /\ IF o = "lost" THEN UNCHANGED publishes ELSE QueuePublish(cur[w])
    /\ GoTo(w, IF o = "ok" THEN "returned" ELSE "threw")
    /\ UNCHANGED <<builds, request, cur, found, link, output, reports>>

-----------------------------------------------------------------------------
(* ArtifactPublishProcessor.  A page that an earlier attempt saved and     *)
(* noted in the job's data is only announced.                              *)
TakePublish(w, r) ==
    /\ at[w] = "idle"
    /\ P!Take(w, r)
    /\ UNCHANGED published
    /\ cur' = [cur EXCEPT ![w] = r]
    /\ link' = [link EXCEPT ![w] = published[r]]
    /\ GoTo(w, IF published[r] = None THEN "finding" ELSE "posting")
    /\ UNCHANGED <<builds, request, found, output, reports, faults>>

(* ArtifactRepository.publish, a transaction at READ COMMITTED: what it    *)
(* found may have changed when it writes.                                  *)
(* Variants, each named for the slip it makes, stand before what they      *)
(* replace: the runs show that the properties tell them apart.             *)
ExistingOverlooked == NothingFound

Existing ==
    IF artifacts = <<>> THEN NothingFound
    ELSE [artifact |-> Len(artifacts), latest |-> artifacts[Len(artifacts)].latest]

Find(w, o) ==
    /\ at[w] = "finding"
    /\ Outcome(o)
    /\ found' = IF o = "ok" THEN [found EXCEPT ![w] = Existing] ELSE found
    /\ GoTo(w, IF o = "ok" THEN "writing" ELSE "threw")
    /\ UNCHANGED <<builds, publishes, request, cur, link, output, reports>>

ChangedUnnoticed(f) == FALSE

(* The update counts no row.                                               *)
Changed(f) == artifacts[f.artifact].latest # f.latest

(* The rows as the transaction leaves them, for request r.                 *)
CreateArtifact(r) ==
    Append(artifacts, [latest |-> 1, versions |-> {[number |-> 1, by |-> r]}])

AddVersion(r, f) ==
    [artifacts EXCEPT ![f.artifact] =
        [latest   |-> f.latest + 1,
         versions |-> @.versions \cup {[number |-> f.latest + 1, by |-> r]}]]

LinkToFound(f) ==
    [artifact |-> IF f.artifact = 0 THEN Len(artifacts) + 1 ELSE f.artifact,
     version  |-> f.latest]

LinkTo(f) ==
    IF f.artifact = 0 THEN [artifact |-> Len(artifacts) + 1, version |-> 1]
                      ELSE [artifact |-> f.artifact, version |-> f.latest + 1]

Write(w, o) ==
    /\ at[w] = "writing"
    /\ Outcome(o)
    /\ LET f == found[w]
           refused == f.artifact # 0 /\ Changed(f)
       IN  /\ artifacts' = IF o = "lost" \/ refused THEN artifacts
                           ELSE IF f.artifact = 0 THEN CreateArtifact(cur[w])
                           ELSE AddVersion(cur[w], f)
           /\ IF o = "ok" /\ ~refused
              THEN /\ link' = [link EXCEPT ![w] = LinkTo(f)]
                   /\ GoTo(w, "noting")
              ELSE GoTo(w, "threw") /\ UNCHANGED link
    /\ found' = [found EXCEPT ![w] = NothingFound]
    /\ UNCHANGED <<builds, publishes, request, cur, posts, notes, reports>>

(* job.updateData, which fails when the job is gone.                       *)
Note(w, o) ==
    /\ at[w] = "noting"
    /\ Outcome(o)
    /\ LET r    == cur[w]
           gone == pJob[r].state = "absent"
       IN  /\ published' = IF o = "lost" \/ gone THEN published
                           ELSE [published EXCEPT ![r] = link[w]]
           /\ GoTo(w, IF o = "ok" /\ ~gone THEN "posting" ELSE "threw")
    /\ UNCHANGED <<builds, pJob, pWaiting, pKept, request, cur, found, link,
                   output, reports>>

Post(w, o) ==
    /\ at[w] = "posting"
    /\ Outcome(o)
    /\ posts' = IF o = "lost" THEN posts
                ELSE [posts EXCEPT ![cur[w]] = @ \cup {link[w]}]
    /\ GoTo(w, IF o = "ok" THEN "returned" ELSE "threw")
    /\ UNCHANGED <<builds, publishes, request, cur, found, link, artifacts,
                   notes, reports>>

-----------------------------------------------------------------------------
Forget(w) ==
    /\ GoTo(w, "idle")
    /\ cur' = [cur EXCEPT ![w] = None]
    /\ IF w \in Publishers THEN /\ found' = [found EXCEPT ![w] = NothingFound]
                                /\ link' = [link EXCEPT ![w] = None]
                           ELSE UNCHANGED <<found, link>>

(* The worker tells its queue, which refuses if the lock was lost; the     *)
(* failed event of the last attempt leads to a note in the thread.         *)
EndBuild(w, r) ==
    /\ w \in Builders /\ cur[w] = r
    /\ \/ /\ at[w] = "returned" /\ B!Complete(w, r)
          /\ UNCHANGED reports
       \/ /\ at[w] = "threw" /\ B!Fail(w, r)
          /\ reports' = IF B!LastAttempt(r) THEN reports \cup {<<w, r>>}
                                            ELSE reports
       \/ /\ at[w] \in {"returned", "threw"} /\ ~B!HoldsLock(w, r)
          /\ UNCHANGED <<builds, reports>>
    /\ Forget(w)
    /\ UNCHANGED <<publishes, request, output, faults>>

EndPublish(w, r) ==
    /\ w \in Publishers /\ cur[w] = r
    /\ \/ /\ at[w] = "returned" /\ P!Complete(w, r)
          /\ UNCHANGED reports
       \/ /\ at[w] = "threw" /\ P!Fail(w, r)
          /\ reports' = IF P!LastAttempt(r) THEN reports \cup {<<w, r>>}
                                            ELSE reports
       \/ /\ at[w] \in {"returned", "threw"} /\ ~P!HoldsLock(w, r)
          /\ UNCHANGED <<pJob, pWaiting, pKept, reports>>
    /\ Forget(w)
    /\ UNCHANGED <<builds, published, request, output, faults>>

(* A job that stalled too often fails without an attempt.                  *)
GiveUpBuild(w, r) ==
    /\ at[w] = "idle" /\ B!GiveUp(r)
    /\ reports' = IF B!LastAttempt(r) THEN reports \cup {<<w, r>>} ELSE reports
    /\ UNCHANGED <<publishes, request, attempt, output, faults>>

GiveUpPublish(w, r) ==
    /\ at[w] = "idle" /\ P!GiveUp(r)
    /\ reports' = IF P!LastAttempt(r) THEN reports \cup {<<w, r>>} ELSE reports
    /\ UNCHANGED <<builds, published, request, attempt, output, faults>>

(* The failed handlers; an error of theirs is only logged.                 *)
OnFailed(w, r, o) ==
    /\ <<w, r>> \in reports
    /\ Outcome(o)
    /\ reports' = reports \ {<<w, r>>}
    /\ notes' = IF o = "lost" THEN notes
                ELSE [notes EXCEPT ![r] = @ \cup
                        {IF w \in Builders THEN "no_build" ELSE "no_publish"}]
    /\ UNCHANGED <<builds, publishes, request, attempt, artifacts,
                   posts>>

BuildTimer(r) ==
    /\ B!Promote(r) \/ B!Stall(r)
    /\ UNCHANGED <<publishes, request, attempt, output, reports, faults>>

PublishTimer(r) ==
    /\ P!Promote(r) \/ P!Stall(r)
    /\ UNCHANGED <<builds, published, request, attempt, output, reports, faults>>

(* A process dies; an open transaction is rolled back.                     *)
Crash(w) ==
    /\ at[w] # "idle"
    /\ Forget(w)
    /\ reports' = {x \in reports : x[1] # w}
    /\ UNCHANGED <<builds, publishes, request, output, faults>>

-----------------------------------------------------------------------------
Ask(r) == \E o \in Outcomes : FindBase(r, o) \/ Enqueue(r, o)

Attend(w) ==
    \/ \E wrote \in BOOLEAN : Build(w, wrote)
    \/ \E o \in Outcomes : \/ HandOn(w, o) \/ Find(w, o) \/ Write(w, o)
                           \/ Note(w, o) \/ Post(w, o)
    \/ \E r \in Requests : EndBuild(w, r) \/ EndPublish(w, r)

Serve(w) ==
    \E r \in Requests :
      \/ w \in Builders /\ (TakeBuild(w, r) \/ GiveUpBuild(w, r))
      \/ w \in Publishers /\ (TakePublish(w, r) \/ GiveUpPublish(w, r))

Notify(w) == \E r \in Requests, o \in Outcomes : OnFailed(w, r, o)

Next ==
    \/ \E r \in Requests : Ask(r) \/ BuildTimer(r) \/ PublishTimer(r)
    \/ \E w \in Workers : Serve(w) \/ Attend(w) \/ Notify(w) \/ Crash(w)

Spec == Init /\ [][Next]_vars

(* Workers poll and their calls return (a build is aborted after 15        *)
(* minutes); backoff timers fire; the jobs of dead workers are found.      *)
BuildOrphaned(r) == bJob[r].state = "active" /\ cur[bJob[r].owner] # r
PublishOrphaned(r) == pJob[r].state = "active" /\ cur[pJob[r].owner] # r

Fairness ==
    /\ \A w \in Workers : WF_vars(Serve(w)) /\ WF_vars(Attend(w))
    /\ \A r \in Requests :
         /\ WF_vars((BuildOrphaned(r) \/ bJob[r].state = "delayed") /\ BuildTimer(r))
         /\ WF_vars((PublishOrphaned(r) \/ pJob[r].state = "delayed")
                      /\ PublishTimer(r))

FairSpec == Spec /\ Fairness

-----------------------------------------------------------------------------
Versions(r) == {v \in UNION {artifacts[a].versions : a \in DOMAIN artifacts} :
                  v.by = r}

(* The versions of an artifact are numbered without a gap or a duplicate   *)
(* up to the latest one, however publications overlap, fail or repeat.     *)
VersionsInOrder ==
    \A a \in DOMAIN artifacts :
      LET vs == artifacts[a].versions
      IN  /\ {v.number : v \in vs} = 1..artifacts[a].latest
          /\ Cardinality(vs) = artifacts[a].latest

(* A link that is posted for a request leads to a saved version that was   *)
(* built for that request, also after retries that reuse what an earlier   *)
(* attempt noted.                                                          *)
AnnouncedIsPublished ==
    \A r \in Requests : \A l \in posts[r] :
      /\ l.artifact \in DOMAIN artifacts
      /\ [number |-> l.version, by |-> r] \in artifacts[l.artifact].versions

(* No build is lost between the queues: a completed build is published, or *)
(* its publication is still queued or has been given up.                   *)
CompletedIsHandedOn ==
    \A r \in Requests :
      bJob[r].state = "completed" =>
        pJob[r].state # "absent" \/ Versions(r) # {}

(* What was built is published, in order, and where its link says.         *)
PublishedRight == VersionsInOrder /\ AnnouncedIsPublished /\ CompletedIsHandedOn

(* "A thread has one artifact" (employee-assistant.prompt.ts:37).          *)
OneArtifact == Len(artifacts) <= 1

(* Every request that reached the build queue is settled: its build fails, *)
(* or is handed on and its publication ends.                               *)
EveryRequestSettles ==
    \A r \in Requests :
      bJob[r].state = "waiting" ~>
        /\ B!Settled(r) \/ bJob[r].state = "absent"
        /\ pJob[r].state \in {"absent", "failed"}

=============================================================================
