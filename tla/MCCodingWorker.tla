--------------------------- MODULE MCCodingWorker ---------------------------
(* What the coding worker runs for the agents: the tasks of one thread,    *)
(* the file tools of the artifact builder and the commands of a sandbox.   *)
(* They share no data, so that one behaviour exercises one of them, that   *)
(* which is engaged.  Render runs one instance of the worker (its disk is  *)
(* attached to one), so there is one processor for its queue; the web      *)
(* process has that of the summaries.                                      *)
EXTENDS CodingTask, ArtifactFiles, LocalSandbox, TLC

CONSTANTS t1, t2, th1, repoA, repoB, coder, poster

VARIABLE engaged    \* constant: which of the three moves

MCThreadOf == [t \in Tasks |-> th1]
MCRepoOf == t1 :> repoA @@ t2 :> repoB

WorkerQueues == {TaskQueue, SummaryQueue}
WorkerJobs == Tasks \cup Runs
WorkerQueueOf == [id \in WorkerJobs |-> IF id \in Tasks THEN TaskQueue ELSE SummaryQueue]
WorkerServedBy == coder :> TaskQueue @@ poster :> SummaryQueue
WorkerPlaces == {"idle", "returned", "threw"} \cup CodingAwaits
WorkerAttemptsOf == [q \in WorkerQueues |-> 2]
WorkerKeepOf == [q \in WorkerQueues |-> 100]

(* Texts of two characters, and what a few edits make of them.             *)
Strings(n) == UNION {[1..k -> Characters] : k \in 0..n}
MCTexts == Strings(4)
MCPages == {<<"a", "b", "a">>, <<"a", "a", "a">>, <<"b", "a", "b">>}
MCEdits == [old : {<<"a">>, <<"a", "a">>, <<"a", "b">>}, new : {<<>>, <<"b">>}]
MCEditLists == {<<e>> : e \in MCEdits} \cup {<<e, f>> : e, f \in MCEdits}

workerVars == <<queues, attempts, faults, codingVars, filesVars, sandboxVars, engaged>>

WorkerInit ==
    /\ engaged \in {"tasks", "files", "command"}
    /\ ProcessorsInit /\ CodingInit /\ FilesInit /\ SandboxInit
    /\ engaged # "files" => page = NoPage

(* A step of one part leaves the others alone.                             *)
Tasking(A) == engaged = "tasks" /\ A /\ UNCHANGED <<filesVars, sandboxVars, engaged>>
Filing(A)  == /\ engaged = "files" /\ A
              /\ UNCHANGED <<queues, attempts, faults, codingVars, sandboxVars, engaged>>
Running(A) == /\ engaged = "command" /\ A
              /\ UNCHANGED <<queues, attempts, faults, codingVars, filesVars, engaged>>

WorkerNext == Tasking(CodingNext) \/ Filing(FilesNext) \/ Running(SandboxNext)

WorkerProgress == Tasking(CodingProgress) \/ Running(SandboxProgress)

WorkerSpec == WorkerInit /\ [][WorkerNext]_workerVars /\ WF_workerVars(WorkerProgress)

(* The types of all parts.                                                 *)
WorkerTypesOK == ProcessorsTypeOK /\ CodingTypeOK /\ FilesTypeOK /\ SandboxTypeOK

(* Tasks and their summaries end, and so does a command that is aborted.   *)
WorkerSettles == EveryTaskSettles /\ AbortedEnds
=============================================================================
