# Verification of ai-workforce

TLA+ models of the asynchronous core of ai-workforce: the BullMQ queues and the
workers behind them, what they write to RazorpayX Payroll, Redis, PostgreSQL
and Slack, and what they tell people about it. The models are checked with TLC
on small instances; the properties that matter most are proved with TLAPS for
every value of the constants.

Paths below are relative to the repository's `src/modules/`, except
`teleport-alloydb-mcp/` and `scripts/`, which are at its root. `PROJECT.json`
names files from one level above the repository, which it calls `src`.

## 1. The system

ai-workforce is a NestJS service. Slack, GitHub and Zoho deliver events to a
web process; listeners turn them into BullMQ jobs in Redis; processors, in the
web process or in a coding worker, run the jobs, which call language models and
external services, and answer in Slack or Zoho. Nothing is coordinated across
processes but through Redis and PostgreSQL. A deploy overlaps two processes,
and every process may die at any moment.

| Component | State | Operations | Talks to |
|---|---|---|---|
| Job queues (`queue/queue.module.ts`, `*/queues/*.ts`) | jobs by id, wait list, retained jobs | add under an id, take, complete, fail and retry, promote, stall | every listener and processor |
| Leave tracker (`leave-tracker/`) | the job's attempt; the record is RazorpayX's | listener, classify, plan, resolve, mark each day, reply, failure notice | queue, Slack, classifier, RazorpayX client |
| Leave plan (`leave-tracker/utils/leave-plan.ts`) | the loop's lists | one iteration per entry | leave tracker |
| RazorpayX client (`razorpayx/`) | none | `fetchAttendance`, `modifyAttendance` (PATCH, then POST), 15 s timeout | RazorpayX |
| Snack tracker (`snack-tracker/` listener and processor) | the job's attempt | listener, classify, record, confirm | queue, ledger, Slack |
| Snacks ledger (`snack-tracker/services/snacks-ledger.service.ts`, tools) | two Redis lists and a key per message | record, fulfill, list | Redis; the tools of the assistant |
| Artifacts (`artifacts/`: request, build, publish) | two queues, `job.data.published`, rows in PostgreSQL | request with base page, build, publish, announce | assistant, coding worker, PostgreSQL, Slack |
| Artifact file tools, sessions, page controller (`artifacts/tools`, `controllers`) | the page of one build, a chain of pending calls, sessions per thread | write, edit, resume, serve | builder agent, browser |
| Coding agent and sandbox (`coding-agent/`) | a session file per thread, a workspace, child processes | delegate, find, run, stop, save, summarize; spawn, abort | assistant, git, Slack |
| Kong route sync (`kong-route-sync/`) and GitHub webhook (`github/`) | three queues | webhook, detect, code, notify | GitHub, coding agent, Slack |
| Zoho webhook and client, customer support, Form 9 (`zoho/`, `customer-support/`, `form9/`) | two queues, a cached token | webhook, draft a comment, classify a ticket | Zoho Desk |
| Slack bots, employee assistant, agent registry, MCP clients | registered agents, connected clients | mentions, tools, startup | Slack, MCP servers |
| Teleport bridge (`teleport-alloydb-mcp/`) | two child processes | start, supervise | Teleport, the database |

What is hard, and where:

- *Redelivery and retry.* Slack repeats an event; BullMQ repeats an attempt that
  threw, and one whose process died or lost its lock. Only the job id, while the
  job is retained, and the ledger's key per message stand between a repeat and a
  second effect.
- *Partial failure.* Each handler makes several external calls in a row. Any of
  them may fail, also after it took effect; the next attempt starts over.
- *Overlap.* `concurrency: 1` holds per process. A lost lock, or a deploy, puts
  two attempts at the same job side by side.
- *Stale reads.* The attendance read before a write, the two lists of the ledger,
  the artifact row a transaction found, the base page of a revision.
- *Start and restart.* Processors take jobs before agents are registered; a
  mention that was being answered is lost with its process.
- *Liveness.* A job that fails, stalls or hangs must still end, and be reported.

Correctness, per component:

- queue: its lists and records agree; a settled job never runs again while it is
  retained; retries are used up before a job is given up; every job settles;
- leave tracker: what is reported as marked was accepted for that message;
  nothing is written that was not asked for; a message is answered, and not more
  often than there were faults; the failure notice comes last;
- leave plan: each day gets the best mark asked for, and no day is lost;
- ledger: it is a book, in which a pledge is owed once and settled once, by its
  owner; a listing is current although it reads two lists;
- snack tracker: one round and one note per message;
- artifacts: versions in order, links that lead to what was built, nothing lost
  between the queues, every request settles; an edit is made whole or not at all,
  but for a write that is cut off;
- coding agent: a run continues from all the work its thread was told of, in one
  repository; finished work is reported; no agent is left running without need;
- sandbox: success is reported only of a command that succeeded, and an abort
  ends it;
- Kong route sync: one coding job per merge, only the author of a merged change
  of routes is told, and a finished sync is announced;
- customer support: one comment per job, no reported mail is left out, fields are
  not overwritten by later events; no request carries an expired token; the most
  specific row of the mapping applies;
- assistant: it listens only when it has all its tools, and a mention gets one
  reply;
- Teleport bridge: no proxy serves with an expired certificate.

The hazards, each at its line and with the properties that cover it, are in
`PROJECT.json`.

## 2. The modules

```
JobQueue <-- INSTANCE -- LeaveTracker        LeavePlan (its plan is an input there)
         <-- INSTANCE -- SnackTracker -- INSTANCE --> SnacksLedger -- refines --> PledgeBook
         <-- INSTANCE, twice -- ArtifactPipeline
         <-- refines, once per queue -- Processors
Processors <-- EXTENDS -- CodingTask, KongRouteSync, ZohoPipeline
alone: SlackAssistant  ArtifactFiles  LocalSandbox  Form9Mapping  ZohoToken  TeleportBridge
MCBuildingBlocks = JobQueue, LeavePlan, SnacksLedger, Form9Mapping, ZohoToken, TeleportBridge
MCCodingWorker   = CodingTask, ArtifactFiles, LocalSandbox
MCWebProcess     = KongRouteSync, ZohoPipeline, SlackAssistant
MCLeaveTracker  MCSnackTracker  MCArtifactPipeline
proofs, each EXTENDS what it is about:
JobQueueProofs  LeaveTrackerProofs  SnacksLedgerProofs  SnackTrackerProofs
ArtifactPipelineProofs  ProcessorsProofs
BuildingBlocksProofs = MCBuildingBlocks, JobQueueProofs, SnacksLedgerProofs
PipelinesProofs      = MCWebProcess, MCCodingWorker, ProcessorsProofs
```

The three modules that put several components side by side have a variable
`part` (`engaged` in MCCodingWorker): the components share no data, so that one
behaviour exercises one of them, and the state graph is the disjoint union of theirs.

A step of a model is the code between two awaits. Names follow the source. In
each module some operators are *variants*: a definition with one plausible slip
in it (`AddSettledAgain`, `ModifyErrorIgnored`, ...), placed before the one it
would replace. Nothing uses them; put in place of the original, each makes a
run report the property it is listed with in `PROJECT.json` under `mutants`.

**JobQueue**. One BullMQ queue as `queue.module.ts` configures it. `job` holds
state, `attemptsMade`, stall counter and lock owner of each id; `waiting` is the
wait list; `kept` the completed jobs still retained. `Add` is a no-op on an
id that is retained. `Fail` delays the job, or ends it at the last attempt;
`Promote` is the end of a backoff; `Stall` is a lost lock, after which the old
owner may still be running; `GiveUp` fails a job that stalled too often without
calling the processor; `Complete` drops the oldest completed job beyond
`removeOnComplete`. BullMQ is a library: what is modelled is what the
processors rely on. Failed jobs are retained (500 of them) and are never dropped
in the model.

**LeaveTracker**. `leave-tracker.listener.ts`, `.processor.ts`,
`leave-attendance.service.ts`, `leave-message-context.service.ts`,
`leave-reply.ts` and the client. `pc`, `cur`, `plan`, `clean`, `mark`, `answer`
are one worker's attempt; `rec` is the attendance record, `late` the requests
that RazorpayX may still execute after the client gave up. `Classify` stands for
the Slack reads, the model call and the branches on its answer; `Resolve` finds
the employee and starts `Promise.all`, after which each day goes its own way
(`ReadBefore`, `Patch`, `Post`, `ReadBack`); `Conclude` decides on silence or a
report; `Respond`, `OnFailed` post. `applied`, `held` and `told` are history:
what RazorpayX accepted per message, what the record has shown, and what people
were told. One employee is modelled: two records never meet. The classifier's
answer is any member of `Verdicts[m]`, possibly another one on each attempt.

**LeavePlan**. `planLeaveRequest`, one iteration of its loop per step. Dates are
day numbers; a kind matters as leave or WFH, a portion as full or half.

**SnacksLedger**. `SnacksLedgerService`, one Redis command per step. A command
may fail without effect (`lost`) or have been executed although it errored
(`late`); a call may die between two commands. `GetList` is taken once per list
in either order, as `Promise.all` allows. `lates` counts the answers that were
lost of commands that were executed: `Times`, how often a list has a pledge, may
exceed one by no more than that.

**PledgeBook**. The abstract promise: `Owe` a pledge once, `Settle` it once.
SnacksLedger implements it with owed = pledges without a
fulfillment, settled = fulfillments.

**SnackTracker**. Listener and processor over both: the attempt of a worker
calls the ledger under the worker's name, and a crash kills the call with it.

**ArtifactPipeline**. All requests of one thread. A page is the set of requests
whose change it contains, so a revision is its base page and one more element.
`FindBase`/`Enqueue` are the tool call; `Build`/`HandOn` an attempt of the build
job; `Find`, `Write`, `Note`, `Post` one of the publish job, where `Find` and
`Write` are the two halves of the READ COMMITTED transaction. The publish job's
id is the build job's, and free again once it completes. `artifacts` lists the
thread's rows in the order in which they were written; `createdAt` is taken to
agree with that order. Links and notes in the thread are sets.

**Processors**. What CodingTask, KongRouteSync and ZohoPipeline have in common:
several queues, one processor for each, and where each attempt is (`at`), place
by place, one place per await (`KongAwaits`, `ZohoAwaits`, `CodingAwaits`). `Enqueue`, `Begin`, `End`, `GiveUp`, `Promote`,
`Stall` are the operations of JobQueue over many queues; that each queue still
is a JobQueue is checked (`QueuesAreJobQueues`). A call ends `"ok"`, or errors
without effect (`"lost"`) or after it took effect (`"late"`). `Crash` ends the
attempts of a process; its jobs are found by their expired locks.

**CodingTask**. `DelegateCodingTask`, `CodingTaskProcessor.process` and the
summary processor. `MakeWorkspace` is the `mkdir`, `FindSession` what `find` makes
of the file: a `readFile` that is rejected for any reason is as good as no file, so
the attempt starts anew and its save replaces what was there; a file that is read
and is no JSON makes the attempt throw. `unread` remembers what a thread had done
when a session of it was passed over in this way. `file` is `session.json` of each thread, which `Truncate` and
`WriteOut` replace in two steps, as `writeFile` does, so that it may be left
torn. `session` is what an attempt has read; its memory is the set of tasks whose
work the agent finds when it resumes. `live` are the harness sessions running,
`ran`, `used`, `shown` are history. Render runs a single coding worker (its disk
is attached to one instance, `render.yaml:81`), hence one processor of tasks;
after a lost lock its second attempt waits for the first.

**ArtifactFiles**. `createArtifactFileTools`: `pending` is the chain of `inOrder`,
of which only the first call runs; `Read` and `Edit` are the two halves of an
edit around its await. A page that cannot be read counts as missing. `WriteFile` may
be rejected, before or after it truncated the page, and then leaves the page as it
was or a beginning of what it was to be (`Beginnings`); `broken` remembers such calls.
A page is a sequence of `Characters`;
`Occurrences` is `content.split(oldString).length - 1`, and `Applied` the reduction
over the edits of a call. The property restates what a call promises by
its result alone (`EditsOnce`, `EditsInOrder`), not by these operators.

**LocalSandbox**. `run` and `spawn` of `LocalSandboxSession`, with bash, a child
that bash leaves in the background and that keeps the streams open, the caller's
abort, and the moment from which an abort is heard (`abortable`).

**KongRouteSync**. `GitHubWebhookService.handleWebhook` and the listener
(`OnPullRequestClosed`), the processors that detect, code and notify. What a
pull request is like (merged, of the source repository, of a denied author,
touching routes, with a commit of its author) is in constant sets. `Notice` names a
notification by the attempt that adds it, as the job itself has no id.

**ZohoPipeline**. `HandleWebhook` verifies and dispatches; `AddJob` are the
listeners, whose errors are only logged; the two processors read the ticket, then
draft and comment, or classify and update. `seen` is the conversation an attempt
has read, `covered` the mails some comment was written about. After a restart
(`CrashZoho`) the processors take jobs at once, but agents are registered by
`Bootstrap` only: an attempt in between throws ("No agent registered").

**ZohoToken**. `getAccessToken` under concurrent callers, with time. A token's
life begins when Zoho issues it; `expiresAt` is computed when the answer arrives.

**Form9Mapping**. `lookupForm9` and the enum of rails. The rows of the CSV that is
kept: 176, without duplicates, and every rail and every category has its default.

**SlackAssistant**. The start of the web process (MCP clients in `onModuleInit`,
registration in `onApplicationBootstrap`, then listening) and
`SlackBotService.answer` of each mention, with its `catch`; the user may stop a
reply at any moment.

**TeleportBridge**. `start.mjs`: tbot, which renews an identity on disk, the proxy,
which reads it once, the restart timer, and the launcher that exits with either.

## 3. The runs

Properties of one subject are checked together, as the conjunction named before
the parentheses; each part has its own definition and comment in its module. A
`TypeOK`, `TypesOK` or `WorkerTypesOK` is the type invariant of the modules of its run.

| Run | Instance | Shows |
|---|---|---|
| `building_blocks` | *queue*: 3 jobs, 2 workers, 2 attempts, 1 stall, 1 completed job retained. *plan*: every list of up to two entries over seven days (a Wednesday to the Tuesday after), limit 4. *ledger*: 2 recordings, 2 tool calls, 1 pledge, 2 people, 2 faults of any kind. *mapping*: every table of up to 3 rows over six nodes and two treatments. *token*: 2 callers, 11 ticks, a life of 5. *bridge*: a life of 12, renewal after 4, restart after 7 ticks | the queue under the most general clients (`QueueIsSound` (`ListsExact`, `GivenUpOnlyAtLimit`), `SettledOnce`, `EveryJobSettles`); `PlanIsRight` (`MarksAreBest`, `NothingDropped`); `LedgerIsHonest` (`ListedOnce`, `FreshMeansListed`), `ListIsCurrent`, `BookIsKept` (the refinement of `PledgeBook`, `SettledByOwner`); `MostSpecificRow`; `NeverSendsExpired`; `CertificateIsValid` |
| `leave_two_days` | a thread reply for two days, a bot's post, 1 worker, 2 attempts, requests that are set or late, four readings of the message | `ReplyIsBacked`, `OnlyWhatWasAsked`, `AnsweredRight` (`AnswersBounded`, `SorryOnlyWhenExhausted`, `CompletedIsAnswered`), `EveryMessageSettles` |
| `leave_two_workers` | one message delivered twice, 2 workers, 2 readings, one edit by people, requests that are set, filed for approval or without effect | `ReplyIsBacked` and `AnsweredRight` with two overlapping attempts |
| `snack_tracker` | one message delivered twice, 2 workers, completed jobs not retained, 2 faults of any kind | `NotedOnce` (`OneRoundPerMessage`, `NotedMeansPledged`): one note, and one round or one more per lost answer |
| `artifact_overlap` | 2 requests, 1 builder, 2 publishers, 2 publish attempts, 1 fault of any kind | `PublishedRight` (`VersionsInOrder`, `AnnouncedIsPublished`, `CompletedIsHandedOn`) |
| `artifact_one_process` | 2 requests, 1 builder, 1 publisher, 2 attempts each | `OneArtifact`, `EveryRequestSettles` |
| `coding_worker` | *tasks*: 2 tasks of one thread that name two repositories, 2 attempts each, 2 faults of any kind (errors, rejected reads, cut writes, lost locks, crashes). *files*: 2 calls, one or two edits each, pages of up to 3 characters, each write whole or cut off anywhere. *command*: all of one command | `SessionIsKept` (`ContinuesTheThread`, `OneRepoPerSession`), `WorkEndsClean` (`CompletedIsSummarized`, `LeftoversHadTrouble`); `AllOrNothing`; `SuccessIsReal`; `WorkerSettles` (`EveryTaskSettles`, `AbortedEnds`) |
| `web_process` | *kong*: 3 deliveries of 2 pull requests, 2 faults. *ticket*: a new ticket and its first mail, 2 faults. *mails*: 2 deliveries with three mails of a ticket, one of them by support, 1 fault. *assistant*: 2 mentions, 2 clients, 2 errors or restarts | `SyncIsRight` (`OneSyncPerPull`, `DMedAboutRoutes`, `SyncedIsNotified`, `AgentsAreStopped`); `CommentsAreDue` (`OneCommentPerJob`, `CompletedIsCommented`), `NoMailLeftBehind`, `FieldsAreFinal`; `ListensFullyEquipped`, `OneReplyPerMention`; `EverythingSettles` (`EverySyncSettles`, `EveryTicketSettles`, `EveryMentionEnds`); `QueuesAreJobQueues` |

Four more runs end in a counterexample: each checks what a text of the
repository says, and finds the code doing otherwise.

| Run | Text | What the code does |
|---|---|---|
| `leave_notice` | "nothing was updated in RazorpayX" (`leave-tracker.processor.ts:50`) | The last attempt marks a day, fails to post its report, and the notice is posted. |
| `snack_retry` | "so a retry can re-append this pledge" (`snacks-ledger.service.ts:68`) | The process dies after the key is set and before the append; nothing takes the key back, the retry sees a repeated message, and the pledge is never in the ledger. |
| `artifact_two_processes` | "A thread has one artifact." (`employee-assistant.prompt.ts:37`) | Two web processes publish for a new thread, both find none, both create one. |
| `artifact_rerun` | "keep everything else as it is" (`artifact-builder.prompt.ts:48`) | A build that loses its lock after it queued its publication builds again from its old base; its publication's id is free by then, and the page replaces a later revision. |

**Bounds.** Each is the smallest at which the case it is for happens. Two
workers and one stall let two attempts overlap; two attempts let a retry meet
the effects of the first; two deliveries let a redelivery meet a job in any
state, and `KeepCompleted = 0` one that is forgotten. Two days mark
concurrently. Two faults let the rollback of a failed command fail too. One
pledge suffices for the ledger: messages share no key, and what a list has of one does not
depend on the others. Two requests of a thread are a first page
and a revision, or two first pages. Ranges of up to five days around a limit of
four, a window of five days and a weekend in it reach every branch of the plan,
and two entries every comparison. Two tasks of a thread let one resume the
session of the other, in between of which a save may be torn. Three deliveries
are a merge reported twice, in any order and overlap, and a pull request closed
without a merge. Two edits of three characters let the second edit meet what the
first one made. Three rows are one per specificity. Eleven ticks are two lives
of a token, in which two callers can overtake each other; the bridge is followed
without a bound, as ages wrap at renewals and restarts.
The constants named `MaxDeliveries`, `MaxEdits`, `MaxFaults`, `MaxEntries`,
`MaxRows`, `MaxCalls`, `MaxClock` and `MaxTroubles` bound the environment, not
the code; `MaxRuns` and `MaxSyncs` are the attempts that retries and stalls can
add up to, which the type invariants check. `Bounded` in MCWebProcess keeps the
larger parts to one fault, but for a second one in the second attempt of a sync.
`artifact_one_process` has no command faults and a publisher that tries twice:
failures come from builds that throw, processes that die and locks that are lost.

Deadlock is not checked where the system may really stop: all messages
delivered, all jobs settled.

**Symmetry.** Workers, calls of one kind, requests and publishers are
interchangeable; symmetry is used in runs without liveness properties, and in
`building_blocks` over the calls of the ledger, which the liveness property of
that run, about the queue alone, does not mention.

**Fairness.** Workers take jobs when idle and their attempts go on: every
payroll request has a timeout of 15 seconds (`razorpayx-payroll.service.ts:14`),
a build is aborted after 15 minutes (`artifact-build.processor.ts`), and other
calls are assumed to return or fail. Backoff timers fire. BullMQ's check for
stalled jobs finds jobs whose worker is gone. A lock that expires while its
owner lives, a crash, a redelivery, a late request and an edit are never fair:
they may happen or not. A queue is promised less: some worker takes a job when one is idle, and the
attempt at each job goes on (`QueueFairness`). In the modules over Processors
what is fair is that *something* among polling, the calls of attempts, timers and
orphaned jobs goes on while any of it can (`CodingProgress`, `KongProgress`,
`ZohoProgress`): a single process with one event loop. The work of an agent is
not fair, since nothing in the code bounds it, so `EveryTaskSettles`,
`EverySyncSettles`, `EveryTicketSettles` and `EveryMentionEnds` hold unless an
agent never returns. Their "settles" is `[]<>`: the queues run dry again and
again, in spite of redeliveries. In the sandbox only that a killed bash goes and
that node reports it is fair: a command may run for ever. Handlers of the failed event are fair in the leave
tracker only. Crashes are not bounded by fairness, but every one costs a stall,
and stalls are limited.

## 4. The proofs

TLC checks the instances of section 3; the theorems hold for any sets of jobs,
messages, days, workers, people, callers, pages and edits, and for any limits.
Every invariant and every property of steps that a passing run checks is stated by a
theorem; what remains is liveness.

### Assumptions and settings

*Assumptions on constants.* Most say that counts are naturals, that the null
value is none of the others and which queue an id belongs to (`QueueAssumption`,
`LeaveAssumption`, `PlanAssumption`, `LedgerAssumption`, `TrackerAssumption`,
`PipelineAssumption`, `ProcessorsAssumption`, `KongAssumption`,
`CodingAssumption`, `SandboxAssumption`). Those that say more:

- `FilesAssumption`, `TextsAssumption`: pages are sequences of characters, a call has
  an edit and no edit looks for the empty string (the schema of the tool), and `Texts`
  is closed under edits and under cutting off an end.
- `SandboxAssumption`: the outcome of a killed command is none that bash exits with,
  nor the 1 that `close` puts in its place.
- `FinitelyMany`: finitely many messages and workers, for counting answers.
- `ZohoTokenAssumption`, `TeleportAssumption`: how the delays fit together, which
  the two theorems about expiry rest on.
- `MappingAssumption`: the parser makes rows of triples, and none is the value for
  "no row".
- `ZohoAssumption`: no ticket shares an id with a mail. The drafts of both are jobs
  of one queue, under those ids, so that one would otherwise swallow the other.

*Settings.* Some theorems hold in a deployment that the constants need not
describe. Their hypotheses are part of their statements, and the instances of the
runs satisfy them:

| Setting | Says | Because |
|---|---|---|
| `KongSetting`, `SessionSetting`, `TaskSetting` | one processor serves the queue of the coding worker | its disk is attached to one instance (`render.yaml:81`). |
| `DraftSetting` | there are finitely many processors | attempts are counted. |
| `KongSetting`, `SummarySetting`, `TaskSetting`, `DraftSetting`, `Form9Setting` | the queue retains as many completed jobs as there are ids | it retains 100 (`queue.module.ts`): the theorems speak of as many jobs as that. An id that was dropped may be added again. |
| of `PipelineOneArtifact` | there is one publisher | with two it is false (`artifact_two_processes`). |

`AnswersBounded` has the retention in its own statement
(`KeepCompleted >= Cardinality(Messages)`). No theorem limits how many processors
the queues of the web process have, other than those of the artifacts; but a crash ends
the attempts of all of them: of two overlapping web processes one may lose locks,
not die alone.

### The queues and their clients

- **JobQueueProofs.** `QueueInv` is the types, `ListsExact`, `GivenUpOnlyAtLimit`
  and `NotDoomed` (a job that still runs or waits for its backoff has not
  exceeded its stalls, without which a stall could leave the counter's range).
  `ListsExact` needs lemmas on sequences without repetitions: appending,
  prepending and taking the head change the set of elements as expected. From it
  follow `QueueListsExact`, `QueueGivesUpLast` and `QueueSound`. `QueueSettlesOnce` is an
  action property: by `ListsExact`, the job that retention drops is a completed
  one. `QueueForgets` says that a job that is not in the queue has no history,
  which whoever counts attempts needs. The lemmas `AddEffect`, `TakeEffect` and so
  on say what each operation does to a record; the clients cite them.
- **ProcessorsProofs.** The same for many queues in one process. `ProcessorsInv` is
  `QueuesInv`, which says of each queue what `QueueInv` says of one, and `Busy`: a
  processor that is not idle has a job of the queue that it serves.
  `ProcessorsNext` is what a module about certain processors may do: an operation
  of a queue, with or without a move of a processor. `ProcessorsAreJobQueues`
  is the refinement: every such step is, for each queue, a step of `JobQueue` or
  a stutter.
- **LeaveTrackerProofs.** First, each step of the leave tracker is a step of the
  queue or leaves it alone (`QueueStep`, with `Busy`: a worker that is not idle
  has a message), so the queue's invariant holds of it: `LeaveQueueCorrect`.
  Then `LeaveInv`: types; `Staged`, which ties the progress of each mark to where
  the worker is; `Asking`, by which what a worker plans was asked for by a verdict
  of an eligible message; and `Backing`, by which a mark that is past its request
  has its entry in `applied`, and one that is "already done" has it in `held`. It
  is `Backing` that makes `ReplyIsBacked` inductive: the report is made
  of marks, and what backs them only grows. `LeaveTypeOK`, `LeaveReplyIsBacked`
  and `LeaveOnlyWhatWasAsked` follow.
  The three parts of `AnsweredRight` have an invariant each. `NoticeIsDue`: a
  notice that is still to be posted, as one that was, is about a message that is
  exhausted, and an exhausted message stays so since settled jobs do. `NoSilence`:
  an attempt that is about to return has been heard, or need not be. `Afforded`:
  what was posted, what attempts in progress may still post and the notices that
  are still to come are together no more than the attempts that failed, the locks
  that were lost and the one that is running. Each step moves one unit from one of
  these to another, or adds one on both sides; that a forgotten message's account
  is not reopened is what the retention is for.
- **SnacksLedgerProofs.** `BookInv` adds to the types that a call past its first
  check names a pledge, which its owner settles (`Entered`), and that what is
  fulfilled was pledged. With it every append is an `Owe`, a `Settle` or a
  stutter of the book, whatever was lost or late (`LedgerKeepsTheBook`), and every
  `Settle` comes from a call of the owner (`LedgerSettledByOwner`).
  `LedgerListedOnce` needs `GatesHold`: at most one call is between setting a key and
  the end of its append or its rollback, its message has the key and is listed no more
  often than answers were lost; and a message that is listed once more than that has
  the key too. A lost answer is what lets the rollback open the gate of a message that
  is listed: it adds to the count in the same step. That `Times` grows by one with each
  append is `AppendTimes`, from the cardinality of the positions (`AppendCounts`).
  `LedgerListIsCurrent` is about the two reads of a listing, in either order, with
  any appends between them. `ViewsLag` is its invariant: what was read is a
  part of the list as it is now, it contains what was open at the start, and what
  was settled since the read of the fulfillments was open meanwhile.
- **SnackTrackerProofs.** The processor is a client of the queue and of the ledger,
  and `PartsInv` holds the invariants of both: each of its steps is a step of
  either, or of both (`Crash`), or of none (`QueueStep`, `LedgerStep`). For
  `SnackNotedOnce`, `Linked` says that a worker has a call of the ledger exactly while it
  records; `ConfirmsPledged`, that what it confirms is in the list; and
  `OneConfirmation`, that no two workers hold the word "fresh" for one message
  and none does after it was posted. That is where `GatesHold` comes in: the message
  of such a worker has its key and no call that appends it, and so it stays
  (`ShutStays`), since only a call that appends takes a key back. So one note is
  all there is, however many answers are lost.
- **ArtifactPipelineProofs.** The build and the publish queue are instances of
  JobQueue, and a step of the pipeline is one of either, of both (`HandOn` ends a
  job and adds one) or of none: `PipelineQueuesCorrect`. `PipelineInv` adds that rows
  are in order (`RowsInOrder`: versions numbered without gap or duplicate, although
  `Find` and `Write` are steps of their own), that every link that is held, noted or
  posted leads to a version saved for its request (`Linked`), and that a build
  that ended was handed on or published (`Handing`). For `PipelineOneArtifact`,
  `OneRow`: a lone publisher that found no row still finds none when it writes.

### The processors of one process

**PipelinesProofs** is about the modules over Processors. In each part, first, every
step is a `ProcessorsNext` step (`KongIsProcessors`, `ZohoIsProcessors`,
`CodingIsProcessors`), which gives `ProcessorsInv`, hence what is known of queues,
and that the queues are JobQueues (`KongQueuesAreJobQueues` and so on). The
invariants on top of it, each of which has a lemma per kind of step:

- *Kong route sync* (`KongInv`). `SyncsCounted`: the attempts begun for a pull request
  are those its stalls account for. `OnlyDue`: what is queued or begun passed the
  checks of the listener and the detector. `NoticesFinal` and `AttemptsInOrder`: a
  notification is named for its attempt and queued after that attempt's result is
  final. `Told`: a message to the author, and a completed sync, have such a
  notification. `AgentsAttended`: while no call failed, an agent that runs has an
  attempt that is yet to stop it. `KongSyncIsRight` is all four parts of `SyncIsRight`.
- *Customer support* (`ZohoInv`). `MailsFollowed` and `Accounted` follow a mail from
  the delivery to the comment that covers it, `Calm` says what cannot have
  happened while nothing failed: `ZohoLeavesNoMail`. `Commented` gives one half of
  `ZohoCommentsAreDue`; the other, that comments are no more than one and the faults,
  is not inductive: `CommentsCounted` adds what the attempts in progress and the
  job's next attempt may yet post (`Owed`), as each fault pays for one of them.
  Attempts are counted as a set of processors (`Attempting`), so that the
  theorem holds for several that overlap; how the set grows and shrinks is
  `AttemptsCounted`.
  `FieldsGuarded`: an attempt that could overwrite a field is one of a job that was
  tried before, which is `ZohoFieldsAreFinal`, an action property.
- *The coding agent* (`CodingInv`). `SessionsFollow` is about a thread's file and the
  session that an attempt has in memory: each contains every task whose
  result was, or is about to be, reported, but for those in `unread`, and is of the
  repository in which its tasks were done. That the file is written before the summary is queued, and read
  by one processor, makes it inductive: `CodingSessionIsKept`. It holds of a torn file
  vacuously, as such a file is never read successfully. `SummariesQueued` and
  `LeftoversTried` give `CodingWorkEndsClean`; `LeftoversTried` needs that no two
  processors count the same attempt as theirs.
- *The sandbox* (`SandboxInv`): bash has an exit code only when it ended by itself,
  and nothing takes the streams after that.
- *Assistant.* `AssistantListensEquipped` by `Equipped`: from the
  registration on, no server is still being connected to. `AssistantRepliesOnce`
  by `RepliesAddUp`, which says of handlers that have not ended that they posted
  nothing, as long as no error was counted.
- *The file tools* (`FilesInv`). `EditsAreAllOrNothing` rests on what `Occurrences`, a
  recursive function, and `Applied`, another, compute for every page and every list of
  edits. The induction is over the set of the numbers for which a fact holds, so
  that it needs no operator as a parameter (`Induction`: a set with 0 and with the
  successor of each of its naturals has them all, as a least counterexample has none
  before it). `OccurrencesCount`: the function that `Occurrences` defines exists,
  and counts from each position on. `CountIsRight`: it is 0 only where the string is
  nowhere, and 1 only where it is at one place, up to overlaps, where
  `ReplaceFirst` puts the new one. `Stages` names the page between each two edits, which
  are the witnesses of `EditsInOrder`; and by `FilesInv` what an edit has read is still the
  page when it writes, or it read none, since only the first of the pending calls
  runs. A write that is cut off leaves a beginning of the page that those witnesses
  lead to.
- *A process as a whole.* `WorkerTypes` and `WebTypes` are the types of all parts side by
  side. `WorkerInv` is the conjunction of the parts' invariants. In `WebInv` the parts
  that do not move stay as they began, since `Processors` is shared by two of
  them. Two parts need more than their invariants say: `ZohoKept` (what is
  covered and seen are mails there are, and fields are only written after something was
  found), and `PostsCounted`, by which replies stay within the range of the type.

### Building blocks

**BuildingBlocksProofs** has four small components, each with its invariant, and all that
`building_blocks` checks side by side: `BlocksTypes`, by the conjunction `BlocksInv`.

- *Leave plan.* `PlanInv` is the types and both parts of `PlanIsRight`. One iteration
  adds its index to `Asking(d)` of just the days of its range (`AskingGrows`), and
  the best of a set with one later entry is the old best unless that entry
  overtakes it (`BestOfMore`).
- *Token.* `TokenNeverSendsExpired`, with time and with concurrent
  callers. `TokenInv` follows a token from Zoho to the request that carries it:
  whoever awaits an answer got it within the latency, whoever holds a token will
  send it in time, and what is cached ends, for `getAccessToken`, early enough
  before the token does. That `expiresAt` counts from the answer and not from the
  issue, and that a request takes a while to arrive, is what the skew has to
  cover: twice the latency is at most the skew.
- *Bridge.* `BridgeCertificateIsValid`. A certificate on disk is at
  most one renewal old (`BridgeTypeOK`), so what the proxy holds is at most that
  plus the time since its start (`HeldSinceRead`); and the launcher starts it again
  in time, by assumption on the two timers.
- *Form 9 lookup.* `MappingFindsMostSpecific`, for any mapping. The rows that apply are
  those of the three candidates (`LookupRight`), whose order is that of their
  depth (`DepthIs`); and a search finds the first row of a node (`RowOfNode`, by
  `FirstOf`: naturals are well-founded).

### Model-checked only

- Liveness, and anything with ENABLED: the prover has no backend for it.
- Whether the settings above hold of a deployment is not a question to a model.

## 5. What is not covered

*Left out of the models:* the classifier, the builder and other agents, which
are choices; the revocation of tokens; the reads and writes of files in the
sandbox; the signatures of webhooks, but for their failing; shutdown hooks (a
process stops as if it had died); texts and formatting; several employees; the retention of failed
jobs; the one-year expiry of the ledger's keys and lists; the clock skew between
artifact rows; half days that RazorpayX does not distinguish.

*In the models, without a property of their own:*

- A thread reply whose first attempt marked its days and could not report them
  stays unanswered: the retry finds them marked and is silent
  (`leave-tracker.processor.ts:98`).
- A day whose read-back fails is listed under "Marked in RazorpayX", also when
  the entry became a request for approval (`leave-attendance.service.ts:127`).
- A retry of an announcement that runs after a correction in its thread writes
  the old entry over the corrected one (`leave-attendance.service.ts:113`).
- The part of a range beyond 120 days is dropped silently
  (`leave-plan.ts:57`); `NothingDropped` speaks of the days within the limit.
- "That one's already settled." is answered as soon as the key is set, although
  the settlement may never be appended (`snacks-ledger.service.ts:93`).
- A revision that waits behind another starts from the page that was published
  when it was asked for (`artifact-request.service.ts:27`).
- "I couldn't publish" is posted when a version was saved and only its link could
  not be posted (`artifact-publish.processor.ts:50`).

- A `session.json` that is there and cannot be read, for whatever reason, counts as
  none: the task starts a new session in its own repository, and saves it over the old
  one (`coding-session.repository.ts:33`, `coding-task.processor.ts:52`). The tool
  says "Calling it again in the same thread continues the same coding session"
  (`delegate-coding-task.tool.ts:10`); `ContinuesTheThread` holds only but for such
  reads. The sessions of the artifact builder are read in the same way
  (`artifact-session.repository.ts:37`).
- A file tool whose `writeFile` is rejected throws, although the page may be empty or cut
  off (`artifact-file.tools.ts:27`, `:65`). The agent may read "either all apply or none
  do" (`:32`); the next edit works on what is left, and a build that ends then publishes
  it. `AllOrNothing` says what is left. A page that cannot be read is reported as one
  that "does not exist yet" (`:17`).
- A message whose append was executed and its answer lost is listed twice after a
  retry (`snacks-ledger.service.ts:70`): a listing then names it twice, and one
  settlement settles both. `ListedOnce` counts such answers.
- A `session.json` that was torn stops the thread for good: `find` throws on it,
  each later task of the thread fails, and only the log says so
  (`coding-session.repository.ts:32`). A task that fails for good is only logged
  as well (`coding-task.processor.ts:90`).
- A summary that cannot be queued makes the retry run the whole task again, in the
  session that already has it (`coding-task.processor.ts:83`).
- An abort before bash is spawned, while its token is awaited, is never heard; a
  child that bash leaves in the background keeps `run` waiting after an abort
  (`local-sandbox-session.ts:111`).
- The sync job of a pull request whose agent cannot be stopped has failed, although
  its author is told (`kong-route-sync-coding.processor.ts:104`): the converse of
  `SyncedIsNotified` does not hold.
- A webhook delivery that cannot be verified because Zoho's keys cannot be fetched
  is answered with 200 and lost (`zoho-webhook.service.ts:50`); so is an event
  whose job cannot be added, which is only logged.
- A new ticket gets two drafts, one for the ticket and one for its first mail
  (`customer-support.listener.ts`); an agent that ends at its step limit leaves an
  empty comment; a ticket whose node is not in the mapping completes unclassified.
- Drafts for two mails of a ticket may both answer the newer one, as each reads the
  conversation when its job runs (`customer-support.processor.ts:33`). Of a long
  conversation only the first page is read (`zoho-desk.service.ts:86`); the model
  reads all of it, so `NoMailLeftBehind` is about tickets whose mails fit into one.
- A token that Zoho revoked is used until it expires (`zoho-desk.service.ts:129`).
- Jobs that are taken between the start of a process and the registration of its
  agents fail an attempt (`agent-registry.service.ts:37`); if an MCP server hangs
  while connecting, nothing bounds how long that is.
- An error of `startTyping` ends a mention without a reply
  (`slack-bot.service.ts:77`); an apology may be posted twice; a restart silences
  what was being answered.
- If `npx` turns the SIGTERM of the timer into an exit of its own, the launcher exits
  with it; a proxy that ignores the signal is never killed (`start.mjs`). tbot's
  life and renewal (60 and 20 minutes) are its defaults, not in the repository.

*Partly modelled:* the RazorpayX client (parsing is data), the builder's sessions
(as those of the coding agent, but for a conversation in place of a workspace),
the Slack bots (channel messages and mentions; the rest is the chat library's),
the agents and their registry, the MCP clients (their start; closing them and
choosing tools is left out). *Not worth a model:* `web`, `skills`, `health`,
`prisma`, `logger` (stateless or wiring), the page controller (reads only),
`scripts` and the evals (run by hand).

## 6. Plan

Modelled so far is everything the first plan named but the expiry of the ledger's
lists: a year without a settlement makes settled pledges open again
(`snacks-ledger.service.ts:104`). It is to become an action of `SnacksLedger`, with
the book's promise restricted to a year.

Proofs still worth their work: what the queues' retention leaves of the
theorems under the settings of section 4 (an id that was dropped is added
again only if its event is delivered again after 100 others); and two web
processes that overlap during a deploy, as processors that crash one by one.

## 7. Reproducing

In this directory: `tlc -workers 2 -config MCBuildingBlocks.cfg MCBuildingBlocks` and
likewise for each run of `PROJECT.json`; `tlapm JobQueueProofs.tla` and likewise
for the other proof modules.
