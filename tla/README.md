# Mana Career: a TLA+ model of the service, its agent, its jobs and its data

Mana Career is a job-search assistant: a FastAPI service (`backend/app/api`), an
ARQ worker (`backend/app/worker`), domain services (`backend/app/domain`) over
PostgreSQL, and a LangGraph agent that prepares a job application, pauses for a
person's approval and then sends the application email.  This directory holds
TLA+ modules translated from that code, TLC configurations that check them on
small instances, and TLAPS proofs of what matters most for every instance.

Paths below are relative to `src/backend/app/` unless they say otherwise.
`PROJECT.json` has, for every definition, the lines it translates, the hazards
with the properties that are about them, and the status of every component.

## 1. The system

| Component | State it keeps | Interacts through | Module |
|---|---|---|---|
| Sending an approved application (`domain/applications/sending.py`, `snapshot.py`, `api/v1/approvals.py`) | `approval_requests`, `application_emails`, `applications.status` | rows shared by requests and jobs, the mail server, the agent job | `ApprovalSend`, `DeliverOnce` |
| Agent run (`domain/agents/graph.py`, `budget.py`, `nodes/*`, `worker/tasks/agent.py`) | the thread's checkpoint, the job's uncommitted rows | checkpointer connection, business transaction, queue | `AgentRun` |
| Chat sessions (`domain/agents/service.py`, `api/v1/ai.py`) | `ai_sessions` | queue, event channel | `AgentSession` |
| What a run writes and checks (`domain/resume/tailoring.py`, `domain/generation/cover_letter.py`, `domain/agents/nodes/*`) | `resume_versions`, `cover_letters`, validation reports | the model, the profile, the run's state | `Grounding` |
| Resume pipeline (`worker/tasks/resume.py`, `domain/resume/service.py`) | `resumes.status`, extraction | two chained jobs, sweep, event stream | `ResumePipeline` |
| Resume versions (`domain/resume/version_service.py`) | snapshots, versions | requests side by side | `ResumeVersions` |
| Career profile (`domain/profile/*`, `worker/tasks/profile.py`) | entries, skills, strength | requests, confirmations, one deduplicated job | `Profile` |
| Job postings (`domain/jobs/service.py`, `worker/tasks/jobs.py`) | `jobs.status` | job, sweep, event stream | `JobIngest` |
| Matches (`domain/matching/service.py`, `worker/tasks/matching.py`) | `job_matches`, gaps | requests, deduplicated job, sweep | `MatchScoring`, `MatchScorer` |
| Roadmaps and gaps (`domain/roadmap/*`, `worker/tasks/roadmap.py`) | plans, milestones, aggregate gaps | job, sweep, rebuilds | `Roadmap` |
| Application tracker and daily limits (`domain/applications/service.py`) | status, dates, history | the sends of several applications | `Tracker` |
| Retrieval (`domain/rag/*`) | chunks | the agent's context | `Retrieval` |
| Career overview (`domain/career/*`) | none | reads everything | `Career` |
| Sign-in and account emails (`domain/auth/*`) | token families, single-use links, the password | requests of several browsers | `AuthSessions` |
| Account deletion (`domain/account/deletion.py`, `worker/tasks/retention.py`) | none of its own | every table, the store, checkpoints | `Account`, `Schema` |
| Tables (`app/models`) | rows, foreign keys, loose references | cascades | `Schema` |
| Reference data and vectors (`seed.py`, `reembed.py`) | taxonomy, roles, resources, vectors | start-ups, deploys, ingestion | `Catalogue` |
| Language model calls (`domain/llm`) | the day's counter in Redis | every job and request | `ModelCalls` |
| Stuck-work sweep (`worker/tasks/sweeper.py`), queue and retries (`core/queue.py`, `worker/retry.py`) | jobs in Redis by `_job_id` | every worker task | in the module of each task |

What is hard: the database runs at READ COMMITTED with objects that are not
refreshed (`core/db.py`), jobs are enqueued before the transaction that needs
them commits, jobs run again after a raised `Retry` or a worker's death but not
after a time-out, the graph's checkpoint and the rows its nodes write commit
separately, a sweep changes rows that a slow job may still hold, and files,
checkpoints, Redis keys and published events are outside every transaction.

What makes each component correct:

* sending: one attempt at a time, none repeated by the program itself, only
  approved content to the approved address, "sent" recorded truthfully and for
  good, no email stuck in "sending", daily limits kept;
* agent: no send without the approval of that very application, a run that
  pauses can be decided, reports success only for what was delivered, ends;
* what is written in a person's name is kept with the report of the check of
  that very text;
* pipelines (resumes, postings, matches, plans): every item ends ready or failed,
  a retry finds its work again, a browser that listens learns the end, a result
  is as recent as what was asked for;
* profile: when nobody writes, skills and strength are those of the entries, if a
  build followed and its writer was alone; no automatic step takes away what a
  person wrote;
* sign-in: a refresh token is rotated once, a link works once, a session that was
  ended while nobody refreshed in it stays ended; deletion: nothing of an account is left and nothing of another goes;
* catalogue: a search compares vectors of one model; model calls: the day's
  ceiling holds over all processes;
* pure functions: more evidence never costs a path, and of a score only likeness
  to the posting, gaps are what the score lacks, retrieval stays within its budget
  and owner, a diff tells the whole change.

## 2. The plan

Done: every module above, model-checked; every safety and action property of a
run that holds is also a theorem (section 6).

Left: the liveness properties, which stay with TLC, and in the models what
section 7 and the notes of `PROJECT.json` name, first of all the ordering inside
a profile and the market figures of the overview.

The runs are kept few, one per question: a run that no longer says the most
important thing about its module makes way for another.  No module that is
proved about reaches a RECURSIVE operator; every parameter is a CONSTANT with a
named assumption.

## 3. The modules

An `MC` module puts several independent systems into one run: `part` is chosen
in the initial state and says which of them moves, the variables of the others
keep one value (`Off`) or an initial state.  The states of such a run are the
sum of those of its parts, never a product.  The parameters of the parts are
CONSTANTS of the `MC` module, with the assumptions of the parts, so that a theorem
about the run's own property is about every value of them; the configuration gives
the small ones.

### ApprovalSend

One prepared application from the pause on.  Variables are the rows
(`approval`, `session`, `email`, `applied`, `deleted`, `job`), the queue's
`resume_agent` job (`queue`) and the thread's checkpoint (`ckpt`), and for each
process where it is (`dpc`, `pc`), what its database session has read (`req`,
`read`) and what it has flushed but not committed (`pend`).

| Code | Actions |
|---|---|
| `decide_approval`, `set_approval_recipient`, `resume_run` | `DecideRead`, `DecideWrite` (flush, row locks, enqueue), `DecideCommit`, `DecideAbort` |
| `send_approved_application`: checks, `_fail`, `_claim` with its commit, the SMTP exchange | `SendChecks`, `SendFail`, `SendClaim`, `SendDelivered` |
| `retry_application_send` | `RetryStart`, `RetryCommit`, `RetryDies` |
| `resume_agent`, the send node, `_drive`, `_run_or_resume` | `JobStart`, `JobDropped`, `AgentSendNode`, `AgentCheckpoint`, `AgentCommit`, `AgentRaises`, `AgentDies` |
| the email branch of `sweep_stuck_jobs` | `SweepEmail` |
| editing or deleting the posting, deleting the application | `EditJob`, `DeleteJob`, `DeleteApplication` |

A transaction is split into the step that reads and the step that commits; a
flushed row is locked (`RowFree`, `Locked`), the sweep skips locked rows.  Time
is in ticks; `Deadline <= Grace <= Stale` is the order of 180 s, 10 min and
20 min, and `DeliveryFits` is the comment of `SENDING_GRACE`: a delivery is
shorter than the grace.  The content of an application is reduced to the parts
of the snapshot that can change after it was prepared: the posting's title and
the recipient.  The session's terminal states are one value here; `AgentRun`
has them.

What the model shows about the code: an attempt is not repeated by itself only
because the three time limits are in that order.  When the sweep has turned an
interrupted "sending" into "failed", a re-run of the job would claim the email
again; what stops it is that the run's deadline, never renewed, has long passed.
The branch of `send_approved_application` that fails an interrupted attempt
itself is never reached by its callers within the model.

### DeliverOnce

The abstract specification: a box (the email's status), the set of callers with
an attempt in flight and the set of callers that have used theirs.  An attempt
starts only from an unsent box with nothing in flight, the automatic caller has
one attempt, and an outcome is recorded by the attempt that is in flight or,
without knowledge, as a failure.  It is what the docstring of `sending.py` says.
`DeliversOnce` in `ApprovalSend` is the refinement.

### AgentRun

One run after `start_run`'s commit.  `saved` is the thread's checkpoint (next
node and the `ManaState` keys that steer the graph), `mem[j]` what the running
job `j` ("run" or "resume") holds: the node it is at, its state, the session
status it loaded (the ORM writes a status only if it differs), and what is not
committed yet (a new approval, an email outcome, a chat message).  Each node is
a step: `Supervisor`, `WorkNode` (the nine nodes that neither send, prepare nor
end), `ApplicationPrep`, `HumanApproval`, `EmailExternalAction`, `Respond`,
`Halted`; `GuardHalts` and `NodeFails` are guard()'s two other outcomes for any
worker node.  `JobCommit` is `mark_awaiting_approval` or `finalize` with the
commit, `JobDone` the publishes after it, `JobRaises` the `except` branch,
`JobDies` a dead worker or `job_timeout`.  `Decide` is `decide_approval` in one
step (its own interleavings are in `ApprovalSend`).

A claim commits by itself, every other row with the job.  A resumed job takes
the thread from wherever `saved` is, so a `run_agent` that starts over beside it
matters.  Abstracted: what a node computes, the cost and per-tool caps (they
halt like the others), the sweep's age (it may come any time after the
deadline, which is earlier than the code), the text of errors.  Keys left from
an earlier try are kept as the code keeps them.

### AgentSession

Several runs of one chat session.  The session row knows one run (`session.run`);
`post[p]` is a request in `start_run` (`PostRead`, `PostWrite` with the flush and
the enqueue, `PostCommit`, `PostFails`), `decide` the request in
`decide_approval` and `resume_run` (`DecideWrite`, `DecideCommit`,
`DecideFails`).  Each run has two possible jobs; a job finds its session by
`run_id` (`JobMissing`, `JobStart`), drives the graph to an outcome (`DriveOpen`
on a thread that runs, `DrivePaused` on one that waits, `DriveEnded` on one that
has ended) and writes the session by its id (`JobCommit`), retries or ends it
(`JobRaises`), or is cancelled (`JobTimesOut`).  `SweepRun` and `TimePasses` are
the sweep and its cutoff.

`mem[r][k].saw` is the status the job loaded: the ORM omits a column whose value
it believes unchanged, so a late job may leave a newer status or overwrite it.
A flushed session row is locked until its transaction ends (`SessionFree`).
Abstracted: the inside of the graph and the send (`AgentRun`, `ApprovalSend`),
the number of tries (a job may be retried any number of times, more than the
code's three), and the age of a run (the session may be past the cutoff while a
job still lives, as behind a full queue).  A run prepares at most one
application at a time, so its approval has its number.

### ResumePipeline

One resume from its upload on.  `row` is the part of the row that steers the
pipeline, `req` the one upload or reprocess request under way (`ReprocessRead`,
`ReprocessWrite` with the flush and the enqueue, `ReprocessCommit`), `job` the
queue, `mem[j]` what a running job remembers of the row and where it is:

| Code | Actions |
|---|---|
| `parse_resume` | `JobStarts` or `JobSkips`, `JobBegins`, `ParseFile`, `ParseRefuses` or `ParseCommits`, `ParseHandsOver` |
| `extract_resume` | `JobStarts` or `JobSkips`, `JobBegins`, `ExtractCommits`, `JobTells` |
| both `except` branches with `retry_or_fail` | `JobRaises`, `JobGivesUp`, `JobTellsLast` |
| a dead worker, `job_timeout` | `JobDies` |
| the resume branch of `sweep_stuck_jobs`, `_publish` | `SweepResume`, `SweepTells` |
| `resume_events`, `status_stream` | `Opens`, `Subscribes`, `ReadsStatus`, `Published` |

A commit and the publish that follows it are separate steps, because a failure
between them is what the properties are about; the places `telling`,
`telling_last` and `handing_over` are the ones after a commit.  `Written` is the
ORM's habit of writing only the columns that differ from what it has loaded.
`Due` is the two-second deferral; `CommitsInTime` says whether it is long enough.
`lost` records what has gone wrong, so that properties can say "unless".
`Delete` matters only through the file and the refusals of later requests.
Left out: the text and the extraction themselves, `confirm_profile`, titles.

### AuthSessions

One account: `account` (status, the password's version, confirmed or not),
`refresh` (the tokens with their family), `link` (emailed links), who holds a row
lock (`lock`, `linkLock`), and `req`, the requests in flight.

| Code | Actions |
|---|---|
| `POST /register`, `/login` | `RegisterStart`/`Commit`, `LoginStart`/`Commit` |
| `rotate`: the presented token is locked and judged | `RotateStart`/`Commit`, `SiblingStart`/`Commit` (the reuse grace), `ReuseStart` |
| `_revoke_family`, `_end_all_sessions` | `EndSnapshot` (the UPDATE's snapshot), `RevokeCommit`, `EndTokens`, `PasswordCommit` |
| `logout`, `change_password`, `reset_password` | `LogoutStart`, `ChangeStart`, `ResetStart` |
| `AccountEmailService.issue`, `consume` | `IssueStart`/`Commit`, `VerifyStart`/`Commit` |
| rollback, time | `RollBack`, `GraceEnds`, `TokenExpires`, `LinkExpires`, `HourPasses` |

An `UPDATE ... WHERE` finds rows in the snapshot its statement starts with and
looks at each again after waiting for its lock: a token committed in between is
not among them.  `quiet` and `ended` are history: families in which nobody was
refreshing while they were ended.

### Account and Schema

`Account` has what is outside the transaction that deletes an account: files of
uploads (`Upload*`, `Removal*`), checkpoints of runs (`Run*`), audit rows
(`Trace*`), and deleters (`Plans`, `Refused`, `Removes`, `DeletionCommits`,
`CleansRun`, `CleansFile`, `CleanupEnds`).  `slips` records which of the known
gaps a behaviour has used, so that `NothingNamedRemains` can say "unless".

`Schema` has every table as its foreign keys with their ON DELETE rule and its
`loose` references; actions are the units of code that make rows (`SignsUp` ..
`Applies`) and that delete them (`AccountRemoved`, `Rewritten`, `EntryRemoved`,
`SoftDeleted`).  `Taken` is what one DELETE takes with it.

### JobIngest, MatchScoring, Roadmap, Profile

Four pipelines with the pattern of `ResumePipeline`: a request that writes and
enqueues, a job with tries, a sweep where the code has one, and history
variables that say what went wrong.  They differ where their code does.

* `JobIngest`: `CreateEnds`, `Patch`, `Delete`; `IngestSkips`/`Starts`/`Commits`/
  `Tells`/`Retries`/`Fails`/`TellsLast`/`Dies`; `SweepPosting`, `SweepTells`;
  `Opens`, `Subscribes`, `ReadsStatus`.  One commit at the end of the job.
* `MatchScoring`: requests `Reads`, `InsertFails`, `Enqueues`, `Commits`,
  `RequestFails`; the job `ScoreMisses`/`Starts`/`Skips`/`Reads`/`Commits`/
  `Retries`/`Fails`/`Ends`/`Dies`; `InputsChange`, `PostingRemoved`, `SweepMatch`.
  What is scored is a version number, `inputs_hash` the version scored for.
* `Roadmap`: `Create`, `EnqueuePlan`, `SetStatus`, `PatchReads`/`PatchCommits`,
  `SetGapStatus`, `RebuildDeletes`/`RebuildCommits`, `PlanSkips` .. `PlanDies`,
  `SweepRoadmap`.  The planner takes the newest roadmap that is planning.
* `Profile`: `AddItem`, `UpdateItem`, `DeleteItem`, `Confirm`, `Recomputes`,
  `Queues`, `Commits`, `Uploads`, `Extracts`, `Reprocesses`, `MakesPrimary`,
  `DeletesResume`, `Rebuild`, and the job `BuildStarts`/`Looks`/`Writes`/`Commits`.

### Tracker

Applications of one person beside their sends: `Saved`, `Prepared`,
`RequestLoads`, `Patched`, `LeftAlone`, `SoftDeleted`, and an attempt to send in
its database steps (`Begins`, `CapRefuses`/`CapAllows`, `Claims`, `Delivers`,
`DeliveryFails`), emails of others and a new day.

### Grounding, ResumeVersions

`Grounding`: the loops that ask the model again (`Tailors`, `TailorRetries`,
`Writes`, `WriteRetries`, `ModelFails`), the nodes that check again
(`ChecksVersion`, `ChecksLetter`), the email and the preparation, and a person
who edits meanwhile.  A line is its set of words; support is the code's overlap.
`ResumeVersions`: `Reprocessed`, `WriteVersion`, and a diff in its steps
(`DiffAgainst`, `FindsSnapshot`, `FindsNone`, `CreatesSnapshot`).

### MatchScorer, Retrieval, Career

Functions of stored data with one action that computes and others that change
the data.  `MatchScorer`: the dimensions, weights, bands, gaps and rationales
(`Scores`, `Grows`).  What is embedded is a summary of the roles, skills, titles and
projects, so anything a person adds may move its cosine with the posting and the
chunks the search finds for it: `Scores` takes any cosine of a set each time
(`CosinesOf`), and none where there is no summary or no chunk (a flat 0.5).  `Retrieval`: both searches, reciprocal rank fusion, the
choice for novelty, the token budget (`Searches`, `Retrieves`).  `Career`: paths,
fit, skill plan, next actions, stage (`Looks`, `Gains`).  Fractions are pairs of
integers, compared and rounded as the code does; what the code sorts is a list in
which each has as many ahead of it as its place says (`Sorted`, `Arranged`).

What they are given is a parameter, and what the theorems need of it is a named
assumption.  `ScorerIsGiven` (`MCServices`, of `MatchScorer`): no skill is listed twice,
profiles and postings are finite, money and years are not negative, and the weight of
a requirement is not negative - the prompt of the extractor asks for a weight from 0
to 1 (`domain/jobs/extractor.py:44`), the code does not check it.  Where all weights
are 0 a posting's skill dimension is not full though nothing is missing, so the
property that relates the two says "where any row weighs".  `CareersAreGiven`:
postings, people and what they mention are finite.  `OwnersDiffer` (`Schema`): the
account, another account and the owner of the seeded rows are three.

### Catalogue, ModelCalls

`Catalogue`: `SeedAllIfEmpty`, `SeedAll`, the loads in their transactions,
`IngestJob`, `Reembed` with `ResizeVectorColumns`, `Deploy`, `Dies`; a process
keeps the model it was started with.  `ModelCalls`: the script that counts a call
(`Begins`), `SaysPaused`, the OpenAI-compatible adapter (`NoAnswer`, `WaitsOut`,
`TooBusy`, `ServerError`, `TriesAgain`, `LoopEnds`, `Refused`, `Malformed`,
`Answers`, `Mismatch`), Anthropic's (`ClaudeAnswers`, `ClaudeFails`), `Outage`
of Redis and `Midnight`.

## 4. The runs

| Run | Shows | Bounds |
|---|---|---|
| `send_safety` | `TypeOK`, `OneAttemptInFlight`, `AgentSendsOnce`, `OnlyApprovedIsSent`, `SentWasAccepted`, `SentIsFinal`, `DeliversOnce` | 2 deciders, 2 retriers, 2 addresses, 3 tries, Deadline 1, Grace 2, Stale 3; about two million states, symmetric |
| `agents` | of `AgentSession`: `TypeOK`, `OwnApproval`, `AwaitingIsDecidable`; of `AgentRun`: `RunIsApproved` (its types, own approval, one pending, decidable), `CompletedWasDelivered` | 2 clients, 2 runs; the `prepare_application` goal with the real caps, 2 tries per job |
| `session_decision` | a statement the code does not meet (section 5) | 2 runs, 1 client |
| `resume_safety` | `TypeOK`, `WorkHasAJob`, `WatcherWillKnow` | 2 extractions, 2 tries, 1 reprocess request |
| `resume_live` | `ResumeSettles` | 2 extractions, 1 try, requests as late as they like |
| `resume_stuck` | a statement the code does not meet | 3 tries |
| `settles` | `SendingSettles`, `RunningSettles`, `MatchingSettles` under fairness | one of each process; every goal, caps of 4 steps and 2 calls that bite, a stop request |
| `account` | `AuthSessions!TypeOK`, `SecretsWorkOnce`, `EndedStaysEnded`; `AccountGoesWhole` | 2 requests at once, 3 tokens, 2 links, 4 of both together, 2 passwords; deletion with 2 deleters, 1 upload, 2 runs, 1 audit row |
| `account_remains` | a statement the code does not meet | as `account`, with 2 uploads |
| `services` | one property for each of the thirteen other systems | in `MCServices`, beside each instance |
| `gaps`, `flagged` | two statements the code does not meet | as `services` |

What the properties of `services` are about: a browser that follows a posting
learns its end (`ViewerWillKnow`); once no job and no request is under way no match
is left scoring and a score is as recent as the last answered recompute, unless a
worker was lost or a request committed after its job had begun, its enqueue perhaps
dropped as a duplicate (`ScoreIsAsAsked`); one milestone per
skill, and an addressed gap was done (`PlanAndGapsAgree`); skills and strength are
those of the entries when nobody writes, after a change that queued a build and a
writer that was alone (`ProfileSettles`), and no automatic step
removes what a person wrote (`UserRowsStand`); the daily limits, by how much attempts
that overlap may exceed the person's, and the redirected mail (`MailStaysWithinLimits`), an application's date (`AppliedDateStands`); the
scorer, where what a person adds may cost likeness and nothing else
(`OnlyLikenessMayFall`, `GapsExplainTheScore`); the agent's context
(`ContextIsSound`); the overview (`GuidanceHolds`); the tables
(`AccountRowsGoWhole`); checked text (`ClaimsAreChecked`); diffs
(`DiffTellsTheChange`); vectors (`CatalogueServes`); the day's ceiling
(`ModelCallsHold`).

Why the bounds are enough: two deciders, retriers, clients or requests are needed
for a race and a third adds only a symmetric copy; tries let a job run after a
crash and once more after the sweep; one tick per limit keeps the order of the
time limits, which is all the code depends on; two runs let one replace the other
and leave its approval behind; three tokens let a token be rotated and its
successor again, or have a sibling; three applications and two attempts at once let
a limit of one be exceeded, and only by one.  Larger instances were checked once, with the
same results: `Profile` with 4 requests, `Catalogue` with 4 starts, `ModelCalls`
with 3 calls, `AuthSessions` without the bound on tokens and links together (two
million states), `Account` with two uploads (two million states).  The proofs cover any number.
The run `agents` looks at `AgentRun` through `WithoutCounters`, which leaves out
the counters of steps and calls: with the real caps the `prepare_application`
chain never reaches them (`settles` has caps that bite, and no view).

Deadlock checking is off: the systems stop when nobody asks for anything more.

Fairness: the branches of the sweep are one cron job every five minutes
(`worker/main.py`), the clock runs, an SMTP exchange is bounded by its time-outs
and a process that runs goes on or dies.  `MCSettles` states it for the part that
moves.  Nothing is assumed of people, and no job is assumed to be run by the queue.

## 5. Where documents and code differ

Shown by a run:

* **A decision reaches another run** (`session_decision`).  A new run may start
  while one awaits approval; the older approval stays pending, and deciding it
  resumes the run the session knows by then (`domain/agents/service.py:181`).
  Nothing is sent without its own approval: the newer run's send node halts.
* **A publish that fails loses the extraction** (`resume_stuck`).  `parse_resume`
  commits "parsed", then publishes and enqueues; the retry of a failure in between
  is skipped as already done.  The sweep ends the resume 20 minutes later.
* **A file outlives its account** (`account_remains`).  An upload stores the PDF
  before its row commits; when the request fails there, no row names the file.
* **A preferred skill is never a gap** (`gaps`).  `derive_gaps` is given only the
  required skills that are missing, though `gaps.py:35` describes `nice_to_have`.
* **The second claim check compares a version with itself** (`flagged`,
  `nodes/claim_validator.py:29`): it always reports every claim grounded.

Stated in a module as a definition that does not hold, and in no run:

* `AgentRun!PauseIsIndefinite` (`domain/agents/budget.py:52`): the deadline fixed
  at the start halts the send node of a run approved 180 s later.
* `AgentRun!CompletedIsRecorded`: the checkpoint may be ahead of the rolled-back
  rows; a run reports completed and its email is "sending" until the sweep.
* `ResumePipeline!ExtractedStays` (`worker/tasks/resume.py:204`): on the last try
  a publish that fails writes "failed" over "extracted".
* `AuthSessions!PasswordEndsSessions` (`domain/auth/service.py:163`, `:264`): a
  refresh that commits while a password change ends the sessions survives it.
* `Catalogue!CatalogueIsWhole` (`seed.py:348`, `:365`): `if-empty` looks at the seeded
  roles only, and resources are loaded after them; a start-up that dies in between
  leaves no learning resources for good.
* `ResumeVersions!OneSnapshot` (`version_service.py:196`): two first diffs make two
  base snapshots, and every later diff fails on finding both.
* `Profile!ReplacesOnConfirm` (`domain/resume/service.py:240`): two confirmations
  that overlap leave the entries of both.
* `Roadmap!DoneIsPlanned`: the planner takes the newest planning roadmap, so the
  job of an older one may end without having planned it.
* `ModelCalls!LoopReturnsOrRaises` (`adapters/openai_compat.py:325`): a 5xx and two
  429s use up the turns of the loop after a wait; the error is not the provider's.

Seen while modelling, true of the models, and singled out by no run: a stop
request is read when a try of `run_agent` begins and never again; a breach at
`respond` ends a run halted without the halted node's message; a retried try keeps
the thread's error; `extract_resume`, which has no job id, may run twice at once;
a confirmation's build is dropped while one runs; a deleted entry leaves its
references until the next build; deleting the primary resume leaves none primary;
the "skills" stage of the journey rounds the coverage that the fit of the same path
does not (`domain/career/service.py`, `_journey`; `paths.py`, `_fit`: 64.5 % is
enough for the one and not for the other); entries with one key collapse in a diff, and order or repetition alone yields no
delta; an invented skill or title is no claim and becomes a source of the letter;
the retry that quotes a schema problem is a second call the day's ceiling does not
count; a send writes no status event; two overlapping rebuilds leave aggregate gaps
twice; the removal of a resume deletes its file before it commits, and a job may still
parse the file of a resume deleted meanwhile, as a failure to remove it is suppressed;
adding a skill, a title or a project moves the embedded summary, so the semantic
dimension and with it the total may fall, also from the 0.5 of an empty profile.

## 6. The proofs

Every theorem is about any value of the constants that the named assumptions of
its module allow; TLC evaluates those assumptions in the runs.  Few of the
properties are inductive by themselves, so each proof has an invariant that is
(`IInv` or `...Inv`), a conjunction of named parts that say what a process
remembers at each of its places and what the rows then are.  One lemma per part
or per action shows that a step keeps it, and the theorems follow.  The invariants
of the concurrent parts were checked with TLC before they were proved.

`ApprovalSendProofs`: `TypeCorrect`, `SingleAttempt`, `NoAutomaticRepeat`,
`ApprovedOnly`, `SentMeansAccepted`, `SentStays` and `Refinement` (`DeliversOnce`),
for any deciders, retriers, addresses and tries and any `Deadline <= Grace <=
Stale` with a positive deadline.  The invariant adds which decision may be locked
and what it has read while an approval is pending, that a job past its checkpoint
or with a claim behind it can only be in the tail or out of time, that an attempt
in flight owns the "sending" row until the sweep, which comes only after the
delivery has ended, and that an uncommitted "sent" was accepted.

`AgentsProofs`: for chat sessions with any number of runs and clients,
`SessionTypes`, `SentWithOwnApproval` and `AwaitingCanBeDecided`.  The invariant
adds that the approval in a decider's hands is pending (`DecidesPending`), that an
approval not committed yet is its run's first (`FirstApproval`: committing it never
reopens a decided one), and that a job about to pause its session brings such an
approval (`PauseHasApproval`: "awaiting_approval" is never written without something
to decide).

For one run (`AgentRun`, the instance `R` of `MCAgents`) the same module proves
`RunSentWithOwnApproval`, `OneApprovalOpen` and `CompletedIsDelivered`, for any caps,
tries and goals.  What a job holds is only as good as the node it has reached, and
the checkpoint hands node and state to the next job.  So the invariant (`RunIInv`)
says, per node, what the job's uncommitted rows may be (`JobsHold`), what the graph's
state may be in memory (`JobsTrack`) and in the checkpoint (`ThreadTrack`), and that
at most one job has prepared an approval not committed yet (`NewAlone`).
`RunsAreApproved` and `RunsWereDelivered` state the run's properties of the
composition that the run checks.

`ResumePipelineProofs`: `ResumeTypes` and `WatcherIsToldOrWillBe` for any
extractions, tries and reprocess requests, and under `CommitsInTime`
`RetriesFindTheirWork`.  The first two need that a job which runs has a place in
its task and a committed row (`Running`): whoever leaves the places after a commit
has published, or has recorded that it could not.  The third needs row and job to
stay in step (`Tracks`): until something is lost the one job there is (`OneJob`)
finds the row at its own stage or finished, and it remembers the status it has
committed itself (`Remembers`), so its later saves do write.  Without
`CommitsInTime` a first job may find no row and end as "missing".

`AuthSessionsProofs`, sign-in: `TypeCorrect`, `SecretsOnce` and `EndedForGood`, for
any requests, tokens and links.  Once-only rests on the row locks: who rotates a
token or uses a link holds its lock and has judged the row while holding it
(`RotationHeld`, `LinksHeld`), and a token that another was issued for is revoked
(`RotatedRevoked`, `RotatedOnce`, `LinkUsedOnce`).  That an ended family stays ended
needs, of a revocation half-way, that its UPDATE still reaches every live token of a
quiet family (`Reaches`) and that nobody works on a family that was quiet when it
was ended (`QuietStays`, `EndedQuiet`).  A family with a rotation in flight when it
is ended is not covered: its new token may live on (`PasswordEndsSessions`, section 5).
`SignInStands` says the composed run moves
the sign-in only so.  Deletion: `DeletionIsWhole` (`AccountGoesWhole`), for any
uploads, runs, audit rows and deleters.  `DeletionInv` adds that an account once gone
stays gone for every process that locks it (`GoneIsGone`, `LockedOut`), that every
stored file and checkpoint is named by a row while the account stays (`StoredIsNamed`),
that a plan read under the lock names all of them (`PlanNamesAll`), and that what is
left after the commit is what the deleter still has to clean (`LeftToClean`); the last
three unless one of the gaps that `slips` records was used.

`TrackerRoadmapProofs`, the tracker: `LimitsHold` and `DatesHold`, for any
applications, attempts, requests and limits.  An attempt that was allowed has room for
its mail (`HasRoom`) as long as no other overlaps it (`Alone`); if others do, mails
sent and attempts in flight together stay below the limit plus the number of attempts
(`Overshoots`), so that is all they can exceed it by; and the history of an application tells its status (`HistoryTells`).  The roadmaps (the instance `L`):
`MilestonesAreOnce` and `AddressedGapsWereDone`, for any skills, roadmaps, tries,
requests and rebuilds.  A planner has written nothing of its own before it commits
(`RunsBefore`, `OwnPlan`), and a milestone or gap of a skill is there once
(`OneOfAKind`, `RowsAreOnce`), unless two plans or two rebuilds ran together.

`ServicesProofs` is about the properties of the run `services` itself.  A step of
the composition is a step of one part (`OnePartMoves`), so each property is proved
from the invariant of its part:

* `CallsHold`: the script's counter and what it has admitted agree day by day, and a
  call's tokens are those of its replies (`DaysInv`, `CallsInv`).
* `ViewerIsTold` (`PostingInv`) and `ScoresAreRecent` (`ScoreInv`): at most one worker
  holds a match, what it copied is current until its inputs change, and a request
  that has enqueued leaves a queued task.  Both parts of `ScoresAreRecent` are about a
  quiet system in which no worker was lost and no request was late (section 4).
* `ClaimsChecked` (`GroundInv`): the sources a letter is checked against include the
  version it was written from; fewer sources support no more lines.
* `CatalogueIsServed` (`CatalogueInv`): one process at a time renews the vectors, for
  its own model; what it has renewed so far and what is left make up all tables.
* `LimitsAreKept`, `DatesAreKept` and `PlansAndGapsAgree`: the theorems of
  `TrackerRoadmapProofs`, carried to each of their instances.
* `ProfileIsSettled` and `UserRowsAreKept` (`ProfileInv`): an id stays with rows of one
  source while any transaction knows it (`RowsInv`), a change
  that promised a build gets one that will run (`PromiseInv`), and a transaction that
  is alone knows the rows as they are (`AloneInv`).  A change that queues none (of an
  entry that came from a resume, of which resume is primary) is excepted for the skills.
* `TypesAreKept`: the types of every part, from the same invariants.

`ComputationsProofs` and `ScoringProofs` are about the other properties of that run,
those of computations.  Induction over data is out of reach, so what a recursion
yields is shown by contradiction: of the places of a list where a claim fails there is
a first (`FirstOf`), of the sets where a claim about a sum fails a smallest, and one
step of the definition takes the claim from its predecessor.

* `DiffsTell`: for any versions, the deltas of a diff turn the base into the version: the
  items one list has without the other are what the recursion of `Without` leaves (the
  first length at which it did not would follow one at which it did), and a delta's path
  says which string, list or entry it is about.
* `ContextHolds`: for any chunks, sizes, similarities and budget, what is put before
  the model is of the user or of nobody (the searches ask for no more, and chunks of
  soft-deleted postings are not told apart), without repetition and within the budget; the
  choice for novelty takes one chunk at a time from those that are left.
* `TablesGoWhole`: for any tables, owners and rows, a deletion takes exactly what is
  the account's (`Theirs`), every row refers to what is there, and seeded rows stay
  (`TablesInv`).
* `OnlyLikenessFalls`: for any profiles, postings and cosines, what a person adds lowers
  no dimension but the semantic one, the total by no more than that one's part, and
  opens no gap.  Fractions are compared crosswise, rounding and division are monotone,
  and the total is the sum of ten parts of which nine have grown (`TotalIs`).  `GapsExplain`: the gaps are what the
  skill dimension lacks, the critical ones first.  Both need that a score that is shown was
  computed of one profile that has only grown since (`ScoredOnce`).
* `GuidanceIsCoherentAndGrows`: for any postings, people, resources and additions, the
  overview agrees with itself (`OverviewAgrees`), and the overview of somebody of whom
  more is stored (`Extends`) shows no less (`OverviewGoesOn`).  What was shown last was
  the overview of the person as they were (`ShownOf`), who has only gained since
  (`GuidanceInv`).  A list in order has everything at the place that the number of
  those ahead gives it (`PlacesAre`); of a list that is cut, the first come first.

What was learnt from a proof that did not go through:

* `UserRowsStand` failed in an earlier `Profile` from five requests on, beyond any run:
  an id given up was handed out again while a confirmation still held it, which serial
  keys never do; ids that a transaction knows are now kept (`Named`).
* The stored strength of a new profile is that of its rows only if the number of
  skills asked for is positive, as it is in the code; `ProfileAssumption` says so.
* The gaps explain the skill dimension only where some requirement weighs anything; the
  property now says so, and the run has a posting whose requirements weigh nothing.
* Whose rows a deletion takes is told apart only if the account, the other account
  and the owner of the seeded rows differ (`OwnersDiffer`).
* An earlier `Career` let the journey use the coverage of the fit; the code rounds it
  first, which the model now does.

Only model-checked: liveness (`SendingSettles`, `RunningSettles`, `MatchingSettles`,
`ResumeSettles`), which needs ENABLED and is outside the prover's reach.

## 7. Not modelled

* Rate limiting (`core/rate_limit.py`): one atomic script in Redis per request, so
  there is no state between steps to get wrong.
* The parser and the analysis of a resume (`domain/resume/analysis.py`), what the
  searching and analysing nodes compute, prompts, schemas and wording: properties
  of them are about words, which sets do not tell apart.
* The timeline of a roadmap (`domain/roadmap/phases.py`), the market figures of the
  overview, rendering of documents, insights: read-only functions of rows whose
  writers are modelled.
* Embedding and search providers, storage, configuration, logging, health: wiring
  and I/O; their failures are outcomes of the handlers that call them.
* The web frontend, the migrations and the evaluation harness are outside the
  service.
