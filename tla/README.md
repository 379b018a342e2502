# TLA+ verification of energy_agent

`energy_agent` is a backend that diagnoses faults of energy equipment: a
FastAPI service runs an agent workflow over alarms, manuals, tickets and past
cases, an engineer reviews the result, and confirmed diagnoses become *cases*
that are indexed into Milvus and Neo4j for later retrieval. This directory holds
TLA+ modules translated from the Python code under `src/src/energy_agent`, the
TLC configurations that check them on small instances, and TLAPS proofs.
`PROJECT.json` maps every definition to its source lines. Paths below are
relative to `src/src/energy_agent`.

## 1. Inventory

| Part | State | Operations | Talks to |
|---|---|---|---|
| Index jobs, outbox, broker (`indexing/`, `providers/rabbitmq.py`) | MySQL tables `index_job`, `index_outbox`; RabbitMQ main, retry and dead queue; unacknowledged deliveries | `add_job`, `publish_once`, `consume` (`start`, `handle`, `finish`, `fail`), `retry` from the CLI | called inside the transactions of cases, manuals, tickets; calls the handlers |
| Cases (`cases/`, `persistence/repositories/cases.py`) and their handler (`indexing/handler_runtime.py`) | case rows: review status, index status, `is_active`, `supersedes_case_id`; vectors in Milvus | draft, patch, submit, approve/reject, disable, revision, reindex; the handler's UPSERT/REINDEX/TOMBSTONE | index jobs; retrieval reads what it leaves |
| Manuals and tickets (`retrieval/ingestion/`, `persistence/repositories/manual_document.py`, `indexing/handler_runtime.py`, `evaluation/drain_index_queue.py`, `evaluation/reload_dataset.py`) | document, chunk and ticket rows with status and generation; vectors in Milvus | ingest a version, queue or index tickets, reload the dataset; the handlers, one event at a time or in batches | index jobs; retrieval reads what they leave |
| Diagnosis runs and sessions (`agent/execution_service.py`, `agent/session_service.py`, repositories, `memory/`) | run and session rows, phase, idempotency key; memory in Redis | start session, diagnose, events, cancel on disconnect | workflow graph, timeline, audit |
| Workflow graph (`agent/graph.py`, `agent/nodes`) | the state of one run | plan, tool calls, retrieval, judge, report | tools, retrieval, model gateway |
| Tools (`tools/`), model gateway, providers and the breaker (`reliability/circuit_breaker.py`) | call budget of a run; a breaker per dependency | execute with timeout, retry and log; `allow`, `record_success`, `record_failure` | InfluxDB, Neo4j, Milvus, the model services |
| Users (`users/`) | users, login sessions, refresh-token hashes | login, refresh with rotation and reuse detection, logout, password change, administration | every API route |
| Timeline (`timeline/`) | per-session sequence of events | append, list by cursor | runs, cases |
| Session intake (`create_session`, `alarm_dedup.py`, `stream_message`, `rate_limit.py`) | sessions, runs by idempotency key, the row of an alarm with its window, the counter of streams in Redis | create or find a session, merge an alarm, open and close a stream | sessions, memory |
| Retrieval (`retrieval/`) | none of its own | rewrite, search three channels, merge, rerank | Milvus, MySQL, Neo4j |
| Templates and guardrails | none; rules over text and evidence | route, check input, plan, generation and output | workflow graph |
| Evidence, catalog, API routing, bootstrap, observability, offline evaluation, frontend | none that a control decision of another part depends on | | |

What is hard, and where (all of it under "hazards" in `PROJECT.json`, by line):

* **At-least-once delivery.** The outbox is published and then marked, the job is
  committed and then acknowledged: a failure between any two gives a second
  message, and each delivery counts as an attempt.
* **Failure paths that act on an old view.** `fail()` writes its status whatever
  it finds; the case handler reads a row once and then embeds, stores and writes.
* **Overlap** of API calls with the worker: a case is disabled, superseded or
  reindexed while its upsert runs; reads without a lock in `update_draft`,
  `submit` and `reindex`.
* **Crashes between steps** that belong together: marking a new version
  searchable and retiring the old one.
* **Limits**: `max_attempts`, the prefetch slots, the publisher's batch.
* **One session, many writers.** A diagnose call writes the run, the session row,
  the result and the memory in Redis one after the other and holds no lock over
  two of them; the update of the session row is itself a read and a write of the
  columns that changed. Calls overlap, fail in between and are cancelled, at any
  await, when the client of the stream goes away.
* **Read, then write** in the user services: a role, a version or an
  authorisation is read in one transaction and used in another.
* **What a turn leaves behind.** Memory is saved after every node, so a turn that
  is cancelled or fails leaves half a state from which the next one starts.
* **Breakers shared by concurrent calls**: results come in late, and the only
  probe of a half-open circuit may be cancelled or end in an error nobody records.
* **Fallbacks** that must be visible: a search that lost its vectors, a batch with
  one bad event, a stream whose release never ran.
* Outside what is modelled: putting the timeline together from several tables.

What makes each part correct:

* jobs: none is forgotten, none fails without a dead letter, a finished one is
  not reopened by late messages, every one is settled;
* cases: what retrieval offers is in the index, a new version replaces the old
  one, a disabled one leaves the index, only drafts are edited, whatever waits
  waits for something;
* runs: every run ends, a completed session has its result, answers are kept, a
  repeated request gives one run;
* workflow: a conclusion rests on data, guardrails and a fitting template, over
  any turns;
* tools: the breaker counts right, gives its probe back and closes again;
* manuals and tickets: INDEXED means there is a vector, of the last generation;
  one version is quoted; what is queued is settled; an answer called complete is;
* intake: an answer names a complete session, repeats and alarms that do not
  overlap share one, slots come back;
* users: a refresh token is redeemed once, a reused one ends its family, what has
  ended stays ended, one administrator is left; timeline: numbers without gaps or repeats.

## 2. Modules

    IndexJobs                 what callers rely on: asked, settled, done is final
      ^ implemented by
    IndexPipeline             jobs, outbox, publisher, queues, deliveries, failures
      ^ IndexPipelineProofs        types, no lost job, no reopening, one message
                                   each, implements IndexJobs
      ^ MCIndexPipeline            instances for TLC

    CaseLifecycle             cases, review, the case handler, Milvus
      ^ CaseLifecycleProofs        types, events fit the review, searchable is
                                   indexed, old versions retire, queued cases
                                   are served
      ^ MCCaseLifecycle            instances for TLC

    DiagnosisSession          a session, its runs, its memory, the calls on it
      ^ DiagnosisSessionProofs     types, results, keys, terminal phases, answers
      ^ MCDiagnosisSession         instances for TLC

    DiagnosisWorkflow         the nodes of a diagnosis over the turns of a session
      ^ DiagnosisWorkflowProofs    types, asserts, conclusions, steps of a session
      ^ MCDiagnosisWorkflow        instances for TLC

    ToolExecutor              calls through a breaker: tools, model, providers
      ^ ToolExecutorProofs         types, the count and the probe
      ^ MCToolExecutor             an instance for TLC

    SessionIntake             create_session, alarm de-duplication, stream slots
      ^ SessionIntakeProofs        types, answers, keys, alarms, streams
      ^ MCSessionIntake            an instance for TLC

    KnowledgeIndex            manuals and tickets on their way into the index
      ^ KnowledgeSearch            and searches over them
          ^ KnowledgeSearchProofs  types, vectors, causes, versions, answers
          ^ MCKnowledgeSearch      instances for TLC

    AuthSessions              users, login sessions, refresh, administration
      ^ AuthSessionsProofs         types, families, versions, administrators
      ^ MCAuthSessions             instances for TLC

`CaseLifecycle` stands on `IndexPipeline`: the job it asks for is owed, may be
delivered twice and may be given up. A session's result is what a case is drafted
from; the reviewer of `DiagnosisSession` is the one whose CONFIRMED creates a draft in
`CaseLifecycle`. `SessionIntake` makes the session that `DiagnosisSession` starts
from; `DiagnosisWorkflow` is what that module sums up as nodes, and is shown to do no
more than it allows (`NodesAsInSession`); its tool calls end the ways `ToolExecutor`
lets them end, and its searches the ways `KnowledgeSearch` does. `KnowledgeIndex`
stands on `IndexPipeline` as `CaseLifecycle` does. `AuthSessions` decides who may call
at all.

### IndexPipeline

A variable per table and per queue, and one record per unacknowledged delivery
(`slot`, at most `prefetch_count` of them). Each transaction of `IndexRepository`
is one step, each broker call another, because every one of them is an `await`
between which other tasks run:

| Code | Actions |
|---|---|
| `_add_job`, `retry` | `AddJob`, `Retry` |
| `OutboxPublisher.publish_once` | `ReadOutbox`, then per row `PublishConfirmed`, `PublishRefused` or `PublishUnconfirmed`, then `MarkPublished` or `MarkFailed` |
| `IndexConsumer.consume` | `Deliver`, `Start`/`StartReplay`/`StartOverrun`, `Finish`/`FinishStale`/`HandlerRaises`/`FinishFails`, `Requeue`/`Bury`, `Ack`/`AckFailsInTry`, `CallbackRaises`, `RepublishUnconfirmed` |
| RabbitMQ (external) | `RetryExpires`, `ConnectionLost`, `Crash` |

An exception that leaves `consume` neither acknowledges nor rejects the message
(`process()` is not used), so the delivery is `hung` until the channel closes.
What the handler does to the entity is left to `CaseLifecycle`; here it returns
a status or raises. A message that does not parse or names no job is not
modelled: no producer of the repository sends one.

`IndexJobs` is the abstract specification: a ledger of absent, owed, done and
failed jobs. The mapping is `Ledger`.

### CaseLifecycle

The columns of a case row that decide anything, the vector in Milvus, and per
job key a status and a number of messages. The travel of a message is
`IndexPipeline`'s business and is summed up by three things that module allows:
a message may be delivered twice (`Duplicate`), a delivery may be given back
(`FailRetry`, `Crash`), a job may be given up (`FailDead`). API calls that read
without a lock and commit later are two steps (`PatchRead`/`PatchWrite`,
`SubmitRead`/`SubmitCommit`, `ReindexRead`/`ReindexQueue`); those that decide
under `FOR UPDATE` are one (`Approve`, `Reject`, `Disable`, `Supersede`). The
handler `_case` is `ReadCase`, `Upsert`, `Publish`, `Supersede` or `ReadCase`,
`Delete`, `Tombstone`, then `Settle`. Case text is one bit, whether the required
fields are there. `index_execution_mode` is `rabbitmq`; the synchronous mode,
idempotency keys and the batch handler of the evaluation tools are not modelled.
The graph projection is best effort in the code and only chooses between
INDEXED and DEGRADED.

### DiagnosisSession

The session row (`phase`, `current`), the memory in Redis, the status of each run
and whether it has a result; per call the request, what it read at its start and
the state of its workflow.

| Code | Actions |
|---|---|
| `diagnose`, up to the workflow | `Enter`, `Load` or `Refuse`, `Create` or `CreateRefused`, `Mark` |
| `_explain_previous` | `LoadExplain`, `Create`, `Explained` |
| `DiagnosisSessionRepository.update` | `SelectSession`, which keeps in `held` the row it read, and `UpdateSession` in `Mark`, `LogSession`, `SaveSession`, `FailSession`, `CancelSession` |
| workflow and `log_step` | `Node`, `NodeStops`, `NodeAsks`, `NodeCompletes`, each followed by `LogSession` and `LogMemory` |
| after the workflow | `FinishRun`, `SaveSession`, `SaveMemory` |
| the `except` branches | `Raise`, `FailRun`, `FailSession`; `Cancel`, `CancelRun`, `CancelSession` |
| a cancellation outside the `try` block, or in its branch for errors | `CancelUnguarded` |
| `review_diagnosis` with NEEDS_MORE_INFO | `ReviewRead`, `ReviewSelect`, `ReviewWrite` |
| Redis time to live; a write outside the workflow that raises, or a crash | `MemoryExpires`; `Abandon` |

The session starts as `create_session` leaves it (`SessionIntake`). The workflow is
reduced to what its nodes do to phase, questions and result: any number of nodes, then
one that asks or one that completes. A repository call is one transaction and one
step, except for `update` of the session row: it selects the row without a lock and
writes the columns in which the new values differ from what it read, so two updates
that interleave may each contribute a column. A client that disconnects cancels the
call at whatever it awaits. In the workflow the `except` branch closes run and
session, shielded from the cancellation; before it, after it and in the branch for
errors nothing catches it (`Unguarded`), and the call ends as `lost`, like one whose
process died, with run and session as they are. Calls that are refused before they
write (unknown or FAILED session, a key that has a run, a stale
`expected_memory_revision`) are left out, and so is the timeline. The nodes themselves
are in `DiagnosisWorkflow`. `Overlap` says whether calls on the session overlap:
nothing in the code prevents it, and the properties that need it not to are stated
with it.

### AuthSessions

The columns of `app_user` that decide anything, and `auth_refresh_session` as an
immutable `row` per session with the sets of `live` and `expired` ones. `claim`
is what the pair of tokens carries (the role is in the access token). Each method
of the two repositories is one step; the two that protect the last administrator
are `LockAdmins` (`SELECT ... FOR UPDATE`, which waits for another holder) and
then `Protected`, `CommitRole` or `CommitDisable`. `login`, `refresh`,
`change_password`, `reset_password`, `logout_all`, `revoke_sessions`, `patch` and
`disable` are sequences of such steps that other calls come between; `Abandon`
ends one at any point. Who may administrate is checked when the call comes in
(`Demote`, `Disable`) and not again, as in the code. At the start
`bootstrap_admin` has run and the administrator is logged in.

### DiagnosisWorkflow

The `DiagnosisState` of a session, reduced to what decides anything, and the node
about to run. Each of the sixteen nodes is an action of its name, together with
the `log_step` after it, which validates and saves the state: so `st` is the
memory from which the next turn starts, whether the turn before it ended, was
`Cancelled` or found the memory expired. `Begin` is the part of `diagnose` that
builds the state (`Restored`, `Blank`). A text is the set of templates whose terms
it contains and whether it names a device and an alarm or offends the input rules;
evidence is its set of sources; a cause is the kinds of evidence it cites (none,
known, graph only, unknown ids), which is what `check_generation` tells apart. A
tool call has the outcomes `ToolExecutor` can return, and the model, where it is
asked, may answer anything of its schema. `Odd` counts everything but the plain
answer.

Three simplifications. The templates that exist have neither a long plan nor actions
of high risk; `LongTemplates` and `RiskyTemplates` let the rules about them be met. Of
the response only its causes, whether the model wrote it (`byModel`) and what the
checks of the output look at are kept: `rule_checker` judges `candidate_causes` of the
state, so `ConclusionIsGuarded` is about those and about a response that the model did
not rewrite; of one that it did, see section 4. `clarification_generator` also stores
a draft result when there is one, which no later node reads. What DiagnosisSession
sums up as `Node`, `NodeStops`, `NodeAsks` and `NodeCompletes` is restated here on
this module's variables, and `NodesAsInSession` says that each node step is one of
them.

### ToolExecutor

One breaker, whose client is chosen at the start: a tool with a breaker, a tool
without one, an unknown tool, or one of the clients that use a breaker
themselves. Callers are runs or workers that share it. A call waits for the
service or for `tool_logger`; `Start`, `Turned` (refused without an attempt),
`ToolAnswers`, `ToolUnreachable`, `ToolRaises`, `Logged`, `LogFails` are
`execute`; `Provider*` are the HTTP and broker clients; `Cancelled` may come at any
await. `RecordSuccess`, `RecordFailure`, `RecordUncounted` are the methods of
`CircuitBreaker`; `NoRecord` marks a call that ends without any of them. Time is
one bit, whether the recovery timeout has passed, and the failure count is kept up
to the threshold, above which the code does not look at it.

### SessionIntake

Requests of one actor, numbered as they arrive: `create_session`, with or without a
key and an alarm, and `stream_message`. Every `await` of `create_session` is a step
(`Lookup`, `Hit`, `AnswerMerged`, `CreateSession`, `CreateRun`, `SaveMemory`,
`RegisterRead`, `Register`, `AnswerNew`), after any of which the request may stop
(`Aborts`). `hit` is one step, since it holds the row `FOR UPDATE`; `register` reads
without a lock and is two. A retry is another request with the same payload, so
overlap and repetition are the same thing here. Slots are the counter in Redis with
its time to live (`ttl`), which every acquire sets to 300 seconds before the limit is
looked at: `TtlRunsDown` is the time passing, `SlotsExpire` its end, and `Knock` a
client beyond `Requests` that acquires before it, is refused or streams and releases,
and so keeps the counter alive. `LoseStream` is a stream that ends without its
release. The history variables `ended`, `leaked` and `drifted` serve the properties
only. The request counter of the rate limiter is one atomic script and is left out,
and so is the middleware that applies it.

### KnowledgeIndex and KnowledgeSearch

Versions of one document and maintenance tickets, with status, generation and
vectors. Writers are `Ingest` (both index modes; without the queue it goes on as
`SyncUpsert` and `SyncPublish`), `QueueTicket` and the script's synchronous path,
and the dataset reload, which is run while nothing else writes (`Quiet`). Workers
are consumers, which take one message, and drainers, which take a batch, group it
by kind and halve a group that fails (`Raise`); for both the handler is `Read`,
`Upsert`, `Publish`, `Finish`, with other steps in between. A job has one message,
taken, put back or dead: how it travels is `IndexPipeline`'s matter. A message whose
job has used up its attempts makes `start()` raise (`TakeOverrun`): a consumer's
delivery hangs, as `StartOverrun` in `IndexPipeline`, and `drain()` ends, with its
whole batch given back and some of it started.

`KnowledgeSearch` adds `RetrievalService.search` over these rows: candidates from
MySQL in one step, the vector channel in another, fallbacks, reranking and what
the answer reports. Scores and thresholds are left out, so the keyword channel
finds any subset of the candidates and merging is a union; the vector channel finds
`TopN` (`vector_top_n`) of the candidates that have a vector, or all if they are
fewer. Case candidates belong to `CaseLifecycle`.

## 3. Runs

| Run | Instance | Shows |
|---|---|---|
| `pipeline_faults` | 1 job, 2 deliveries, 2 attempts, every kind of failure, 3 of them, 2 operator retries | types; no job lost, none failed silently, none reopened by a late message |
| `pipeline_contract` | 2 jobs, 2 deliveries, batches of 1, refused publishes | one message per owed job; implements `IndexJobs`, liveness included |
| `case_search` | 2 cases, 2 deliveries, submit and reindex, one handler failure or duplicate | events fit the review, searchable is indexed, old versions retire |
| `case_served` | 2 cases, 1 delivery at a time, patch and submit by one client, complete and incomplete drafts, two handler failures or crashes | a QUEUED case has an owed job; two versions do not stay searchable |
| `case_disable` (violation) | 1 case | see findings |
| `session_overlap` | 2 overlapping calls with the same key or two keys, a reviewer, one failure of any kind | COMPLETED has a result, in memory that of its run; one run per key |
| `session_turns` | 3 calls in turn, one raises, is cancelled or is cut off, a reviewer | answers are kept, terminal phases are final, runs end, the session settles |
| `auth_calls` | 2 users, 3 overlapping calls, 4 sessions, a limit of one failed login | an administrator remains; one live session per family; reuse ends the family; versions fix roles; what has ended stays ended |
| `workflow_turns` | 3 turns, 3 templates (one long, one risky, one for another type of device), 4 texts, 2 odd events among failing tools, strange answers of the model, cancelled turns and expired memory | types and the nodes' assertions hold; a conclusion rests on data and a fitting template, and its causes pass the guardrails; nodes do what `DiagnosisSession` allows |
| `tools_calls` | 3 callers of each of 10 clients, 2 attempts, a threshold of 2, 2 tool calls a run, 1 fault | types; the breaker's state fits its count; its probe is given back; the circuit closes |
| `session_intake` | 3 requests of 4 kinds (2 alarms, 1 key used by two of them, streams), 1 slot, 1 failure | types; answers name complete sessions; keys and alarms open one, and merged alarms are recorded; slots are counted and return unless clients keep acquiring |
| `knowledge_index` | 2 versions, 1 ticket, 1 consumer, 1 drainer with batches of 2, 2 attempts, 2 generations, 2 requests, 2 failures, 2 vector hits, both index modes | types; INDEXED has its vector, of the last generation; jobs fail for cause; one version is quoted; complete answers are; manuals are settled |

**Bounds.** Jobs do not share state except the publisher's batch and the delivery
slots, so failures are explored with one job and competition with two. Two attempts
are the least with both a retry and a last attempt. Three failures allow a duplicate,
its overlap and a failed acknowledgement. Two cases are an original and its revision
(a revision of a revision meets the same code again), two deliveries let a tombstone
and an upsert of one case overlap; `case_served` has one, since its invariant is
proved for any number. Two calls on a session are the least that overlap, three in
turn let one ask, one answer and fail, and one go on from there; one node before the
last lets a run be interrupted with its phase written, and a run can complete only
after it. Three calls on users let two refreshes race with a third that uses the
successor, or two administrators with a login; the administrator's own session is
there from the start, and each call makes at most one more. The limit of failed logins
is 1 there: it only decides when an account locks. Three turns let one ask, one be
cancelled half way and one complete from what they left; two odd events let two
sources fail together, or one fail and the model stray. Two callers are the least of
which one holds the probe while the other's late result comes in, the third is one
that follows them, and a threshold of 2 the least at which a failure may or may not
open the circuit. Three requests let two overlap and a third come after both. Two
versions are the old and the new one; a consumer and a drainer can hold two
generations of one ticket, and a batch of two one good and one bad event; two failures
use up two attempts, so that a spent message is met by either worker. A search has one
candidate there, fewer than `TopN`, so that nothing it misses is excused; the limit
itself is left to the theorem, which is for any `TopN`. The theorems have none of
these bounds. `CHECK_DEADLOCK FALSE` is set except in `tools_calls`, since all work
may be done and nobody has to ask for more.

**Fairness.** Weak fairness of the publisher (`run_forever` polls until it is
stopped), of the broker's deliveries and expiries, of each callback's next step, and
of the next step of a diagnose call (a coroutine that is awaited goes on). The same
holds for the next step of a request of `SessionIntake`, of a call of `ToolExecutor`
(every await there has a timeout) and, taken together, of the workers of
`KnowledgeIndex`: the index worker is always running. (The drainer is a tool that
ends; alone it could not get past a spent message at the head of the queue.)
`DiagnosisWorkflow` needs none. Clocks are fair: the recovery timeout of a breaker
passes, and so do the 300 seconds after the last acquire of a slot. They do not pass
while somebody acquires again in time, refused clients included, who are told to try
after a second; nothing prevents that, so `SlotsReturn` says that slots come back or
clients knock for ever, and `Knock` is not bounded by the number of requests.
`CircuitCloses` also needs that somebody calls the service again and again when
allowed (strong fairness of `Start`), as diagnoses keep coming. Failures, producers,
operators, reviewers and clients have none.

## 4. Findings

* `case_disable`: a case disabled during its upsert is made active again by the
  handler, its tombstone is judged stale, and its vector stays in Milvus. (It is
  not retrievable: `case_candidates` asks for APPROVED too, which is why
  `SearchableIsIndexed` holds.)

Seen while modelling, without a run of their own:

* *Index jobs.* An unconfirmed publish makes two messages, each counts as an
  attempt, and a delivery that finds the attempts used up raises in `start()`
  (`indexing/contracts.py:98`) instead of failing the job: it hangs with the job
  QUEUED, and `indexing.cli retry` only takes FAILED ones. Unpublishable rows that
  fill a batch keep later rows of the outbox waiting; `pipeline_contract`, with two
  refused publishes, does not show how long.
* *Cases.* `queue_index` sets a case to QUEUED although `add_job` found an old,
  settled job for the key (a second reindex): it waits for nothing, which is why
  `QueuedIsServed` is stated without reindex. `submit` checks the required fields on
  one read and commits later (`cases/application.py:376-379`), `update_draft` checks
  DRAFT without a lock (`persistence/repositories/cases.py:168`): with two clients an
  edit in between, or one that read the DRAFT before and lands after, leaves an
  incomplete case PENDING_REVIEW, where the design document (section 9.3.1) lets only
  cases with the minimum of information get there. `_case_batch` does not queue the
  tombstone of the superseded case, as `_case` does.
* *Sessions.* The design document (section 9.1.5) asks for a lock per session and for
  a check of the version when memory is written; the code has neither. Two overlapping
  calls start from the same memory and write it back under the same revision, the
  later one over the earlier one. Of two overlapping updates of the session row
  (`persistence/repositories/diagnosis_session.py:89-98`) one may write COMPLETED and
  the other its run, each leaving alone the column in which it sees no difference: the
  row is COMPLETED and names a run without a result. (The session has a result all the
  same, which is what `CompletedHasResult` says.) A call that is cancelled outside its
  `try` block (after `runs.create`, in the branch for errors, between the writes after
  the workflow) leaves its run running and the session as it is; `CallsSettle` excuses
  these calls (`lost`). Questions are numbered from `gap_1` in every run and an
  answered id stays answered, so a second run may wait for an answer it refuses; no
  property is about this. After a review or a failure, which write the row only,
  `get_session` goes on showing the phase in memory. A cancelled call leaves its
  answers there, where they count as given.
* *Workflow.* The model may replace the whole response
  (`agent/nodes/diagnosis.py:779`), while the guardrails judge the causes of the state
  and leave the response untouched when those are clean (`guardrails/service.py:120`):
  causes in it that cite no known evidence are stored and shown. A follow-up that
  lacks the device or the alarm can never complete, since the applier goes to the gap
  detector and nothing is fetched again; the applier's BLOCKED is overwritten by the
  gap detector; a follow-up skips the input rules. An empty list of questions from the
  model fails the validation in `log_step`, and the session with it. Retrieval that
  times out, and a graph query that does, are reported as degraded nowhere.
* *Breaker.* A probe that ends in an error the client does not record (a 4xx of the
  embedding or reranker service, a cancel, a log that fails twice) leaves its flag
  set, and the dependency is refused from then on; `lost` stands for this in
  `ProbeReleased` and `CircuitCloses`. Refusals are not written to the step log.
* *Intake.* A retry while the first request is between its run and its memory, or
  after that one stopped there, is answered with a session without memory. Two
  overlapping requests with one key open two sessions. A keyed alarm that was
  merged leaves no run with its key, so its retry counts as another alarm. Slots of
  lost streams are kept until the time to live, which every attempt, a refused one
  too, renews: a client that tries once a second, as it is told to, never gets its slot
  back. A time to live that passes under an open stream breaks the count, after which
  `StreamsCounted` says nothing (`drifted`).
* *Manuals and tickets.* A worker that dies in the last attempt of a job leaves it
  RUNNING and its document QUEUED: `start()` refuses the message that comes back, and
  a drainer that meets it ends. `DocSettles` excuses that job (`Stuck`) and no other;
  `docs/pilot/KNOWN_LIMITATIONS.md` disclaims crash recovery of workers. A ticket
  queued again while a handler holds it may keep the older vector (`raced`). A search
  that finds `vector_top_n` hits does not say that there are more. The drainer retries
  and then fails stale events, and `fail` marks a ticket FAILED whatever its
  generation. Manuals that are not effective or not approved stay QUEUED with the
  queue and become INDEXED without it. A new version hides the old one before it is
  indexed. An ingestion without a queue that dies leaves PENDING, and the next one
  takes the version for done. An answer of the embedding service that cannot be used
  is not caught by `search`, so the tool fails where the degradation matrix promises
  keywords.

## 5. Theorems

All are checked by TLAPS for any sets of jobs, cases, clients, any finite sets of
deliveries, any limits and any number of failures, any calls, keys, sessions and
roles, any templates and texts, callers, requests, tickets and versions; the
assumptions are the `ASSUME`s of the modules (finite deliveries, tickets and versions,
at least one attempt, a batch and a number of hits of at least one, results among the
declared statuses, finitely many users, at least one failed login before a lock, a
breaker that needs at least one failure). Every invariant and every action property of
a passing run is the statement of a theorem.

* `IndexPipelineProofs!TypeCorrect`. `TypeOK` includes that the rows of a batch
  are still pending, without which marking a row could lose one.
* `JobsAreKept`: `JobsKept`, that is `NoLostJob /\ NoSilentFailure`, is inductive
  together with `TypeOK`, job by job (`Kept(j)`). The argument follows a message from
  the outbox row through the queues to a delivery and back; neither half alone is
  inductive, since a FAILED job can be started again by a late message.
* `DoneIsReopenedOnlyByOverlap`: an action property from `TypeOK`.
* `OneMessageEach` and `PipelineImplementsContract`, under
  `NoDuplication == FaultKinds \subseteq {"publish"}`: `Solo(j)` counts the
  messages of a job and ties them to its status, so that a delivery that fails a
  job is the only one that has it. With it, every step maps to a step of
  `IndexJobs` or a stutter.
* `CaseLifecycleProofs!EventsFollowReview`: no event is ahead of the review. It
  rests on `ReviewForward`: a case that is retired stays so, one that is approved
  is later approved or retired.
* `SearchIsBacked`: `SearchInv` adds that a delivery past the
  read is in the branch of its operation and that one about to publish has stored
  its vector, or its case is not APPROVED any more.
* `PredecessorsRetire`: `LineageInv` adds that a revised case is decided and a
  finishing delivery has retired it.
* `QueuedCasesAreServed`, while reindex is not used (with it the statement is
  false, see section 4): `ServedInv` ties each QUEUED case to the job of its
  own review status and each finishing delivery to a case that no longer waits.
* `DiagnosisSessionProofs!CompletedResult`: `ResultInv` adds that a call which has
  COMPLETED in its state has its result, and that one which read it in the row it may
  set back to read it of a session with a result. Holds under overlap, however the
  updates of the row interleave: results are never removed (`ResultsStay`), and an
  update that leaves COMPLETED alone leaves the row as it found it.
* `KeyHasOneRun`: the unique constraint decides, so a run exists only for a call
  that got past `Create`.
* `TerminalStays`, for calls that come one after the other: `TurnInv` says that at
  most one call or review is under way and what it read is still so, the row that an
  update holds included (`UpdateAlone`).
* `AuthSessionsProofs!OneLive`, `TokensAreSpentOnce`, `ReuseIsFinal`: together
  inductive with `Lineage` (a session that has a successor is not live, the first
  one of a family exists): a fresh id cannot revive an old family.
* `RoleFollowsVersion`, `EndedSessionsStayEnded`: `VersionFacts` says that what a
  row or a call under way carries is the user's version and role, or an older
  version. It rests on `UserStep`: a new role, and the end of ACTIVE, come with a
  new version in the same transaction.
* `AnAdminRemains`: `LockFacts` says that one call at a time holds the active
  administrators and that those it counted are still active, so that the count
  made before the target is read is at most too low.
* `AnswersAreKept`, for calls that come one after the other and a memory that does
  not expire: `AnswersInv` carries a run's answers from its state into the memory,
  and says that every later call that writes has loaded them from there.
* `ToolExecutorProofs!BreakerCounts`: the types and `Counted` are inductive. Each
  record method is looked at once (`Recorded`); the actions of tools and providers
  differ only in which one they call. A half-open circuit has its failures, so a
  failed probe opens it again.
* `ProbeIsReleased`: `ProbeHeld` adds that only a client that is guarded sets the
  probe; the last call in flight clears it or is counted as lost.
* `DiagnosisWorkflowProofs!NodesMeetTheirAsserts`, `ConclusionsAreGrounded`,
  `ConclusionsAreGuarded`: one inductive invariant, `TypeOK`, `Spoken` and `Good`,
  of a node and the state that `log_step` has saved. It says what is known at each
  place of the graph (device and alarm behind the parser, the template behind the
  plan, no gap behind the aggregator, the verdict behind the rule checker) and what
  holds of the memory anywhere, since a turn may start from the memory of one that
  was cancelled at any node: evidence of a device means a device that was looked up
  and a template that fits. `ConclusionsAreGuarded` is about the causes of the state
  and a response the model did not rewrite; of one it did, see section 4.
* `NodesAreSessionSteps`: an action property from the same invariant. Each node
  step, seen through phase, questions and result, is a step of a call in
  `DiagnosisSession`.
* `SessionIntakeProofs!AnswersAreComplete`, `KeysOpenOne`, `AlarmsAreMerged`,
  `StreamsAreCounted`: one inductive invariant. `Shape` says that session, run and
  memory are made in this order and that the de-duplication row names a session
  that has all three (an answer that is not merged is promised the row and the run
  only); `Order` says that whoever is past its lookup had no run with
  its key among the requests that had ended before it, and that a session opened
  for an alarm which may still be shared is the one in the row; `Counts` is
  `StreamsCounted` with the number of lost streams.
* `KnowledgeSearchProofs!IndexedVectors`. `IndexShape` are the types and what
  they rest on: workers and known jobs are about generations that there were
  (`EventsPast`), what can be found or is being written has a generation
  (`RowsHaveGen`). `ManualsIndexed` and `TicketsIndexed` say that whoever is about
  to write INDEXED has upserted: for a manual the vector of the generation the row
  still has, because a version is written anew only after its row is gone; for a
  ticket any vector.
* `VectorsAreOfLatest`: `LatestInv` adds that an event held between reading and
  publishing is of the ticket's generation, or the ticket is in `raced`.
* `JobsFailForCause`: with `RowsOnlyAge` (a row gets a later generation, or does not
  come back into effect but by a review) an event that is stale stays so, and a
  reading fails only a group of one, whose event is the stale one.
* `OneVersionIsQuoted`: at most one version's chunks are effective.
* `CompleteAnswersAreSearched`, for any `TopN`: what was INDEXED when a search read its
  rows is known to Milvus when it asks (`SearchFacts`), from `IndexedVectors` at that
  moment and `VectorsStay` afterwards; so fewer than `TopN` hits are all of it.

* `TypeCorrect` of `CaseLifecycleProofs`, `DiagnosisSessionProofs` and
  `AuthSessionsProofs`: the types, proved rather than checked by a run. Of the
  other modules one invariant each (`AssertionsHold`, `ClosedBelowThreshold`,
  `AnsweredIsComplete`, `IndexedHasVector`) has `TypeOK` as its first conjunct.

Only model-checked: everything under fairness (`OldVersionLeaves`, `CallsSettle`,
`CircuitCloses`, `DocSettles`, `SlotsReturn`, the liveness half of
`ImplementsIndexJobs`), which this prover cannot do. Only proved, and not the
property of a run: `TokensAreSpentOnce`.

## 6. Plan

Done: the index pipeline, cases, diagnosis sessions, users; the workflow graph,
tools and breakers, intake, manuals and tickets with retrieval; a theorem for every
invariant and action property. Next:

1. Theorems that compose the modules: that `KnowledgeIndex` and `CaseLifecycle` use
   jobs as `IndexJobs` promises them, and that `SessionIntake` leaves what
   `DiagnosisSession` starts from.
2. The timeline: that an item is shown once while its tables are read one after
   the other.
3. Cases in the synchronous index mode, and their batch handler.

## 7. Not modelled

* Timeline: see the plan. Appends are one transaction with a unique number.
* Evidence and catalog: read-only queries over the tables of other parts.
* Text work: prompts, templates' terms, patterns of the guardrails, parsing and
  chunking of documents, query rewriting beyond its fallback.
* Scores, thresholds and ranking: floating-point arithmetic.
* Hashing, token formats and passwords: libraries.
* Routing, wiring, schemas, metrics, tracing and audit records: nothing decides by
  them.
* The evaluation's runner, metrics and reports, and the validation of the dataset:
  offline computations over files.
* The frontend: a client of the API.
