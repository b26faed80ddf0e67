# MailAgent: a TLA+ verification project

MailAgent reads the unread messages of a Yandex mailbox, analyses body and attachments with OCR
and an LLM, stores the result in a separate Results API, and only then flags the message `\Seen`.
This directory models that pipeline and the services around it, checks the models with TLC and
proves the central properties with TLAPS. Paths below are relative to the repository; `builder.py`, `processing_repository.py`,
`worker.py`, `cli.py`, `routing.py` and `results_api.py` are those of `agent/src/mail_agent`.

## 1. Inventory

| Component | State it keeps | Operations | Talks to | What makes it correct |
|---|---|---|---|---|
| **Message pipeline** `graph/builder.py`, `graph/routing.py`, `models.py` | LangGraph checkpoint per message (`checkpoint_db`), temporary directory per run | 13 logical nodes and `manual_review`, each as action + `X__checkpointed`; `failure`; `_run` continues, rewinds or starts afresh | record, journal, Results API, mailbox, OCR, LLM | no flag and no completion before the result is stored; nothing confirmed is computed again; every message comes to rest |
| **Processing record** `storage/processing_repository.py` | a row of `processing_records`: status, failed stage, attempts, generation, API confirmation, review mark | `ensure`, `may_attempt`, `start`, `stage`, `result_committed`, `completed`, `mark_manual_review`, `error`, requeues | pipeline, worker, CLI, dashboard | bounded attempts; a confirmation belongs to its generation |
| **Node journal** `storage/processing_repository.py` | rows of `node_executions` by execution key: status, output | `claim`, `store`, `complete`, `fail`, `recover`, `invalidate` | pipeline, CLI | a row that is running belongs to the live process; a checkpoint never confirms an output that is not there |
| **Worker, CLI, lock** `worker.py`, `cli.py`, `storage/lock.py` | lock file, stop event, active records | poll loop, `once`, `process [--reprocess]`, `retry-failed`, signals, concurrent mode | mailbox, record, pipeline | one process at a time; an exception of one message does not lose it or another |
| **Results API client** `clients/results_api.py` | none | `persist`: PUT, retries with back-off, check of the confirmation | Results API | a lost answer is never taken for a commit, a commit never for a final failure |
| **Results API, writing** `api-service/app/db.py`, `services/ingestion.py`, `storage/s3.py`, `schemas.py` | `email_locator`, `emails`, `email_attachments` (PostgreSQL); objects (S3) | hash, upload and HEAD each file, then one transaction | client, maintenance, readers | generations never go back; the published row points at its own objects |
| **Results API, reading** `api-service/app/main.py`, `db.py` | none | keyset list, detail, statistics, downloads | frontend | no message skipped or repeated by a page; no mixture of generations |
| **Maintenance** `api-service/app/maintenance.py` | partitions | create partitions, delete orphan prefixes | S3, PostgreSQL | never deletes objects of a row being committed |
| **Authentication** `api-service/app/auth`, `security.py` | users, sessions, login attempts | bootstrap, login, logout, cleanup, administration | frontend | revoked and expired sessions stay out; one administrator is bootstrapped |
| **OCR service** `ocr-service/app` | loaded models with leases, inference slots | acquire/release/evict a model, run with timeout, close | OCR client | a leased model is never closed; slots are neither lost nor doubled |
| **LLM and OCR clients** `clients/llm.py`, `clients/ocr.py` | circuit breaker, semaphore, per-message budget, capabilities cache | request with retries, structured chat, extract | pipeline, services | breaker opens and closes; the budget is per message |
| **Attachments, summarisation** `attachments/`, `summarization/`, `messages/` | none | parse, plan, chunk, summarise | pipeline, LLM client | every chosen chunk is in the evidence once, within budget; what is left out is said |
| **Mail SDK** `yandex/mail` | OAuth tokens on disk, IMAP connection | list pages, read, set flags | worker | pages cover the mailbox; a failed refresh keeps the old token |
| **Drive SDK, workbook** `yandex/drive`, `storage/workbook.py` | -- | -- | nothing any more | legacy, outside the runtime |
| **Dashboard, frontend, LLM service** | -- | presentation, configuration | API | no state of their own |

**How they interact.** One process holds `CoreWorkerLock`. It lists messages, and for each calls
`ensure`, `may_attempt` and `graph.run`. `graph.run` reads record and checkpoint to decide where to begin,
then alternates supersteps: the guarded node claims its journal row, works, stores its output;
LangGraph writes a checkpoint; `X__checkpointed` completes the journal row and moves the record;
LangGraph writes another one. Four stores (record, journal, checkpoint, files) and two remote ones
(API, mailbox) change in separate steps, and the process may die between any two.

**What is hard.** Crashes between two stores (journal completed, record not); a failed stage
remembered after the failure was overcome; temporary files named by a checkpoint of a dead
process; an API commit whose answer is lost; an old PUT arriving in a newer generation; rows
left running by an escaped exception; requeues at any moment. `PROJECT.json` lists each hazard at its
line, with the properties that cover it.

## 2. Modules

| Module | Models |
|---|---|
| `MailGraph` | one message: process, pipeline, client and API, mailbox. Composes the next three |
| `ProcessingRecord` | the SQL statements on one `processing_records` row, one operator per transaction |
| `NodeJournal` | the SQL statements on `node_executions`, one operator per transaction |
| `ResultsStore` | the API's locator row with its payload: what one PUT does and when it conflicts |
| `MessageDelivery` | abstract: generations, `Store`, `Confirm`, `Flag`, `Finish`, `Reopen`; `MailGraph` implements it |
| `PollingWorker` | many messages: listing, polls, sequential and concurrent mode. Uses `ProcessingRecord` |
| `ResultsApi` | concurrent PUTs, readers and cleanup over S3 and PostgreSQL. Uses `ResultsStore` |
| `EmailListing` | the reader's list and statistics over months, while messages are inserted and their results replaced |
| `AuthSessions` | one reader account, its sessions, concurrent transactions |
| `OcrService`, `OcrCalls` | the OCR service; and the agent's `OCRClient` in front of it |
| `LlmClient`, `MessageAnalysis` | the LLM client that threads share; and `AnalysisService.summarize` over it |
| `MC*` | the modules TLC runs: constants that a `.cfg` cannot write |
| `MailGraphProofs` | theorems about `MailGraph`: types, the journal, what is earned, the promise, confirmed results |
| `AnalysisProofs` | theorems about `MessageAnalysis` over `LlmClient` |
| `OcrProofs`, `PollingProofs`, `ListingProofs`, `ResultsApiProofs`, `AuthSessionsProofs` | theorems about the module they are named after (section 4) |
| `OrderTheorems` | places in a strict order on a finite set, for the proofs about sorted lists |

`ProcessingRecord` and `ResultsStore` are the seams: the worker's rows move by the operators that move
`MailGraph`'s record, and a committed PUT of `ResultsApi` is shown to do to the rows what `ResultsStore` says one PUT does, which
is what `MailGraph` takes the API to be.

### The pipeline: `MailGraph`

**State.** `record` and `journal` are the SQLite tables. `ckpt` is the latest checkpoint:
channel values `s`, the node that runs `next`, and which `half` of it (`action` is the node, `finalize` is
`X__checkpointed`). `patched` is the state the superstep under way will checkpoint. `phase` is the
program counter: `idle`/`asked`/`forced` (worker between messages; a command about to process, with or
without `force`), `accepted` (in `_run`), `rewinding` (between `start()` and `update_state`), `ready`
(between supersteps), `claimed`, `sent`, `executed`, `patched`, `confirmed`, `finalized`.

**Channel values.** `_input_context` hashes the durable part of the state, so two states with the same
durable part share a journal row. The model keeps that part (`data`) apart from the ephemeral
fields (`status`, `failed_stage`, pending key, file paths), because the difference matters: an output
reused from the journal has lost its ephemeral fields. A payload is a number: each execution of
`prepare_api_record` makes a new one since `processed_at` is the current time. `raw` says where the
raw e-mail file is: none, in this run's directory, left over by a dead process, or gone.

**Actions and code.**

| Actions | Code |
|---|---|
| `StartWorker`, `StopWorker`, `ProcessCommand`, `ReprocessCommand`, `RetryCommand` | `cli.py` main under the lock, recovery first |
| `Accept`, `Defer`, `Finish`, `RunRaises`/`Escape` | `PollingWorker._process`, `once` |
| `Continue`, `RestartFailed` then `Rewind`, `StartFresh` | the three branches of `MessageGraph._run` |
| `Claim`, `Reuse`, `FindBusy`, `StoreOutput`, `Fail`/`NodeFails`, `Checkpoint` | `_guard` and the checkpoint after it |
| `CheckIdempotency` ... `CompleteMessage`, `ManualReview` | the node functions |
| `Send`, `SendWithoutFile`, `SendAgain`, `ReceiveCommit`, `ReceiveConflict`, `GiveUp` | `_persist`, `ResultsAPIClient.persist` |
| `ApiHandles`, `LoseRequest`, `LoseReply` | the API and the network |
| `ConfirmNode`, `RecordNode`, `FinalCheckpoint`, `MissingEdge` | `_finalize_node`, the checkpoint after it and the edges |
| `RecordFailure` | `_failure` |
| `Crash`, `Deploy` | death of the process; a new pipeline version |

`MissingEdge` needs an escaped exception: a manual review is confirmed in the journal, the exception escapes before its checkpoint, the fresh start fails at the same analysis
node, and the manual review, now reused, does not clear `failed_stage` and `status`, which the journal leaves out. So the route is `manual_review` once more,
`manual_review__checkpointed` has no such edge, and the run raises. The failure is then in the checkpoint, and the next attempt rewinds to it.

**Abstractions.** One message at a time, in the sequential worker (`max_concurrent_messages: 1`, the default). The
message's record is the one its listing names: `ProcessCommand` stands for messages without a Message-ID,
since `process --uid` does not know that header. Node outputs are functions of the durable state, except
where the code asks a model or a service: attachments may come out processed or skipped, the summary is
any of `CleanSummaries`. `Collect` calls an attachment unavailable when its file is missing; that
`build_metadata` fails on a file that is there, which leads to manual review as skipping it does, is left out. The extraction cache only saves work. The back-off only delays an attempt, so
"the delay has passed" is always possible. Dashboard columns and the attempts table are left out. LangGraph's
checkpoint is taken to be durable before the next superstep, as `_finalize_node` assumes. `seen` is the
flag as the agent sets it. Statuses 4xx other than 409, and malformed answers, are among `NodeFails`.

### The worker: `PollingWorker`

`box` is the mailbox, `row` the record of each message, `waits` those whose `next_retry_at` has not come, `stuck` those
with a journal row that an escaped exception left running. `pc` is where `run_forever` is; `offset` and `listed` are
the page and the list under construction, `queue` what the executor was given, `running` and `stage` its threads.
`before` and `changes` are history: the mailbox when the listing began, and what happened to it since.

| Actions | Code |
|---|---|
| `BeginPoll`, `EndPoll`, `Wake`, `Stopped`, `RequestStop` | `run_forever`, the stop event and the signals |
| `NextPage`, `LastPage`, `ListFails` | `list_unread_all`, `list_messages` of the SDK with its sort, `_oldest_first` |
| `Submit`, `Leave`, `Take` | the loop of `once`, or the `ThreadPoolExecutor`; `_process` up to `graph.run` |
| `Work`, `FindBusy`, `FindCompleted`, `Deliver`, `Fail`, `Raise` | what `graph.run` may do to the record, and how `once` takes it |
| `Start`, `Die`, `RetryTimeComes`, `Others` | `cli.py` with lock and recovery, death, time, other mail clients |

What the pipeline does between its beginning and its end is `MailGraph`'s business: here one step begins an attempt and
one ends it, and `Deliver` flags and completes at once. `Raise` stands for every exception that leaves `_process`: before
a row was claimed or after (`stuck` or not), of a `PermanentError` or another (which `repository.error` tells apart in the sequential mode). `MarkRead` and a flag set by somebody else are the
same `box`. Each page is a search of its own, so it sees the mailbox as it is then.

### The Results API: `ResultsApi`, `EmailListing`, `AuthSessions`

`ResultsApi` is about one record. A PUT handler goes through `raw`, `files` and `commit`: it stores the raw e-mail and each
attachment (`Uploaded` is upload and HEAD together; either may fail with the object there or not), reads the locator `FOR UPDATE`,
which locks nothing while there is no row, and commits, loses the insertion to another (`IntegrityError`), fails, or commits
without learning of it. The three tables change in one transaction, so `row` is the PUT whose rows are committed; `StoreOf` is
that row in the terms of `ResultsStore`. `reader` runs the separate statements of `detail()`, then HEAD and GET of an object.
`cleaner` is `mail-results-orphans`: list the old prefixes, ask for the locator in a session that is then closed, delete the prefix.
Keys are `<month, file>`: a date in another month puts the objects elsewhere. A payload is one of `Puts`, which satisfy that equal
fingerprints mean equal payloads (SHA-256).

`EmailListing` is about many rows. `walk` is a client that follows the cursors: each step is one query of one month partition, with
`from` and `to` applied to what the limited query returned, as in `main.py`. `stats` is the statistics request: three statements
per month. `result` is what the last generation of a message has stored, its classification and number of attachments. `Insert` and `Replace` may come between any two
queries: the first result of a message, and a newer generation, which keeps `received_at` and `record_id` (`commit` refuses another) and changes the class and the attachments. Which
generations are accepted is `ResultsApi`'s business. `versions` is history: the contents committed at some time since the statistics began. Instants are numbers, a month is `MonthLength` of them, `Horizon` stands
for the 120 months of the loop.

`AuthSessions` is one account. Processes (API workers, the `mail-results-auth` command, bootstraps of starting processes) run
transactions that take their time once (`began`), read the row with `FOR UPDATE` or insert it, hash in a thread and commit; `Rollback`
may come instead of any step. A token is drawn once. `era` counts the changes of password and the closings of the
account, and a session remembers the `era` of the row its login has read, so that "this session is older than the password" can be said.

### The services: `OcrService` with `OcrCalls`, `LlmClient` with `MessageAnalysis`

`OcrService` takes a request through registry, document (`file`: a PDF lies in a private file), `ModelManager` (`cache`, `loadLock`,
`leases`, `evicted`, `pipeline` open or closed), `InferenceLimiter` (`slots`, `modelLock`, `used`: the pipeline a thread predicts with), release and
unlink. A section under `_cache_lock` has no `await` in it and is one step. `TimesOut` answers the request while its thread goes on;
`LateEnd` is the callback when that thread ends. `Shutdown` and `CloseNext` are `ModelManager.close`. `OcrCalls` adds the client: its
semaphore, its retries, its read timeout (the service is not told), so two attempts of one call may be at work in the service at once.

`LlmClient` has the shared semaphore and circuit breaker, the retries of a request, the second request after an invalid answer, and the
budget of structured calls per message. The count of failures is kept up to the threshold, since only reaching it matters. `MessageAnalysis`
runs `summarize` in several threads over it: chunks of attachment, forwarded chain and body, the sample of them (`Select`, with Python's
`round`), a digest per chunk, the reduction in groups, the full summary, the short one, the classification, and the notices. A digest is
the set of the chunks it accounts for; where a group ends depends on text lengths, so any cut into consecutive groups is possible.

## 3. Runs

| Run | Instance | Checks |
|---|---|---|
| `pipeline` | 2 faults, 1 crash | `TypeOK`, `CheckpointHasOutput`, `RunningIsMine`, `Settles` |
| `commands` | 1 fault, 1 crash, 2 commands | `DatedConflictIsOwn`, `NothingUnearned`, `StoredIsFinal`, `KeepsPromise`, `ConfirmedSkipsAnalysis` |
| `escapes` | 2 faults, 1 escaped exception, attachments | `CompletedIsDelivered`, `FlagFollowsRecord` |
| `polling` | 3 messages, one of which arrives later, pages of 1, threads 1 or 2, 2 events | `TypeOK`, `ListingIsWhole`, `EveryMessageIsHandled`, `GoesQuiet`, no deadlock |
| `ingestion` | 2 handlers, 5 payloads, 1 attachment, 2 months, 3 PUTs, 2 faults, cleanup alone | `TypeOK`, `PublishedObjectsExist`, `AcknowledgedStays`, `DetailIsOrdered`, `PutsAreAtomic`, `OrphansGo` |
| `listing` | 5 messages in 3 months of 3 instants, one with 2 contents, pages of 2 | `TypeOK`, `WalkIsComplete`, `StatisticsAreBracketed`, `WalkEnds` |
| `sessions` | 2 processes, 2 tokens, 2 passwords, 4 operations, 1 tick | `TypeOK`, `UsableIsCurrent`, `CreatedOnce`, `TokensNeverReturn`, `OperationsEnd` |
| `ocr` | 2 callers with 2 attempts each, 3 requests accepted, 2 keys, a cache of 1, 2 slots | `CallTypeOK`, `LeasedIsOpen`, `GuardsHold`, `NothingLeftBehind`, `WorkEnds` |
| `analysis` | 2 threads, a long and a short message, samples of 3, budget 8, 1 permit | `TypeOK`, `EvidenceIsWhole`, `SampleIsEven`, `NoticesReachTheSummary`, `AnalysisEnds` |
| `v_orphans` | as `ingestion`, cleanup at any time | `PublishedObjectsExist` is violated |
| `v_ocr` | as `ocr` | `NeverUsedConcurrently` is violated |
| `v_polling` | two messages, one date in `-0000` | `EveryMessageIsHandled` is violated |

Each bound is a guard, so the events it counts combine in any order within it.

- *Message.* Two faults and a crash cover a failure, its retry that fails again, and a death in either; two commands a requeue
  followed by another, a requeue and a deployment, a late PUT from a generation before. `MaxAttempts = 2` is one retry and then the
  end; `CleanSummaries` has one element, since nothing compares two clean summaries.
- *Polling.* With pages of one message every page is a search of its own. Two dated messages are there at first; the third has no date and so is first for the SDK
  and last for the worker. When it arrives between two pages it moves the others on, so that one of them is listed twice and two threads work on one record, or the second finds it
  completed (`FindBusy`, `FindCompleted`). Two events (a change by others, a failed search, an exception, a stop, a death) let a message come between two pages and something happen to it
  after that, or one leave. Which messages are there at first is the constant `Mailboxes`.
- *Ingestion.* The payloads are a first result, another of the same generation, two of newer generations with and without its attachment, and
  one that moves to another month; three PUTs by two handlers are two that race and one that comes later.
- *Listing.* Pages of two over messages that share an instant, that fill a page exactly, and that lie in an earlier month. One of the five, which lies in both periods, has two contents, so
  its class and its number of attachments change, there and back, between the statements of its month and after it. Bounds inside an
  earlier month, at the beginning of one, and inside the present one.
- *Sessions.* Two transactions and four operations: a login, a change of password, a closing and a reopening in any interleaving; `Ttl = 1` and one tick
  let sessions expire while a transaction is under way.
- *OCR.* A cache of one evicts at every change of key, while a thread that timed out still has the pipeline.
- *Analysis.* Samples of three of four chunks, chains of two levels, a budget that runs out, a breaker that opens at the first failure. Deadlock is not
  checked where the system may legitimately stop or wait; it is in `polling`, where it may not.

The properties, in words:

- `CheckpointHasOutput`: the second superstep always finds the journal output it confirms, whatever died between.
- `RunningIsMine`: without an escaped exception, `NodeExecutionBusy` cannot happen under the lock.
- `ConfirmedSkipsAnalysis`: a confirmed result is not computed again, *provided no failure is on record and `retry-failed` has not erased one*
  (`requeues` counts that). Without the second condition it is false: the failure of a run that has confirmed its result is erased, the requeued run goes on
  from where it failed, and `persist` is executed once more.
- `Settles`: the message ends completed, given up, or (unread only) flagged.
- `CompletedIsDelivered`: a completed message is stored and, if so configured, flagged.
- `FlagFollowsRecord`: until a crash or an escaped exception, the flag is set only when the record says `result_committed`; `FlagAfterRecord`, below, is
  the same without that condition, and false.
- `DatedConflictIsOwn`: for a message with a readable date, 409 reaches a waiting client only for another payload of the generation the API holds.
  No new generation is refused, whatever late requests of older ones come between.
- `StoredIsFinal`: the API never changes a generation's result and never goes back.
- `KeepsPromise`: the pipeline implements `MessageDelivery`. `NothingUnearned`: the inductive invariant behind these. It says in particular that record and flag never
  run ahead of the API (`ConfirmedIsStored`, `SeenIsStored`: theorems of section 4).
- `ListingIsWhole`: a listing misses a message only if one has gone since it began, and repeats one only if one has come.
- `EveryMessageIsHandled`: a message that stays to be listed is completed or given up, whatever happens to other messages, pages and
  processes. Excepted is one whose own journal row an exception left running (`stuck`).
- `GoesQuiet`: polls do not repeat for ever without the pause, except, again, while a message is `stuck`.
- `PublishedObjectsExist`: what the committed rows name is in S3, and a reader never meets a missing object. *Provided the
  cleanup runs while no PUT is in progress* (`CleanerAlone`); `v_orphans` shows what happens otherwise.
- `AcknowledgedStays`, `PutsAreAtomic`: concurrent PUTs act as the atomic ones of `ResultsStore`, and a 200 is never undone.
- `DetailIsOrdered`: a detail is at least as new as all that was acknowledged before, and its attachments are never older than its e-mail.
- `OrphansGo`: objects without a locator are deleted in the end.
- `WalkIsComplete`: a walk gets no message twice, none outside its bounds, and misses none that was there in the months within its bounds (all months, if it has none). `StatisticsAreBracketed`:
  the number of messages lies between what was there before and after, and the classes add up to no less than it. A newer generation may change class and files between the statements, so
  a class counts at least those that had it in every generation committed meanwhile, at most those that had it in some; and so for the files. `WalkEnds`: a client that follows the cursors ends.
- `UsableIsCurrent`: an accepted token was given for the present password, and the account was not closed since. `TokensNeverReturn`,
  `CreatedOnce`, `OperationsEnd`: tokens do not revive; one operation creates the account; nobody waits for ever.
- `LeasedIsOpen`, `GuardsHold`, `NothingLeftBehind`, `WorkEnds`: leases count the requests that hold a pipeline and keep it open; one thread per
  pipeline and no more than the limit; all is given back; every request ends.
- `EvidenceIsWhole`: no chunk that was chosen is lost or counted twice on the way to the last digest. `SampleIsEven`: the sample has beginning and end and even
  gaps, evaluated for every text of up to 40 chunks and every limit from 2 to 12. `NoticesReachTheSummary`: a reader is told of what was sampled (chain,
  body) or unreadable. `AnalysisEnds`: reduction, breaker and budget let every analysis end.

### Fairness

Faults, crashes, commands, arrivals and requests never have to happen. What is assumed to go on:

- `MailGraph`: the process's own next step (a live process does not stop by itself and every node returns, since the HTTP clients have timeouts); the API
  handling a request that is under way; `StartWorker`. Nothing in the repository restarts a worker, so that is an assumption on the operator (`make worker`).
- `PollingWorker`: the main loop, the threads (each returns), the coming of a retry's time, and again `Start`. Nothing of it makes a listing succeed or a
  message stay.
- `ResultsApi`: each handler (asyncio runs it, S3 and PostgreSQL answer or fail), the cleanup being run again and again, the passing of the retention.
- `EmailListing`: a client that has begun goes on. `AuthSessions`: a transaction that can go on does, as PostgreSQL grants free locks.
- `OcrCalls`: something goes on while anything can (`Progress`); each attempt is made once, so this is enough for all of them. It includes that a thread which
  predicts returns. It is weaker than fairness of each request.
- `MessageAnalysis`: some thread goes on while one can; calls and rounds are finite, so all get their turn.

### What the documentation says and the code does not keep

Three such statements have a run:

| Run | Statement | What happens |
|---|---|---|
| `v_orphans` | api-service/docs/architecture.md:17: the cleanup deletes only prefixes without a locator | between the look-up of the locator and the deletion a PUT stores its objects and commits: its rows name objects that are deleted |
| `v_ocr` | inference_limiter.py:35: the guards are held until the thread exits, so that a timed-out pipeline is never used concurrently | the lease is not held: an evicted pipeline, or any at shutdown, is closed under the thread |
| `v_polling` | agent/tests/test_worker.py:10: one poll processes all messages, a failure does not stop it | a `Date` in `-0000` has no offset; sorting it with others raises, every poll again |

The others are stated as definitions of the module that would check them. Put the name into the cfg given, and TLC shows the behaviour:

| Definition (cfg) | Statement | What happens |
|---|---|---|
| `ConfirmedSkipsOcrAndLlm` (`pipeline`) | agent/README.md:97: interrupted after `committed`, the next run skips OCR and LLM | an old `failed_stage` makes it start afresh and claim them again |
| `FlagAfterRecord` (`pipeline`) | agent/README.md:97: `result_committed` is recorded, then `\Seen` is set | a crash between journal and record, then a fresh start: the flag is set, the record never says so. `FlagFollowsRecord` says that this takes a crash or an escape |
| `CrashesAreHarmless` (`pipeline`) | agent/README.md:99: after a crash the unfinished work is safely retried | the continued checkpoint names a file that is gone, a *permanent* error |
| `RepeatedPutIsAccepted` (`pipeline`) | api-service/docs/architecture.md:17: record id is the idempotency key of a repeated PUT | a retry prepares another `processed_at`; the stored generation refuses it |
| `NewerGenerationIsAccepted` (`commands`, `StableDate = FALSE`) | api-service/README.md:81: only an older generation or another payload of the same one gets 409 | a message without a date changes `received_at`, and a newer generation is refused. `DatedConflictIsOwn` says that only such messages are |
| `ReviewMarkIsKept` (`escapes`, with a crash) | processing_repository.py:266: the review mark is kept | `start()` clears it on a resume that does not set it again |
| `RunningIsReleased` (`escapes`, under `FairSpec`) | dashboard.py:35: a busy node will be repeated | a row left by an escaped exception stays running as long as the worker lives |
| `CompletedIsNotRepeated` (`pipeline`, `UnreadOnly = FALSE`) | agent/README.md:152-155: with `unread_only: false` nothing is processed repeatedly | after a crash before `completed()` the record is never completed |
| `BoundedWalkIsComplete` (`listing`) | frontend/api_reference.md:91: `from` and `to` bound `received_at` | `from` inside an earlier month drops that month as a whole; `to` is applied after the limit, so a page may lose what it admits. `WalkIsComplete` says that this is all: a month that lies within the bounds is complete |

Without a definition: ocr-service/docs/architecture.md:50 says that only an instance without active requests is evicted, while
`_insert_and_evict` takes the oldest whether leased or not (the last lease then closes it, which is what `LeasedIsOpen` is about). And the notice that an
*attachment* was only sampled is added after the text for the summary was built; `NoticesReachTheSummary` claims it for chain and body only.

## 4. Proofs

All theorems are about `Spec` (`CallSpec` for the OCR service behind its clients), for every value of the constants: any number of faults, crashes,
commands, handlers, processes, messages, pages, models. The assumptions are those the modules name. Most give types to settings, say that a set the model
iterates over is finite, or that a name which stands for "nobody" is no name. Those with substance:

- `PutsAssumption` (`ResultsApi`): equal fingerprints mean equal payloads.
- `MailboxAssumption` (`PollingWorker`): within a mailbox no two messages share a UID, which IMAP promises and `sort(key=...)` relies on to be a total order.
- `PeriodsAssumption`, `MonthAssumption` (`EmailListing`): instants are numbers, and there is a now. `MessagesAssumption`: `record_id` identifies a message, since
  `commit` refuses another `received_at` for it. `ResultsAssumption`: the classes are finitely many.
- `CallsAssumption` (`OcrCalls`): a request of the service is one attempt of one call.
- `CleanerAlone` (`ResultsApi`) is no assumption of the module: `PublishedObjectsAlwaysExist` has it as a hypothesis in its statement.

| Module | Theorems |
|---|---|
| `MailGraphProofs` | `TypeCorrect`, `OutputOutlivesCrash` (`CheckpointHasOutput`), `RunningRowIsOwn` (`RunningIsMine`), `NodeIsNeverBusy`; `NothingIsUnearned`, `ConfirmedIsAlwaysStored`, `SeenIsAlwaysStored`, `CompletedIsAlwaysDelivered`, `StoredIsAlwaysFinal`, `PromiseIsKept` (`KeepsPromise`), `ConfirmedIsNotRepeated` (`ConfirmedSkipsAnalysis`); `OnlyAnotherPayloadIsRefused` (`DatedConflictIsOwn`), `FlagIsSetAfterTheRecord` (`FlagFollowsRecord`) |
| `PollingProofs` | `PollingTypes` (`TypeOK`), `ListingMissesNothing` (`ListingIsWhole`), `PollsDoNotOverlap` |
| `ResultsApiProofs` | `ApiTypeCorrect`, `ConcurrentPutsAreAtomic`, `AcknowledgedAlwaysStays`, `DetailIsAlwaysOrdered`, `PublishedObjectsAlwaysExist` |
| `ListingProofs` | `ListingTypes` (`TypeOK`), `WalkMissesNothing` (`WalkIsComplete`), `StatisticsCountOnce` (`StatisticsAreBracketed`) |
| `AuthSessionsProofs` | `AuthTypeCorrect`, `AccountIsCreatedOnce`, `UsableIsAlwaysCurrent`, `TokensNeverComeBack` |
| `OcrProofs` | `LeasedPipelineIsOpen` (`LeasedIsOpen`), `GuardsExclude` (`GuardsHold`), `ServiceComesToRest` (`NothingLeftBehind`), `CacheIsBounded`; `CallsUseTheService` (`CallSpec => Spec`), `CallTypesHold` (`CallTypeOK`), `ServiceUnderCalls` |
| `AnalysisProofs` | `AnalysisTypesHold` (`TypeOK`), `NoChunkIsLost` (`EvidenceIsWhole`), `SamplesAreEven`, `SampleIsAlwaysEven` (`SampleIsEven`), `NoticesAreNeverLost` (`NoticesReachTheSummary`) |
| `OrderTheorems` | lemmas only |

Each inductive invariant was first an invariant of a TLC run on a small instance.

**The message.** `TypeOK` is not inductive: `Rewind` enters the node `FailedStage`, which must be a logical node, and a process that is down
must be idle; `RewindsToNode` and `DownIsIdle` add that. `NothingUnearned` is the invariant behind the safety theorems. A run can enter the tail of the
graph (commit, flag, complete) from many places, so everything that lets it skip a node must vouch for what that node would have established:

- `EarnedBefore(n, g)` / `EarnedAfter(n, g)`: what holds before and after node `n` for generation `g`.
- `TailEarned`: the checkpoint's next node, its failed stage and the state under way are earned.
- `JournalEarned`: a journal row *with an output* is earned, since `Reuse` may skip its node.
- `RecordEarned`: the record's failed stage (where `_run` may resume), status and confirmation are earned.
- `GenerationsInOrder`: store, PUTs under way and checkpoint never exceed the record's generation. Without it an old PUT could
  overtake the generation a record has confirmed.

`EarnedStays` (what was earned is never lost, since the store only grows) carries old rows and checkpoints across steps; one lemma per part follows each action.

**The journal.** `CheckpointHasOutput` and `RunningIsMine` do not preserve themselves either: whether the row of a confirmed node survives depends on what recovery,
requeues and new generations do to rows, and on which row the checkpoint's own state names. `NodeIsNeverBusy` draws the consequence for the code: `claim`
raises `NodeExecutionBusy` only for a row that an escaped exception left. The invariant has three parts:

- `PendingInOrder`: the row that a half-done superstep names is one of the node it is at; the row claimed for the step under way exists.
- `PendingHasOutput`: what the checkpoint, and the patch not yet written to it, wait to confirm can be completed. Recovery, requeues and new generations
  take rows away only where no checkpoint waits for them.
- `OneRunning`: while a process lives and no exception has escaped, a running row is the one being worked on or the one the patch will complete.

**The promise.** That every step of `MailGraph` is one step of `MessageDelivery`, or none, needs two facts more. `FailuresRouted`: a node that
runs or is confirmed does not follow a failure, so what it confirms is its own success. `CompletedAtEnd`: no run goes on with a message that is completed, so one
step never both confirms a generation and reopens it. With them `RowSteps` sorts the changes of the record into five kinds (same, reopened, renewed, confirmed,
ended), `ApiStores` and `FlagsStored` do the same for the API and the flag, and `OneAtATime` says that a step does only one of them.

**Confirmed results.** That a confirmed generation is not analysed again (`SkipInvariant`) is about where a run may begin. `RowsInOrder`: record, checkpoint
and rows agree on version and generation, and a confirmed record has a checkpoint of its own generation. `PathsInOrder`: what status and failure a
checkpoint has at the first node and on the way to `failure`. While no failure is on record or was erased (`Untroubled`), `TailHolds`: a run that has ended without a
failure is completed (`EndIsCompleted`), for which the journal's row of `complete` and the state that waits for it must be followed through crashes (`CompleteIsPending`,
`CompletedRowIsLast`); and the checkpoint of a confirmed record is in the tail of the graph (`TailOnly`). Only a start from the beginning could leave the tail, and it needs a
run that has ended; but then the message is completed and `may_attempt` admits no run (`FreshIsUnconfirmed`).

**Refused requests.** `DatesAgree`: with a readable date, every request under way and the stored result carry the same date, so `Conflicts` is left with older generations
and other payloads of the same one. A waiting client's request is of the checkpoint's generation, which is the record's, and by `GenerationsInOrder` nothing stored is newer: when it is
refused, the API holds that generation. Until the client takes the answer only the API moves store
and checkpoint (`AnswerWaits`), and a late request is then of that generation or an older one: it is refused or the same as what is stored (`ConflictAnswered`).

**The flag after the record.** The node that flags is entered from everywhere in the tail, and `_finalize_node` marks the row of `commit_processing_state` completed one step before it
writes `result_committed` to the record. `Tells` says that, while nothing crashed or escaped and the record does not say that the result is committed, nothing leads a run past the commit:
neither the failure nor the status on record come from behind it (`RecordTells`); no checkpoint of the present generation, and no state on its way to one, stands behind it or names it as done
before its second superstep (`CheckpointTells`); and its journal row is not completed, except between the two steps above (`RowsTell`). A new generation begins with neither rows nor a
checkpoint, a requeue leaves `committed` as it is, and the shortcut of `check_idempotency` is taken only for a record that says so itself.

**Polling.** `ListingIsWhole` compares a list made of several searches with the mailbox as it was when the first one began. `Place(m)` is where the search has `m`:
one more than the number of found messages that sort before it (`SearchIsSorted`). While nothing has gone, what was there is listed or has a place after `offset`
(`KeepsPresent`), since a message that comes pushes others only backwards; while nothing has come, what is listed has a place up to `offset` and is listed once
(`KeepsDistinct`). The rest of `PollingInvariant` are types and `AtRest`, which is also why two polls never overlap. The same places show that `messages.sort`
only rearranges. `OrderTheorems` has what both need: in a strict order on a finite set, places are a bijection with `1..n`, and the sequence by places is *the* sorted one.

**The listing.** `WalkInvariant` follows a walk query by query: `CursorIsLast` and `PageEndsAtCursor` (where the next request begins), `ItemsInOrder` (the answer being collected
descends, goes on where the last one ended, and is from months the loop has been in), and `NothingLost`: what was there when the walk began and is `Wanted` (in a month within the bounds) is listed, is among the items, or is
`Ahead` of the loop. `PassedIsBehind` and `SameMonthAdmits` say why the bounds of whole months lose nothing: a loop that stops at `from` has passed them, and what is newer than a
wanted message of the same month is admitted too, so a limited query is full of items that count. `NewestFirst` is the sorted sequence of `OrderTheorems`, so a query returns a prefix of what is ahead in its month. A month is a `div`, and the lemmas about months are
all the arithmetic there is. The statistics
are three sums over pairs (a message and an attachment's position, a class and a number up to its count), so they are cardinalities. `Brackets` says what each of them has come to: between what was
there when the request began `Before` a month, and what is there now, with the month that each statement is at (`EmailsTo`, `FilesTo`); for classes and files, between the messages and
attachments that every content in `versions` has and those that some content has. `HistoryHolds` puts the present content among `versions`, so each statement adds between what is always and what is ever there
`During` its month (`EmailsGrow`, `FilesGrow`, `ClassesGrow`), and a commit only widens the bounds (`BracketsWiden`). `Pending` is what the total has counted and the classes have not: it is a number of messages, and
each message has one class whatever is replaced. That merging
the groups of a month raises the sum of all classes by the month (`TotalGrows`) is a bijection between the new pairs and the messages, which numbers those of one class by `OrderTheorems`.

**The OCR service.** `ServiceInvariant` has six parts besides the types: what a request holds at each stage (`StageOrder`); leases count the requests that hold a pipeline, and what
is leased or cached is open (`LeaseOrder`); the cache is bounded, and an open pipeline outside it will be closed by its last request or by the shutdown
(`CacheOrder`); a key is loaded once (`KeyOrder`); the lock of a pipeline and the thread that predicts with it name each other (`LockOrder`); and `slots` is what the limit leaves after
those who hold one, threads that timed out included (`SlotOrder`). One lemma per part goes through the handlers. `CallsUseTheService` shows that the service behind the clients is the
service (`CallSpec => Spec`), so its theorems hold there too; `CallTypes` adds that the client's permits count its calls.

**The analysis.** `AnalysisInvariant` has a part for the client and one per thread. `ClientTypes`: the permits are the limit less the number of threads with a request under way, so
nobody takes a permit that is not there and nobody keeps one. `ReadsSample`: what a thread has chosen is the sample of the text it reads. `Whole`: what is pending and what is made are
together that sample, each chunk in one digest; picking out what is in scope (`OnlyIsApart`) and cutting it into groups (`GroupsAreApart`) keep it, whatever the cuts. `ChainNoticed`,
`BodyNoticed` and `FileNoticed`: behind each part its notice has been taken down. `CallsHaveWork`: a call that is under way has a digest to make or the summary, so `Digest` never takes
the head of an empty list. That samples are even is arithmetic about `round`: twice the rounding error is at most the divisor, so two neighbouring positions differ from the exact step by
at most one; they could differ by exactly one only if both rounded a half in opposite directions, and then the step is an integer and nothing was rounded. So `SamplesAreEven` says for
every length and limit what the run evaluates up to 40 chunks. The places of chunks in the text are those of `OrderTheorems` again.

**The API.** `Guarded` says who may be about to write: a handler that has found a locator holds its lock, and a handler in `commit` has compared
its payload with the row it saw. Hence (`SeenIsCurrent`) what it saw is the row still, or it saw none and `CanWrite` asks again; so a write is never
older than the row, nor in conflict with it (`WritesAreNewer`), rows only grow (`RowsGrow`), and with that acknowledged results stay and a reader's
statements are in order (`InOrder`). The objects need the cleanup: `Apart` (under `CleanerAlone` the cleanup and a PUT do not meet), `Uploads` (what a
handler has passed is in S3), `Published` (the objects of the row are) and `Held` (so are those of a row a reader has read, since rows are never
deleted and the cleanup spares a record with a locator).

**The sessions.** `TypeOK` says that a transaction which has found the row holds its lock; `AccountIsHeld`, that the row is as it was found. `ClockRuns`: no operation began in the
future. `TokensAreNew`: a token that a login is about to give is in nobody's hands. `LiveIsCurrent`: a session that lives was given in the present era. The
last needs all others: a login that has verified the old hash has the lock, so the change of password waits and then revokes the new session with the
rest; what it does not revoke had expired when it began, and the clock only runs.

**Only model-checked.**

- *Liveness* (`Settles`, `EveryMessageIsHandled`, `GoesQuiet`, `OrphansGo`, `WalkEnds`, `OperationsEnd`, `WorkEnds`, `AnalysisEnds`) and everything that needs ENABLED are out of the
  prover's reach.
- The divergences of section 3 are counterexamples, found by TLC.

## 5. Plan

1. *Done.* The life of one message with its abstract specification, and the refinement proved.
2. *Done.* Polling; the Results API's ingestion, readers, cleanup, listing and authentication; the OCR service behind its client; the LLM client under the analysis.
3. *Done.* Proofs of the journal, the refinement, the confirmed results, the worker's listing, the API's list and total, the OCR service and its client, the analysis over the LLM
   client. Every invariant that a passing run checks is a theorem. Next: the hazards that
   no property covers yet.
4. Models: the plan of attachments and the archive limits as functions with a reference definition; the OAuth token file of the Mail SDK, whose refresh and save may
   be cut off; the cache of capabilities in the OCR client.
5. Compositions: `PollingWorker` over several instances of `MessageDelivery` in place of its own two-step attempt.

## 6. Not modelled

- *Content.* Prompts, the parsers of file formats, OCR correction and normalisation: only their outcomes reach state. Message parsing except `parse_date`.
- *Wire details.* IMAP, OAuth and the token file, HTTP framing, request ids, health checks, the mailbox filter of the list. Reader and agent API keys are compared and
  keep no state. Partitions are created by idempotent DDL.
- *Time.* Back-off and retention only delay; "the delay has passed" is always possible. `permanent_error_retry` is checked at its default, false.
- *Dashboard and frontend* present what others store. Dashboard columns of the record, `runtime_status` and the attempts table are read by them alone.
- *Drive SDK and workbook* are not reached by the pipeline any more. *LLM service* is configuration of vLLM.
- *Second records.* `process --uid` does not know the Message-ID and may work on a second record of a message; `MailGraph` follows one record.
