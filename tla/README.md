# A TLA+ development of EduCorp

EduCorp is nine FastAPI services, each with its own PostgreSQL schema, that call one
another over HTTP, hand events to one another through outbox tables and Kafka, run
publishing as a Temporal workflow and keep vectors in Qdrant. This directory models the
parts whose correctness depends on the order in which several of them act.

## Inventory

| component | state | operations | hard behaviour | what makes it correct |
|---|---|---|---|---|
| enrollment: admission (`services/enrollment`) | rows of `enrollments`, one Redis lock per course, outbox | `POST /enrollments` | concurrent students, a lock with a TTL that ends before the commit, a call to another service inside the transaction | one row per student and course, no enrollment without progress or prerequisites, no seat sold twice |
| enrollment and progress: completing, cancelling | enrollment row, progress row, module rows, certificates, outbox | `complete_module`, `mark_completed`, `cancel_enrollment`, `cancel_progress` | two services that call each other under row locks; each commits on its own; READ COMMITTED counts | a certificate means all modules, one event for each, the last module brings the certificate |
| publishing | version rows, workflow run, activity attempts, Qdrant points, the course's current version, outbox | create, approve, reject, retry, cancel, activate, clean up; eight activities | activities executed again after a lost report, attempts that outlive a cancellation, signals before the status is checked, calls served late | one version in flight, nothing published without approval, students told only of what is live, search finds vectors |
| event pipeline (`shared/educorp_common/outbox.py`, the relays and consumers) | outbox rows, topics, offsets, dead letters | `publish_batch`, the relay tasks, the consumer task, replay of a dead letter | batches sent twice, an error that ends a task, commits that happen and raise, records delivered again | no event skipped, each takes effect once and in the end |
| analytics (and notification as a consumer) | event store, counters | `ingest_events` | the same event ingested by the task and by a request, concurrent read-modify-write of counters | one row per event, counters that never exceed the stored events |
| ai: instructor jobs | job documents in MongoDB, the tasks and streams of each process | enqueue, stream, process, cancel, reconcile at start-up | no write looks at the status it overwrites; a cancellation races a worker; one process's start-up fails the jobs of all | a cancel is lost only in a race, a document's claims are true, every job ends |
| ai: assistant | caches of enrolment and of answers, contexts of questions asked back | `POST /ask`, `GET /ask/stream` | versions published, students coming and going and entries expiring while a question is under way; two routes written twice | an answer is about its own question, version and scope; the routes decide alike |
| ai: retrieval; search | Qdrant points, read only | hybrid retrieval, whole scan, semantic search | several reads of an index that is rewritten, cleaned up or superseded meanwhile | no chunk of another version, none lost that was there all along |
| ai: rate limiter | a sorted set per user | `check_rate_limit` | scores are the callers' clocks and arrive out of order | no window over the limit, no denial without cause |
| auth: accounts, sessions, tokens, applications | users, roles, refresh, reset and verification rows, applications | register, verify, login, refresh, reset, roles, status, apply, review | read committed reads before writes; revocations that lock many rows in their own orders | a token is used once, revocation reaches all sessions, decisions stand, requests block one another only over roles |
| auth: login throttle | Redis counters and locks | the counters of `login` | counting, checking, locking and EXPIRE are separate commands; crashes and expiries between | a window and a lock keep attempts out, a lock comes of enough failures and of no fewer, nothing is for ever |
| shared: circuit breaker | a breaker per host | attempt, success, failure, cancellation of a call | calls that end long after the state they began in | closed exactly below the limit, closes once the host is back |
| course: catalogue | courses and slugs | create, rename, delete | check then write, under a constraint that also knows deleted courses | no shared slug, no refusal without cause |
| course: editing | modules, assets, MinIO objects, the manifest sent to publishing | add, delete, reorder, upload, publish, activate | object store and database do not commit together; the manifest is read by several statements | rows and manifests name objects that are there |
| publishing: content | pages, chunks, vectors, the embedding cache, points | extraction, OCR, vision, chunking, embedding, indexing | activities run again, a budget counted page by page, batches and items answered short | no text lost, no passage under another's vector, a bounded price |
| notification | preferences, notifications, read marks | ingest, GET and PATCH of preferences, mark read | sessions that overlap on rows not yet there | a change is lost only to an overlap |
| notification: e-mails | RabbitMQ, Celery workers, Redis keys | `send_email_task` | late acknowledgement, lost connections, killed processes | no mail lost but with a killed process, repeated only for a reason |
| search by words, web client, telemetry, infrastructure | none that others read | | | not modelled |

The services meet in four ways: HTTP calls with a shared token (enrollment to progress
and back, publishing to course and search, enrollment to course and auth), rows of the
outbox tables, Temporal signals and activities, and the read-only queries progress and
search make over rows of others. `PROJECT.json` lists every component and, under
`hazards`, each place in the code where an order of steps can go wrong.

## Modules

| module | models |
|---|---|
| `LearnerRecords` | the enrollment, progress and module rows, and `initialize_progress` |
| `Admission` | `EnrollmentService.enroll` with its lock, and everything that can fail in it |
| `AdmissionLedger` | what the enrollment table promises, with no requests and no locks |
| `Completion` | completing modules and cancelling, across both services |
| `Publishing` | the versions of one course, their workflow runs and the requests on them |
| `VersionLife` | what publishing promises about those versions, with no runs and no attempts |
| `OutboxRelay` | the outbox of one service, the task that publishes it, the topic |
| `EventPipeline` | `OutboxRelay` with the consumer task of analytics or notification and the requests that ingest events |
| `EventEffects` | what the pipeline promises about events, with no relay, topic or transactions |
| `Accounts`, `Applications` | the requests of the auth service on accounts, sessions, tokens; applications and roles on top of them |
| `LoginThrottle` | the counters and locks of login in Redis |
| `AIJobs` | instructor jobs under tasks, streams, cancels and restarts |
| `Assistant` | questions by both routes, over two caches |
| `Retrieval` | a question, a scan and a semantic search of an index that changes |
| `Orders` | what sorting, and cutting off at a limit, make of a set or a list |
| `RateLimiter`, `CircuitBreaker` | the sliding window; the breaker of one host |
| `CourseCatalog`, `CourseEditing` | courses and slugs; the draft of one course, its files and its manifest |
| `ContentPipeline` | from the files of a version to its points |
| `Notifications`, `EmailTasks` | preferences and notifications of one user; the e-mail tasks |
| `AdmissionProofs`, `CompletionProofs`, `CourseProofs` (with publishing), `EventPipelineProofs`, `ApplicationsProofs`, `AIProofs`, `ContentProofs` (with retrieval), `GuardProofs` | theorems for every value of the constants |
| `MCAdmission`, `MCCompletion`, `MCPublishing`, `MCEventPipeline`, `MCCourse` | finite instances of one component |
| `MCLearner`, `MCServices`, `MCLiveness` | finite instances of several that share no state: the first state picks the one a behaviour is about (`part`) |

### LearnerRecords

`status`, `progress` and `done` are committed rows; their initial state is chosen by the
module that extends it. A percentage is kept as the count it was computed from:
`_calculate_percent` is injective for a fixed total. `Written` is the one property of the
ORM that matters: a column whose value did not change since it was loaded is not in the
`UPDATE`.

### Admission

A request is named by the enrollment id it generates. `pc` walks through `enroll`: the
first look for an existing row (`Receive`), course context, student summary and
prerequisites (`PassContext`, `RejectContext`), the lock (`Acquire`, `AcquireTimeout`), the
second look (`Recheck`), the seat count (`CountSeats`), the insert (`Insert`), the answer
of the progress service (`InitializeReply`), the end of the service method, where the
`finally` clause releases the lock (`Return`), and the commit in the route (`Commit`). A
flushed row is in `pending` and seen by nobody until the commit. The call to the progress
service is in `initCalls` until it is served or lost, and can be served after its caller
has given up. Every await may raise (`Fail`), the process may die (`Crash`), the lock may
expire (`LockExpires`). Redis may fail where it matters (`RedisFails`): the release in the
`finally` clause raises, or the `SET` was served and its reply is lost before the `try` is
entered. Such a request ends as `stranded`, and its lock stays until its TTL. `RowMoves` is what the other endpoints do to a committed row, as far
as admission looks at it; `Completion` is their model.

`except IntegrityError` in `enroll` looks up the row that won the race. The failed flush
has rolled the transaction back, the lookup raises `PendingRollbackError`, and the loser
gets an error: `Insert` ends in `failed` there.

`AdmissionLedger` is the abstract specification. `Admission` implements it (`LedgerSpec`)
with `rows` made of `status` and `ask`: a row appears in one step, with its event, after its
prerequisites were completed and its progress rows were `prepared`, and never clashes with
another. `prepared` are the ids that have progress rows, those of requests that failed
afterwards included.

### Completion

Two kinds of requests. A completer reads the enrollment, loads the progress row, flushes
the module row, counts, calls `mark_completed` if it counted every module, flushes the
progress row, looks for a certificate and commits. A canceller reads the row, flushes its
update, calls `cancel_progress` and commits. Row locks are held from the flush to the end of
the transaction; `ModuleRowFree`, `ProgressRowFree` and `EnrollmentRowFree` are the waits. A
transaction's own writes are applied at its commit. A call is sent, then served in a
transaction of the other service or lost, and may be served after its caller has failed.
`Init` is every enrollment as `Admission` leaves it.

### Publishing

For each version of one course: the row (`status`, `approval`, `activated`, `runId`), the
request that creates it (`creating`), its latest workflow run (`run`, the activity it has
reached; `decision`, the signal it got; `cancelling`), and at most one activity attempt in
progress (`attempt`: the lock on the activity's step row allows one). For the course: the
current version, activation calls that were abandoned and may still be served (`late`), the
vectors (`points`) and the events (`announced`). `served`, `approved` and `reviewed` are
history. Other requests are records in `request`, with what they read of the row: the
sessions keep loaded rows, so the checks after a signal look at that and not at the row.

The activities have no retry policy, so Temporal executes them without limit. An attempt
that committed reports or does not (`Reports`), dies (`AttemptDies`), or, after a
cancellation, outlives its stage (`ReportsFrom`). `finalize_version` is five steps: flush
READY, have the course service switch (`FinalizeServed`), find whom to supersede, commit; or
fail, when the `except` clause commits the flushed READY. `IndexWaits` and `IndexFree` are the
partial unique index `idx_one_publishing_per_course`, with the wait for uncommitted rows.

Left out: artifacts and text (each stage gets those of the stage before by id), the step
rows except for their lock, and the search notification, which changes no state here.
A run id is the number of an attempt: `attach_run_id` writes that of the handle its own
request started, 1 for the creation, also when a retry has started another.

Two routes raise today before they change anything: a retry of a FAILED version in
`reset_for_version` (`publishing_step_repository.py:48` says `values(metadata={})`, where the
mapped attribute is `step_metadata`), and a cancellation in `temporal.cancel_workflow`
(`versions.py:291`; the client has no such method). With `Mended = {}` the module is that code:
`Retry` refuses what is not FAILED and otherwise gets no further, `RequestCancel` has no step,
and both requests end by `Fail`. `Mended` names the routes taken as they are meant, with
Temporal's cancellation request for the run. The theorems hold for every `Mended`; `publishing` and
`publishing_live` have both, since everything else about retries and cancellations could
go wrong only there, and the two runs that show a divergence have neither.
`cleanup_superseded_vectors` awaits a method that is not a coroutine, so it stops after the
first version it has cleaned: `CleanUp` is one version at a time in any case.
A cancel request locks the version row and then the step rows, `finalize_version` the
other way round; PostgreSQL breaks that deadlock and the loser fails, as `Fail` and
`AttemptDies` do.

`VersionLife` is the abstract specification: a version is out, in flight, ready or
superseded; only what is approved and indexed becomes ready, only what is approved becomes current, what
is announced was current, the vectors of a ready version stay. `Publishing` implements it
(`LifeSpec`): `place` is read off the row's status, the other variables are its own, and what runs,
attempts and requests do between two writes is a stutter. It does not promise one ready version, or that
what is current is ready: the code promises neither (`publishing_two_active`; an attempt
that dies after its call was served).

### OutboxRelay and EventPipeline

An event is the number of its outbox row in the order of `created_at`; its transaction
commits at any time (`Emit`). The relay task selects the oldest waiting rows
(`SelectBatch`), sends them one by one (`Send`) and commits `published_at` for all
(`CommitBatch`). An error anywhere rolls the batch back, and what was being done may have
happened all the same: the record is in the topic, or the commit was made
(`RelayFails`). The task of enrollment catches the error (`guarded`); those of auth,
progress and publishing end, and only a restart of the process starts them again.

The consumer task is the ingester `Loop`; requests are the others. `stage` is how far an
ingestion's transaction is: `new` found no earlier row, `inserted` holds the unique index,
`read` has read the counter, `flushed` has written everything and, in analytics, holds the
counter's row, `ready` found the event stored. Writes are applied at the commit
(`Effects`), and `HoldsEvent` and `HoldsCounter` are the waits of READ COMMITTED. A replay of
a dead letter marks it in the same transaction (`letter`). After an error (`Abort`) the task
handles the record again, `consumer_max_retries` times in all, and then writes a dead letter
(`Park`); a request answers with an error. The task handles the records of a fetched batch in
order (`position`) and then commits their offsets (`CommitOffsets`). An error outside the
retries ends it (`TaskFails`), and only a restart of the process starts it again, from
the committed offset.

Left out: several partitions and topics, which share nothing but the commit of
offsets; a request with several events; events that a service ignores. Preferences and
e-mails are in `Notifications` and `EmailTasks`. A posted event that was ingested
before, or a record delivered again, does enqueue its e-mail again. All events count in one
counter, where the code has one for a day and one for a course; a metric row is created and
written in one step, since its key is held in between.

`EventEffects` is the abstract specification: a committed event takes effect once, in one
step, and for good; an effect adds at most one to the events counted before; only committed
events are put aside, and a dead letter is marked as replayed no earlier than its event takes
effect. `EventPipeline` implements it (`EffectsSpec`), with `emitted`, `aside` and `settled`
read off the outbox and the dead letters: everything up to the commit of an ingestion is a
stutter, and so is every delivery after the first.

### Accounts and Applications

Every request is one transaction (READ COMMITTED), from its first look (`Starts`) over the
updates it flushes, which lock their rows, to its commit; `RollsBack` is an error anywhere or
the end of the process. A request is also the name of what it issues: the session of a login
or refresh, a reset token, an application, a role row. `revoke_all_for_user` selects the
sessions and then updates them one by one (`HoldsSession`), in the order of their keys.
`Applications` adds applying, reviewing and the roles that reviews and administrators give
and take; `instructor_auto_approve` is the constant `NewStatuses`. `past` is history: the
requests that had ended when one began, so that a property can say "only by overlap".

`update_roles` takes two lists. A request makes its `changes` one after the other, in the
caller's order: it looks for the row (`LookForRole`), sees what it has flushed itself (`own`),
and inserts or deletes, which locks the row until it ends (`RoleFree`); `made` is how far it is.
A row is named by the request that inserted it (`holder`), so a row deleted and inserted
again by others is not the one that was found. `apply` and `review_application` make one
change, of the role instructor, or none. Two requests that give the same roles in opposite orders
wait for one another: PostgreSQL aborts one of them, which is a step `Fails`, and
`DeadlockOnlyOverRoles` says that no other requests ever do. `DecisionsStand` follows what was
decided: the status of an account, a role given, a role withdrawn, an application approved,
rejected or submitted.
Requests refused at their first look change nothing and never start.

Left out: profiles, passwords and token encodings, the audit log, the role `student` that a
registration inserts with the account, and the creation of a row
of the roles table, which two first requests may both attempt. `verify_email` activates
whatever account it finds: one that an administrator deactivated before it was verified
becomes active again (`CommitVerify`; `DecisionsStand` excepts it by name, as a request that
may write the status).

### LoginThrottle

`INCR` and `EXPIRE` are two commands, so an attempt that dies between them (`Die`) leaves a
counter that never expires; `CountersExpire` says that this, and nothing else, leaves one.
Counting an attempt, looking at the limit and at the lock (`CheckLimits`), counting a failure and
locking are commands of their own too, and the keys expire between any two of them
(`WindowEnds`, `FailuresEnd`, `LockEnds`). `turn`, `shut` and `reopened` are history: the number of an
attempt in its window, who began under a lock that is still there, whose lock has run out
while the failures are still counted. With them `ThrottleHolds` says both halves: of a window no more
than `RateMax` attempts get past the check, `Threshold` failures lock, an attempt that begins under a
lock gets through only if the lock has gone; and fewer failures do not lock.

### AIJobs

`status`, `error` and `result` of the documents; a job is a task or a stream with its home in
one process. `ReadBeforeMark` and `MarkFailed` are the two calls of `_mark_failed`;
`WriteRunning`, `WriteCompleted` are unconditional, as in the repository. `Start` is
`mark_incomplete_jobs_failed`, which takes the jobs of every process. A cancel that Redis
or Mongo loses is a request that fails. The insert of a job may be applied and raise
(`InsertRaises`): the document is QUEUED, or RUNNING for a stream, and its stage `unmanned`,
since no task was created for it; only a restart ends it. Left out: prompts, the text of
results.

### Assistant

A query reads the ready version once, asks the enrolment cache and then the database, looks
for a cached answer, retrieves, assesses (`GraphRoute` of `qa_graph.py` and `StreamRoute` of
`qa_streaming.py`, written twice in the code and twice here), asks back, generates and
caches. Questions and scopes are data of a query, and a reply keeps the question, the version and
the scope it was made for (`About`), in the cache too: a cached answer is somebody else's, and
`AnswersKeepTheirQuestion` says that it is one to the same question all the same. There is one course;
`Key` has its id only as a prefix. Queries of `Again` are taken up anew when they are over, so that any
number of them pass. `QueryFails` is an error of any call, the client that leaves and the process that
dies. `SelectContext` is the loop that fills the prompt within its budgets, one turn of which is
`Consider`. `Publish`, `EnrollOrLeave` and the expiry
of entries are what the others do meanwhile. Scores are in hundredths, texts are given by
their number of tokens, and what retrieval returns is any of `ChunkLists`, of which nothing
is assumed but that scores are integers and lengths natural numbers. The routes are `IF` chains, in the
order of the code's early returns: their conditions overlap, and the arms of a `CASE` have no
order.

### Retrieval

One call (calls write nothing) of one of three kinds: a question, which asks Qdrant for the
nearest points and then scrolls the candidates that BM25 scores (`QueryNearest`,
`ScrollPoints`, `Rank`); a scan of a whole file or course, which scrolls and sorts; a semantic
search, which answers with the nearest. Points appear and disappear in any portions
(`UpsertPoints`, `DeletePoints`) and another version may be activated between any two calls.
`lasting` and `everIn` are history. BM25 depends on the other candidates: a text that shares a
word gets any of `MatchLevels`, and only once it is known which candidates there are. What is
sorted is put in the order of a relation (`Nearer`, `ReadsBefore`, `Better`), by `Orders`, which
gives an element the place that the number of those before it says. The module and asset
filters are left out: they narrow the set of points as the version does. A scan sorts by page before the
index of the chunk: in a course with several files their pages come interleaved, and past
`retrieval_full_scan_limit` it has the points with the least ids, not the first pages.

### RateLimiter and CircuitBreaker

The pipeline of the limiter (`RunPipeline`) runs at once, after a delay of at most `MaxDelay`
since the caller read its clock; a denied call stays in the set, as in the code. The breaker
records the end of every call in whatever state it finds (`RecordSuccess`, `RecordFailure`);
a half-open breaker lets every call through, a cancelled call records nothing.

### CourseCatalog and CourseEditing

A slug is a title and a number. `Probe` is `slug_exists`, once per candidate; `Write` is the
statement under `UNIQUE(slug)`. In `CourseEditing` a request looks at the course
(`BeginEdit`), then works: a module's number is read and written, a list of modules is written
row by row (`Reorder`), an asset is an object first and then a row, and the other way round
when it is deleted; a publish request validates, reads the manifest in several
statements and sends it. `told` is history: what others did while a request was
under way. Left out: titles, descriptions, flags and text of a draft; each is one UPDATE that
nothing else here reads. The objects of a deleted module stay in MinIO for ever.

### ContentPipeline

A text is a sequence of lines and a length counts words where the code counts characters. A
line has one of `Names`, which stands for what it says; so lines of one name are assumed to be of
one length, and boilerplate is found by the names. `PartsFrom` is the loop of `_split_text` from each
place where a part may start.
`ExtractPdfPage`, `ExtractSlide`, `ExtractFlat` read a page at a time and spend the budget of
the vision model; `EndExtraction` is the gate; `ChunkContent` strips boilerplate and splits with
overlap (`Split`, `FindBreak`, `NextStart`); `LookUpVectors`, `EmbedBatch` and `StoreVectors` are
the embedding with its cache; `IndexPoints` pairs chunks and vectors by hash. `Again` is the
attempt, or the whole run, made again. An answer of the provider may lack an item, which fails the
attempt, or an item its embedding (`Bare`): `item.get("embedding", [])` makes an empty vector
of it, which is stored and cached. Qdrant refuses a point that has not the dimension of its collection, so
such a version is not indexed until the entry has expired: `IndexPoints` waits for vectors
that are none, and an attempt of `generate_embeddings` finds the empty one in the cache again.

The model passes through behaviours worth knowing that are nobody's stated promise: a deck
of identical short slides loses all its text as boilerplate and publishes no chunk; a page
whose OCR text fails while the confidence call succeeds is empty and not counted as low; an
answer of the vision model that is JSON but no object raises; a short document whose first
page is a picture is enriched and then refused by the gate, on every attempt; errors of the
vision model do not count against its budget.

### Notifications and EmailTasks

A session reads the preferences or creates them (`CreatePreferences` waits for another's
insert and fails on a committed one), writes what differs from what it loaded
(`Writes`), and commits; an ingestion enqueues its e-mail before its notification commits. The
GET never commits, so the row it creates is gone. `EmailTasks` follows a task through
queue, worker, Redis key and acknowledgement: the broker takes back the delivery of a lost
connection (`TakenBack`), the worker of a killed process acknowledges it
(`ProcessKilled`, since `task_reject_on_worker_lost` is not set). Templates are left out, and
several types of events, which differ only in the fields of the preferences they look at.

## Runs

| run | instance | shows |
|---|---|---|
| `admission` | 3 requests of 2 students, a course of 1 seat and one that requires it, an idempotency key | no enrollment without its progress rows, seats sold twice only by overlap, foreign locks kept, and that `Admission` implements `AdmissionLedger` |
| `admission_capacity` | 3 requests, 1 seat | **violated**: the seat is sold twice |
| `completion_lost` | 2 completions at once | **violated**: all modules done and never a certificate |
| `learner` | one part per behaviour: 3 completions and 2 cancellations of 2 modules; 2 queries, of 2 questions in 3 scopes; 4 calls of the limiter; 3 sessions on 2 notices; 2 e-mail tasks, 2 workers, 3 mishaps | certificates; questions and caches; the limit; preferences and notifications; e-mails |
| `publishing` | 2 versions, which may exceed the budget, 2 requests | one in flight, nothing published unapproved, and that what search offers has its vectors |
| `publishing_live` | 1 version, 2 requests | that `Publishing` implements `VersionLife`; an approved run publishes or is cancelled; a cancellation ends its run |
| `publishing_unreviewed` | 1 version, 1 approval | **violated**: a refused approval publishes |
| `publishing_two_active` | 2 versions | **violated**: both are active |
| `events` | 2 events, a batch of 2, 2 failures, 2 attempts, a request; either kind of relay task, either service | nothing skipped, nothing twice, and that `EventPipeline` implements `EventEffects`; every event arrives unless an error has ended a task |
| `services` | one part per behaviour: 3 requests on 2 spellings of one address, with 4 pairs of role lists; 3 logins; 3 requests on a draft of 2 modules and 2 assets; 3 courses of 2 titles; 4 documents; 5 chunks of 2 versions | accounts, applications and their locks; the throttle; drafts, files and manifests; slugs; text, budget and vectors; retrieval |
| `liveness` | one part per behaviour: 2 students for 1 seat; 2 completions and a cancellation; a job and 2 processes; 2 queries made again and again; 2 callers of a host | requests and jobs end, the breaker closes, the enrolment cache catches up |
| `course_reorder` | one request, 2 modules | **violated**: exchanging two modules is refused |

Each violated run checks one sentence of the repository; `PROJECT.json` quotes it under
`findings`. The models have more behaviours of that kind, for which no run is kept:
a cancellation that read the enrollment before a completion committed writes CANCELLED over
COMPLETED (`ReceiveCancel`, `FlushCancel`);
a completion that counted fewer modules and commits last writes IN_PROGRESS over
COMPLETED (`Commit` with an older `counted`); a version over the enrichment budget, once
approved, is extracted again until an attempt happens to stay within it, since the gate raises
and the activity is retried without limit (`BudgetGate`; `ApprovalResumes` is therefore checked
for versions within budget); a
rejection whose signal comes after the run has taken an approval is recorded on a version
that is published (`RecordVerdict`); a process that dies between the commit of a version and
the start of its workflow leaves it in flight with nothing to move it (`CreateDies`, `Fail`).

Bounds. Three enrollment requests are enough for a winner, a loser and a third that comes
while the lock of a dead one expires; clashes, seats and lock ownership are relations of two
requests. Two modules are the least for which two completions can miss each other.
`MaxInFlight` bounds the completions running at once; two is what a lost update needs. Two
versions are what the partial index and supersession relate; `LifeSpec` is run on one, and
its clauses about two (`Begin`, `Publish`, `Supersede`) are what `OneInFlight` and
`NothingPublishedUnapproved` check on two and the theorem states of any number; two requests let one act
on what the other has changed. `MaxEvents` bounds the `CoursePublished` rows of a version at
one. The version cannot be finalized again past it; every state a second finalization
passes through before its commit is reached, and the theorems hold for every bound.
Two events in one batch are what a batch lost half way needs; two failures let a lost
commit be followed by a crash or by an error that uses up the attempts; `MaxRetries` is two
where the code has three, so that a record can fail once and succeed, fail every time, and be
put aside with one failure after it was handled. One request meets the task; two events
and two ingesters are what a lost update needs.
Three requests of the auth service are a writer, one it overlaps and one that comes after; two
addresses are two spellings of one mailbox. The role lists are two roles in either order, one
withdrawn, and one given and withdrawn twice: the least for a cycle of two waits, and for a
change that meets what the same request has flushed. Three calls fill a window of two and the fourth
asks; three sessions are an ingestion, a change and another between them. The four
documents were chosen for the branches of extraction and chunking: a text longer than a
chunk with breaks in different places, titles and footers that recur, pictures with and
without words, empty slides. Retrieval has four chunks where three are taken of the
vectors and of the scroll and two of the answer, and pages of two, so that every limit is met
and passed. `MaxTries`, `MaxFlips`, `MaxStarts`, `MaxMishaps`, `MaxRewrites`, `MaxChanges` and `MaxClock` bound the
failures and the changes of one behaviour; each is at least what a fault, its repair and a second
fault need, but for `MaxTries`, which lets one attempt fail at each place.

In a run of several parts the variables of the resting parts keep their first value
(`Resting` fixes it), so the state space is the sum of the parts.
Symmetry is used where versions or requests are interchangeable, and in no run that
checks liveness. Requests may stop, so `CHECK_DEADLOCK` is off; liveness runs say what must
not stop.

Fairness. In `Admission` and `Completion` handlers keep running and calls are delivered
(weak fairness of the steps); nothing is assumed of failures, timeouts, expiry or
crashes. In `Publishing` Temporal's durability is weak fairness of the steps a run has
reached; `AttemptDies` is weakly fair because activities have a start-to-close timeout; and
strong fairness of the steps inside an attempt says that of attempts made again and
again one succeeds. Nothing is assumed of people: no request need ever be made.
In `AIJobs` workers go on, since their calls have timeouts; the crash of a process excuses its
jobs until another starts. In `CircuitBreaker` callers keep calling and strong
fairness says that they are not always cancelled; `Recovers` says nothing of a host that
keeps changing. In `Assistant` Redis is assumed to expire the key of an enrolment, and a query that has read the
database to go on and set it; queries come in any number, may stop anywhere else, and may
set the key to what has changed since. In the run
`liveness` each part's fairness is asked of the part that is picked.
In `EventPipeline` tasks, transactions and restarts go on (`restart: unless-stopped` in
`docker-compose.yml`), and failures are bounded by `MaxFaults`; a task that an error has
ended stays so, which is why `EveryEventArrives` excepts it.

## Proofs

TLAPS proves, for every set of requests, versions, courses and modules and every capacity
and bound, the theorems that `PROJECT.json` lists, and type correctness of the modules that have
proofs (`SpecTypeOK`, `TypesHold`, ...), which their inductive invariants contain. All safety
properties follow from an inductive invariant of their module, `Applications` and `Publishing` from
two. The invariants were checked by TLC before they were proved; most runs no longer carry
them, nor the properties that are proved and follow from them (`OneRowPerStudentCourse`, `EnrolledHadPrerequisites`, `NoLeakedLock`, `PercentNeverAhead`,
`CertifiedIsCompletedOrCancelled`, `PublishedIsInLog`, `RowOnce`, `CounterNeverAhead`,
`ClosedBelowLimit`) or from a refinement that is checked (`AnnouncedWasServed` from `LifeSpec`,
`ReplayedIsStored` from `EffectsSpec`).

- **Admission** (`AdmissionProofs`). A committed row and its event appear together and only
  for a request that has ended; pending rows belong to running requests and clash with
  no row; progress precedes the row; whoever reached the lock had passed the
  prerequisites; a course whose count was never overlapped has a seat for every
  request that has been admitted. The last part needs the cardinalities of
  `FiniteSetTheorems`: a seat is taken by turning one admitted request into one row. Each
  step maps to a step of the ledger or a stutter: `ServeInitialize` is `Prepare`, `Commit` is
  `Enroll`, `RowMoves` is `Leave` or `Finish`. `SpecNoLeakedLock` names all who can hold a lock: a
  request that is in it, one that died, one whose own call to Redis failed.
- **Completion** (`CompletionProofs`). What a request counted stays a lower bound, since
  modules are not undone; one request holds a progress row, so what it found out
  about the certificate is true when it commits; a served call shows in the row it wrote
  until the opposite request commits.
- **Publishing** (`CourseProofs`). One version in flight needs the uncommitted row of a
  creation in the invariant (`PendingAlone`): the index makes every writer wait for it. An
  announced version was served since an attempt passes `FinalizeServed` before it
  chooses (`ServedBeforeChosen`). Approval is followed from the signal through run,
  attempts, late calls and supersession (`ApprovalComesFirst`). That the vectors of a READY
  version are there (`IndexedOK`) rests on where an attempt can be when its run has gone on: an attempt
  that deletes before it upserts is in the stage `index`, in one that has failed or closed, or in the
  next one before it begins (`AttemptsInStage`), and a READY version is in no run that has still to
  index (`ReadyIsBeyond`). `PublishingImplementsLife` takes the two invariants together: each
  write of the rows' status maps to the step of `VersionLife` its lemma names (`LifeWrites`,
  `LifeServes`, ...), and all other steps to stutters.
- **EventPipeline** (`EventPipelineProofs`). A row is marked only after its event was sent
  (`SentIsInLog`); records before the position had their effect or a dead letter
  (`HandledBeforePosition`), and the committed offset is behind the position; the unique
  index lets one ingester at a time hold an event that is not stored
  (`OneInsertOfEach`), which gives one row each. What an ingester has read of the counter
  is at most the number of stored events and its commit adds one of each
  (`CountsAreBehind`); a task that is alone has read the last value
  (`TaskAloneReadsLast`). `EffectsKeepIndInv` is the step that matters, a commit, whether
  its answer arrives or not. For the refinement one more invariant says that what is in the topic,
  stored, set aside or held by an ingester was committed by its request (`CommittedFirst`); a commit
  then is `TakeEffect`, or `Settle` if a replay finds the event stored.
- **Applications** (`ApplicationsProofs`, for `Accounts` too). That a token serves two requests
  only by overlap needs to know who used it and what had ended when they began: what a
  request does (`JobTells`), what it issued (`IssuedTells`), what its token says of it
  (`SpentTells`), that what is in its `past` has ended (`PastTells`), what it holds while it
  revokes (`RevokingTells`), and what a row says of the request that inserted it (`RowTells`).
  On top of it `DecisionInv` follows decisions: sessions issued before a revoking request began are
  among those it selects, and gone when it is done (`RevokesTells`); whoever found an account
  active had not been overtaken, when it began, by the end of what deactivated it (`EnteredTells`); the status
  that a request loaded or set stands unless a request it overlapped, or a later one, wrote another
  (`StatusTells`). The
  case that matters is a revocation that selects while a login commits: the login had
  not ended when the revocation began, so it is no session of its `past`.
  Roles and applications have invariants of their own (`RoleInv`, `ReviewInv`): the row of a role
  was inserted by a request that gave it and has ended (`HolderTells`), no two requests have
  flushed the same row (`Exclusive`), what a request has flushed belongs to a
  change it makes (`FlushedTells`); then a role given is there unless it was withdrawn since
  (`GivenTells`), one withdrawn is gone unless it was given since (`ClearedTells`), where a list
  both gives and withdraws a role the withdrawal is last (`LastTells`), and an application is as it was
  reviewed or submitted unless it was reviewed since (`ReviewTells`, `SubmissionTells`).
- **AIJobs** (`AIProofs`). What is there while, and after, a worker is at some stage
  (`StagesTell`), who wrote the error (`ErrorsTell`), when the last cancel came (`CancelsTell`).
- **Assistant** (`AIProofs`). A query keeps its question, its scope and the version it read, its reply
  was made for them, and a cached answer for what its key names (`AssistantInv`); that gives
  `AnswersKeepTheirQuestion`. `RoutesDecideAlike` says that `GraphRoute` and `StreamRoute`, written
  twice in the code, are the same function, for all thresholds and all lists of integer scores. What
  it rests on is that the top score of a list that is not empty is one of its scores
  (`TopScoreIsOne`, by the least length that has none), so that "at least the threshold", which the one
  asks, and "below the threshold", which the other asks, exclude each other.
  `SelectionFillsBudget` is about the loop over the chunks: after each turn (`SelectedAfter`) the first
  chunks are chosen and counted, all of them until one did not fit, or the only one was truncated.
- **Retrieval** (`ContentProofs`). `RetrievalInv` follows a call: the ids scrolled so far are
  ascending, of its version and before the offset, and none that was there all along is
  missing before it (`PagesSoFar`, `AllPages`); the nearest points left out only points no nearer
  (`NearestSoFar`). The answer is the first of a set in an order: `Orders` is proved to put every finite
  set into a list without repetitions, in order, of which the first `n` come before all others
  (`PlacesAreTaken`, `InOrderLists`, `FirstCuts`), and each of the three relations to be an order of what it
  sorts. `BestIsNotLost` then compares what a left-out point scores at least with what a returned
  one scores at most (`ScoreBounds`).
- **ContentPipeline** (`ContentProofs`). `ContentInv` says that records are the first pages of the
  document, in its lines, numbered each on its own (`RecordsOK`), and that while a batch is under way
  each place without a vector is still pending, and an answer that is as long as what was sent
  is in its order (`EmbeddingOK`, `AllEmbedded`). The budget holds since a page is described only while
  the ones before it are within the share (`PageMoreKeeps`). That no text is lost is settled
  when the pages are cut: the parts of a text cover it and none is longer than the limit (`PartsFromKeep`,
  `SplitKeeps`, by how far a part is from the end), a passage that is dropped as a repetition is
  there already (`PassagesOfKeep`), and a line is stripped only if it is short and on half of the pages
  (`BoilerplateRecurs`, `ChunksKeepTheText`).
- **CourseCatalog, CourseEditing** (`CourseProofs`). A candidate that a request chose is taken
  only by courses that are deleted or came later (`SlugsInv`); an object that a manifest or a row
  shows was used once and is there unless its deletion was asked (`EditInv`).
- **GuardProofs**. `BreakerInv`: a closed breaker has counted the streak of failures.
  `LimiterInv`: what ran within a window is still in the sorted set, whatever the clocks
  say. `ThrottleInv`: the attempts of a window have numbers that differ and are at most its counter,
  so no more than `RateMax` of them passed; a counter of failures is at most the number of
  attempts that failed; who counted the `Threshold`-th has locked, is about to, or died. `EmailInv`: of
  every task, mails sent, workers that may yet send it and its place in the queue come to
  no more than one and its excuses. `NoticesInv`: one uncommitted row of preferences and of
  each notification; what a session holds comes of what it loaded.

Where a definition is recursive (the parts of a text, a sum, the loop over the chunks), it is a
function, not an operator; that the function exists, and what it returns, is proved by taking the
least place at which it would fail (`WFMin` and `NatLessThanWellFounded` of the library), since
the induction theorems take an operator as a parameter, which the provers cannot instantiate.

The assumptions are the ones named in the modules, one for each (`AdmissionAssumption`,
`AccountsAssumption`, `TaskAssumption`, ...), about finite sets, bounds and model values that differ.

Only model-checked:

- liveness under fairness and `DeadlockOnlyOverRoles` (`ENABLED`), which are out of the prover's reach;
- `PartsTypeOK`, which puts together the types of the parts of the run `services`: those are proved one
  by one, in the invariants of their modules.

## Not modelled

- The web client, telemetry, logging, configuration, infrastructure and scripts: no state that
  the services decide by.
- Queries that write nothing: the search of the catalogue by words, dashboards, progress
  summaries, lists for administrators. The lists of dead letters and of audit entries that
  the auth service merges ask each service for the first `page * page_size` rows, which its
  routes refuse above 100: later pages are errors.
- Edits of titles, descriptions, flags and text of drafts, modules and assets.
- What parsers, models and templates make of bytes: a page, a text, a mail is a value.
- The daily and course metrics are one counter (`EventPipeline`), so a record that updates one
  and fails on the other is not told apart.

## Plan

What could be added next.

1. `Admission` and `Completion` composed over one `LearnerRecords`, in place of `RowMoves` and of
   the initial state of `Completion`: that the rows one leaves are those the other begins with.
2. An abstract specification of the sessions of an account (issued, in use, revoked) that
   `Applications` implements.
3. The locks of `Applications` as an order in which every request but those on lists of roles
   takes them, from which `DeadlockOnlyOverRoles` would follow without `ENABLED`.
