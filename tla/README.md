# event-driven-bookinfo: a TLA+ verification project

The repository is a bookstore built as event-driven services: HTTP requests are
turned into CloudEvents by Argo Events, carried over Kafka or JetStream, and
delivered by sensors to small Go services that store and publish.  What is hard
about it is not the storage but what happens between the calls: deliveries are
repeated, handlers overlap, a pod dies between two writes, a replay races the
failure it causes.  This directory models those parts in TLA+, model-checks them
with TLC on small instances and proves the central invariants with TLAPS for
every instance.

## 1. Inventory of the system

| Component | State it keeps | Operations | What is hard |
|---|---|---|---|
| `services/dlqueue` | the `dlq_events` table (or a map), one row per dead-letter event: status, retry counter, limit, timestamps | ingest, replay, resolve, reset, batch replay, batch resolve, reads | read-modify-write of whole rows without versions, an HTTP POST between read and write, check-then-insert, at-least-once ingests |
| `services/reviews`, `ratings`, `details` (write side) | a table of rows, the `processed_events` table of idempotency keys, events on the bus | SubmitReview, SubmitRating, AddDetail, DeleteReview | the key, the row and the event are three writes with no transaction; retries, redeliveries and replays run concurrently |
| `services/notification` | `notifications`, `processed_events` | Dispatch, reads | the key is recorded before validation and sending |
| `services/productpage` | Redis: a list of pending reviews and a set of reviews being deleted, per product | submit, delete, page loads that reconcile | marks are reconciled against one page of an asynchronous pipeline, by several page loads at once |
| `services/ingestion` | running or idle, last result (under a mutex) | poll loop, trigger, status | a trigger overlaps a poll tick |
| `pkg/idempotency` | set of keys | CheckAndRecord | atomicity in both backends |
| `pkg/eventsmessaging` | none | Publish to Kafka or JetStream | success, failure, or success nobody hears of |
| `pkg/server`, `pkg/health`, the mains | where the process is, what it has to release | boot in a fixed order, start, readiness, drain, deferred releases | every failure of the boot is `os.Exit(1)`; shutdown cuts handlers that run longer than the drain; `pool.Close` waits without a deadline |
| `pkg/database` | `schema_migrations` (version, dirty), an advisory lock | pool, ping, migrate up | two pods boot on one database; a pod dies in a migration; the image is older than the schema |
| event sources, bus, sensors (external, configured in `charts/`) | undelivered events | at-least-once delivery, retries, DLQ trigger | duplicates, unordered retries |
| `pkg/config`, `metrics`, `telemetry`, `profiling` | none that changes | set-up and release | each can end the boot |
| `pkg/logging`, `api`, `events` | none | log lines; declarations read by `specgen` | nothing a model would show |
| `tools/specgen`, CI jobs on its output | generated files in a checkout, on a branch, on main | generate four files per service, one write after the other; drift, lint and breaking-change jobs | a run stops half way, a commit leaves files out, and two generators derive the same fact separately |

How they meet: productpage POSTs to an event source; the event source puts a
CloudEvent on the bus; a sensor POSTs it to the write service and retries; when
the retries are used up the sensor's DLQ trigger POSTs the failure to dlqueue's
own event source, whose sensor calls `POST /v1/events`.  An operator replays an
event: dlqueue POSTs the stored payload to the original event source, and the
loop starts again.  The write services publish an event after each write, and
notification consumes those.

What makes each component correct:

* dlqueue: one event per natural key; a failure that was acknowledged stays
  visible; an event is shown as replayed only if it was posted; the retry
  counter and the status agree and follow the state machine of `dlq_event.go`.
* write services: at most one row per submission, at least one event for an
  acknowledged one, an acknowledged submission is stored, a deleted review does
  not come back.
* notification: at most one send per request, a request answered with success
  has been stored.
* productpage: a pending review keeps its entry until its row is there, an answer
  misses no pending review by itself, and no badge stays on a page for ever.
* ingestion: at most one scrape at a time, and never stuck in "running".
* the process of a service: it serves on a complete schema only, what a handler
  needs is open, a signal stops it, and a crash loop ends when its cause does.
* the dead-letter loop: an accepted submission is stored, or under way, or an
  event that an operator can see and act on.
* specgen and CI: what is on main was generated from what is on main, the files
  agree with each other, and no documented API breaks without a label.

## 2. Plan

| # | Modules | State |
|---|---|---|
| 1 | `DLQLifecycle` (abstract), `DLQueue`, `MCDLQueue`, `DLQueueProofs` | done |
| 2 | `IdempotentWrite`, `MCIdempotentWrite`, `IdempotentWriteProofs` | done |
| 3 | `PendingReviews`, `MCPendingReviews`, `PendingReviewsProofs`: productpage's Redis store, page loads and the asynchronous write side | done |
| 4 | `Notification`, `MCNotification`, `NotificationProofs`; `NotifiedWrites`, `MCNotifiedWrites`: the write services composed with notification through the consumer sensor | done |
| 5 | `Ingestion`, `MCIngestion`, `IngestionProofs`: scrape cycles inside the server of `pkg/server` | done |
| 6 | `Pipeline`, `MCPipeline`, `PipelineProofs`: sensor and dlqueue composed as one loop, with the JSONB form of the stored payload that a replay posts | done |
| 7 | `ServiceProcess`, `MCServiceProcess`, `ServiceProcessProofs`: boot, migration, drain and release of the pods of each service | done |
| 8 | `SpecGen`, `MCSpecGen`, `SpecGenProofs`: the generator and the CI jobs that guard its output | done |

Order: the service with the hardest races first, then the pattern that three
services share, then the browser-facing side of it, what consumes its events, the
loop through all of them, and last the process around a service and the tool beside
it.  `NotifiedWrites` extends `IdempotentWrite` and instantiates `Notification`;
`Pipeline` extends `DLQueue`, and through it instantiates `DLQLifecycle`.

Every safety invariant that a run checks is also stated by a theorem, some under
hypotheses that section 5 gives.  The liveness properties stay with TLC.

## 3. Modules

### DLQueue

One request of the HTTP server is a process.  The variables are the table
(`rows`), what each request is doing and the copy of the row it holds (`req`),
and four histories of the environment: deliveries (`arrivals`), POSTs that the
event source received (`posts`), keys with a failure that was answered 201
(`acked`), and keys whose last such failure no POST has followed (`owed`).  The
histories guard nothing except the bounds.

| Code | Module |
|---|---|
| `dlq_event.go` transitions | `NewDLQEvent`, `ReIngest`, `Replay`, `Resolve`, `ResetPoison`, pure operators on a row; `Accepts` collects their error returns |
| `FindByNaturalKey` and the three outcomes of `IngestEvent` | `IngestFindsResolved`, `IngestFindsRow`, `IngestFindsNothing` |
| `Save`, unique violation | `Save`, `SaveConflict` |
| `FindByID`, the transition on the copy, 404 and 409 | `FindById`, `FindRefused` |
| `ReplayClient.Replay` | `Post`, `PostRefused`, `PostUnacked` |
| `Update` (whole row, no version) | `Update`, with `NextRow` for the next event of a batch |
| `List` of a batch replay | `ListRows`, `Pages` |
| crash, timeout, lost answer, lost memory | `Abandon`, `WriteUnacked`, `PostUnacked`, `Restart` |

Each repository or HTTP call is one step, so requests interleave exactly where
the program has no lock and no transaction.  The memory repository's mutex makes
each of its calls atomic too.  Payload, headers and names are abstracted to the
natural key; timestamps to whether they are set, because nothing branches on
their values except the order of a page, which is left open.  `Thresholds`
is a set because `MAX_RETRIES` may change between deployments while a row keeps
the limit it was created with.  The repositories' calls that only read for an
answer (`GetEvent`, `ListEvents`) change nothing and are left out.

### DLQLifecycle

What the service promises without requests, copies or failures: each event is a
ticket that moves through the state machine of `dlq_event.go` atomically.
`DLQueue` maps its rows to tickets (`Ticket`) and implements it as long as
requests do not overlap (`FollowsLifecycle`).

### IdempotentWrite

`SubmitReview`, `SubmitRating` and `AddDetail` are the same handler: draw an id,
`CheckAndRecord` the key, `Save` if it was new, `Publish` in any case, answer.
`DeleteReview` joins when `Deletable`.  The map names the lines of one of the
three services for each definition, and the README's claims hold for the three.
`saved` and `published` are histories: every row ever inserted, every event on
the bus.  A submission is a member of `Keys`: an explicit `idempotency_key` or
the natural key of the payload.  With no broker configured the publisher is a
no-op and `published` stands for the calls to it.

### PendingReviews

One product on productpage.  A submission has an idempotency key of its own
(`uuid.NewString` in `partialRatingSubmit`), so it becomes at most one row, and the
row is named after it.  `reviews`, `inflight` and `deletes` stand for the reviews
service and the pipeline before it; `pending` and `deleting` are the Redis list
and set; `form` and `removal` say where the two POST handlers are, `load` where
each request for the reviews partial is and what it has read, and `section` what each
browser shows as `#reviews-section`.  A load belongs to a tab but does not exclude
others of that tab: the poll, the forms' `hx-trigger="load"` and a reader who turns
the page are separate elements without `hx-sync`, so their requests overlap and the
answer that comes last is the one that stays.  `Loads` bounds how many are under way.

| Code | Module |
|---|---|
| `partialRatingSubmit` after `SubmitRating` | `Submit`, `PostReview`, `MarkPending`: the entry is pushed even if the POST failed |
| `partialDeleteReview` | `Delete` (from a page that had the button), `PostDelete`, `MarkDeleting` |
| `partialReviews`, `GetProductReviews` | `Fetch`, for a user (`Open`), for the poll (`Refresh`) or for the answer of a form (`LoadAfterSubmit`, `LoadAfterDelete`) |
| `reconcilePending` | `ReadPending` (LRANGE), `DropPending` (one LREM each), `Confirmed` |
| `reconcileDeleting` | `ReadDeleting` (SMEMBERS), `DropDeleting` (one SREM each) |
| the answer, and whether the section polls then | `Render`, `RenderUnreconciled` when Redis failed; `Answer`, `Polls` |

An entry of the list is its text and its second: entries are compared by text and
removed by value, so two equal ones are one as far as LREM is concerned.  Rows are
newest first, as `ORDER BY created_at DESC` returns them.  A write that never
arrives stays in `inflight`, which nothing but the liveness run forces to move.

### Notification

`Dispatch` as one process per request: `Accept` is `CheckAndRecord` followed by
the validation of `NewNotification`, `SkipDuplicate` the 200 for a known key,
`Send` and `SendFails` the dispatcher with `MarkSent` and `MarkFailed` on the copy,
`Save` the insert and the answer, whose code depends on the status.  `Abandon`,
`CheckUnacked`, `SendUnacked`, `SaveUnacked` and `Restart` are the crash of a
handler, the three answers that can be lost, and the process of the memory
backend.  Two differences to the write services matter and are kept: the key is
recorded before the request is validated, and a duplicate does nothing at all
where a write service publishes again.  Reads by id and by recipient are left out.

### NotifiedWrites

`IdempotentWrite` and an instance of `Notification`, joined by the consumer sensor.
`Topic` is the events the write service published, `Submitted` and `Deleted`;
`Subject` is the only part of an event that reaches notification, besides constants,
and `NotificationKey` therefore is the type of the event and its product:
`values-local-kafka.yaml` sends no `idempotency_key`, so `Resolve` falls back to
the natural key.  The sensor delivers events that are on the topic, each at least
once.

### Ingestion

The poll loop and each trigger request are processes in `cycle`; `state` and `last`
are the status behind the mutex, `tick` the one-place channel of the ticker and
`server` where `server.Run` and `main` are.

| Code | Module |
|---|---|
| `pollLoop`, `triggerScrape` | `Tick`, `PollTick`, `Trigger`; the handler's 409 is `Refused` |
| the critical section at the start of `TriggerScrape` | `Enter`, `Refused` |
| the loops over queries and books | `SearchBooks`, `SearchFails`, `PublishBookAdded`, `PublishFails`, one call a step |
| the critical section at the end | `Finish` |
| a client that leaves | `Disconnect`: its context is cancelled, the cycle goes on and every later call fails |
| `server.Run`, the end of `main` | `Signal`, `Drained`, `ListenFails`, `PollCancel`, `Exit`, `Restart` |

Nothing in the code waits for the poll loop: `PollCancel` cancels its context and
`Exit` may come in the middle of a cycle.  The drain has a deadline of 15 s, so
`Drained` does not wait for the requests either.  `select` chooses freely between a
tick and a cancelled context, hence a last cycle with a dead context.

### Pipeline

`DLQueue` accepts any failure at any time.  `Pipeline` lets a failure reach it only if
it has come round: the sensor of the write service gave a payload up.  `waiting` is
what that sensor still has to deliver, `failed` what its `dlqTrigger` still has to
hand over, `recorded` the submissions whose key is in `processed_events` and `saved`
those that are stored.  An attempt on the write service is one step here, the
interleaving of its handlers being the subject of `IdempotentWrite`; but it may fail after
the key was recorded, before or after the save, and a known key is answered with success
and not saved.

| Code | Module |
|---|---|
| the trigger of `sensor.yaml` and its retries | `TriggerSucceeds` (stored, or a known key), `AttemptFails` (half-way, to be retried), `TriggerFails` (given up) |
| `dlqTrigger` with `atLeastOnce` | `DeliverFailure`, until `Ingested` answers 201 |
| an operator | `Operate`: any replay, resolve, reset or batch at any time |
| `ReplayClient.Replay` | `Replayed`: the payload is with the sensor again, also when the answer is lost |
| `marshalPayload` of the handler, the column `original_payload JSONB` | `MarshalPayload`, `ReadBack` |

A natural key is a submission and one of its texts, because the hash is taken of
the payload's bytes.  productpage marshals a Go map, so its keys are in alphabetical order;
Argo hands the body on as a string (the comment at `handler.go:257`), and PostgreSQL
gives a JSONB object back with its keys ordered by length.  What a replay posts is
`Jsonb`, another text than `Sent`, and a failure of the replay has another natural key.
A text that comes from JSONB comes back as it is.

### ServiceProcess

The pods of one service.  The variables are in four groups: the image (`boot`, `env`),
the database (`version`, `dirty`, `lock`), the process of each pod (`pc`, `at`, `open`,
`late`) with its request `req`, and the world (`topic`, `up`).  `boot` is the sequence
of set-up calls in the order of the service's `main`, one sequence for each of the seven
services; `env` says what the configuration has and which calls refuse it.

| Code | Module |
|---|---|
| `config.Load` to `StartProfiler` | `Load`, `SetupTelemetry`, `SetupMetrics`, `StartProfiler` |
| `NewPool`, `RunMigrations` | `NewPool`, `RunMigrations`, `ConvertToPgxURL`, and golang-migrate's `Lock`, `LockFails`, `Up`, `Apply` (external) |
| `buildPublisher`, `NewProducer` of both brokers | `BuildPublisher`, `BuildBroker`, `EnsureTopic`, `EnsureStream`; a broker that refuses the topic or the stream ends the boot |
| `server.Run` | `Listen`, `ListenFails`, `Signal`, `Drained`, `DrainExpires` |
| the deferred functions, the end of `main` | `Release`, last one first, `Return` |
| `os.Exit(1)`, death of the process | `Exit`, `Kill`: no deferred function runs |
| a handler that queries and publishes | `Accept`, `Acquire`, `Query`, `Reconcile`, `Publish` |

One request per pod is enough to hold a connection or a producer; what several
requests do to each other is in the modules above.  A query need not end: the context of a
request has no deadline (`server.go:48-52` sets the time for headers only), `Shutdown`
does not cancel it, and `pool.Close` waits for its connection.  Migrations are counted, not read.

### SpecGen

The repository as three copies of declarations and generated files: `main`, the commit of
the pull request (`branch`) and a checkout (`tree`).  `run` is the generator, one file
written per step; `phase` is the desk of the developer, a CI job, or the merge.

| Code | Module |
|---|---|
| `runner.RunAll`, `generateOne` | `GenerateAll`, `GenerateOpenAPI`, `GenerateAsyncAPI`, `GenerateCatalog`, `GenerateValues`, `Skip` |
| `openapi.Build`, `jsonschema` | `OpenAPI`, `BuildOperation`, `SchemaFromType`, `LowerCamelCase`, `ExtractPathParams` |
| `asyncapi.Build`, `values.Build`, `backstage.Build` | `AsyncAPI`, `ChannelAddress`, `Values`, `Speaker`, `TopicsAgree`, `Catalog` |
| the walker | `LoadsEndpoints`, `LoadsExposed`: whether it can read a declaration |
| a developer | `Edit`, `Discard`, `EndRun` (a run may be interrupted), `Commit` with or without new files |
| `specs-drift`, `specs-lint`, `specs-breaking` | `SpecsDrift`, `SpecsLint`, `SpecsBreaking`, of which `Merge` needs all |

A `$ref` stands for the schema it resolves to, which is what it is as long as the
types of a service have different names; a sorted list is the set of its members; a name
that the code compares is a rank.  Descriptor names differ within a service
(`SourcesAssumption`).  There is one pull request at a time.  The module has no type
invariant: its state is documents, and `MergedIsFresh` compares them; `Shape` and
`RunKnown` of `SpecGenProofs` say what the proofs need of their form.  The services a run
still has to do are a set, of which `Current` is the first in the order of the directories.

### Mutants

Definitions commented "Mutant" are plausible bugs of the definition after them.
No specification uses them; replacing the definition by its mutant makes TLC
report a violation of the property listed beside it in `PROJECT.json`.

## 4. Runs

| Run | Instance | Shows |
|---|---|---|
| `dlq_concurrent` | 2 requests, 1 key, 2 ids, postgres, faults, 4 arrivals, 2 POSTs | rows are consistent, unique per key and stored once acknowledged; a replayed row was posted; retries are never overcounted |
| `pipeline` | 1 submission with its texts, 1 dlqueue request, 2 ids, batches of 2, postgres, faults, 3 arrivals, 1 POST per key | the loop implements `DLQLifecycle`; a failure answered 201 is not hidden; no submission is lost on the way round, except one whose key a failed attempt has burnt; a submission has at most two natural keys |
| `write_faults` | 2 requests, 2 submissions delivered twice, 4 ids, deletes, faults | idempotency, publication, no resurrection |
| `dlq_forgotten_failure` | 2 requests, no faults | violated: the stale write of a replay undoes a re-ingest |
| `write_burnt_key` | 2 requests, faults | violated: acknowledged and never saved |
| `pending_concurrent` | 1 browser, 2 overlapping loads of pages 1 and 2, 2 reviews with different texts, pages of 1 row, faults | a review marked as pending keeps its entry until it has had a row; a load of page 1 misses no review but one that the other load has confirmed meanwhile |
| `pending_polling` | 1 browser, 2 overlapping loads, 1 review that may be deleted, no faults, fair | no badge stays on the page for ever, in whatever order the answers come (`BadgesClear`) |
| `notification_faults` | 2 requests, 2 keys, one shared with an invalid request, redeliveries, faults | one send per key, and a stored status that is true |
| `notified_writes` | 2 write requests, 2 submissions for one product, 2 ids, deletes, 1 notification handler, no faults, fair | every acknowledged submission is saved, its product is notified in the end (once for both submissions), each deletion is notified on its own, and what is notified was or will be saved |
| `ingestion_shutdown` | the poll loop, 1 trigger with 0 to 2 queries, 1 default query, 2 books, fair | one cycle at a time, a true status, counts that add up; cycles, ticks and shutdowns come to an end |
| `service_processes` | each of the 7 services under 13 configurations, 2 pods in a rolling update (1 and 2 migrations), 1 outage, 1 stop, fair | no pod serves on a schema that lacks one of its migrations, what a handler needs is open until the drain runs out of time, a signalled pod stops unless the database leaves a query without an answer for ever, a pod whose dependencies are back becomes ready |
| `specgen` | 2 services, 2 edits or deletions, 2 merges | files on main are fresh, the three files of a service say the same of its channels and routes, and no API breaks unlabelled |

Bounds.  Two requests are enough for every race between a read and a write of
one row, which is the only thing requests share, and one key for everything about one
row.  The threshold 2 with 4 arrivals reaches pending, re-ingested and poisoned; 2 POSTs
let an event be replayed, fail, and be replayed again.  In `pipeline` a submission has
two rows, one for each of its texts, so that its batches are of two events and may stop
between them; one POST for each brings the loop round twice.  `MaxText` is one text more
than the code can make, so that a third natural key would be seen.  The dlqueue runs are on postgres, whose unique index `NaturalKeyUnique`,
`AckedIsStored` and the lifecycle rest on; what holds on the memory backend is
proved (section 5).  Two deliveries of a submission with four ids make every duplicate,
concurrent or after a fault or a delete.  All bounds are the constants
`MaxArrivals`, `MaxPosts`, `BatchLimit`, `MaxText`, `MaxDeliveries`, `Deletable`,
`Loads`, `MaxQueries`, `MaxOutages`, `MaxStops`, `MaxEdits`, `Discardable` and `MaxMerges`.  The runs of the write services and of notification set
`CHECK_DEADLOCK FALSE` because the sensors stop after a bounded number of
deliveries.  Two loads at a time are the least that can overlap, and give each
Redis command of one a place between any two of the other; pages of one row put the
second review on a page of its own.  In `notified_writes` two ids allow two deliveries
in total, so either each submission arrives once or one of them twice; it has one notification
handler, because concurrent ones are the subject of `notification_faults`.  For
`ingestion_shutdown` the poll loop and one trigger make every race for the mutex;
two queries are the least for which a failed one is followed by another, two
books the least for a publication that fails between others.
In `service_processes` one outage and one stop suffice because each property is about
one pod that is hit while the other goes on, and the counters allow the hit at every step of
the boot, a migration included.  In `specgen` two edits make a disagreement and its repair, or a change and a lost file; the second
merge lets a later pull request find what an earlier one has left.

Fairness.  `WF_vars(Step(p))` for each request: the Go scheduler runs every
handler, and a handler that can take a step takes one.  For a call to PostgreSQL this
assumes a database that answers, with a result or an error, because the calls have no deadline of
their own; `service_processes`, which is about processes that have to end, does not
assume it.  Nothing is assumed of arrivals, operators or faults.  `pending_polling`
also assumes that the pipeline delivers (`WF` of `StoreRow` and `DeleteRow`, there
are no faults in that run), that a section which polls asks again, and that the answer
of the rating form is followed by its load.  These last two are `SF`: what disables them
is that all of `Loads` are busy, a bound of the model and not of the browser, which
sends its requests regardless.  Nobody is assumed to open a page.
`notified_writes` assumes each handler's step and that the sensor delivers what it
has not had an answer for (`WF` of the delivery of each such event): that is what
at-least-once means.  `ingestion_shutdown` assumes the steps of each cycle, the poll
loop taking its ticks, the deadline of the drain, and a new pod; the Open Library
client has a timeout of 30 s, but a publication has none of its own, so that a
cycle ends also assumes a broker that answers.
`service_processes` assumes that the kubelet starts what is down, that a booting or
closing process takes its next step (`WF` of `Boot`, `Shutdown`), and a handler too
unless it waits for the database (`WF` of `Acquire`, `Reconcile` and `Publish`, and nothing for
`Query`); that a waiting session gets the advisory lock if it is free again and
again is `SF`, as PostgreSQL queues waiters.  `Stops` and `Recovers` are therefore said of
a pod that no query keeps waiting for ever (`Answered`); without the condition `Stops` is
false (section 6).  Nothing is assumed of outages, signals and requests: a dependency may
stay down for ever, and `Recovers` is conditional on a dependency that stays up too, on a
configuration the service can run with and nothing refuses (`Configured`), and on a schema
that is neither dirty nor newer than the image.

What `PendingReviews` promises is less than its comments say, and the properties are
stated as far as they hold.  `PendingUntilStored` is checked for different texts: the same
reviewer sending the same text twice breaks it, because an entry is confirmed by text.
`NeverVanishes` excepts an entry that another load has confirmed and removed in between: the
answer with the older rows has neither.  `BadgesClear` is about what the page shows, and
without faults: a review whose POST failed is marked as pending and never confirmed, and an
entry or a mark in Redis stays when nobody loads the page.  That a review being deleted is
marked until it is gone is not claimed: a load that does not show its row, because it is of
another page or has fetched before, drops the mark.

## 5. Proofs

The proof modules prove, for every set of keys, ids and requests, every threshold
and bound, both backends, with and without faults unless it is said otherwise:

* `DLQueueProofs`: `TypeCorrect`; `SafetyInvariant` (`SInv`), from which follow
  `RowsStayConsistent`, `CopiesStaySound`, `ReplayedImpliesPosted`, and on
  postgres `OneEventPerKey` and `AckedFailuresStored`.
  `RetriesAreReal`, which counts deliveries, needs `CInv` besides.  For requests that do not
  overlap and a table that is not lost (`OneAtATime`): `ImplementsLifecycle`
  (`Spec => FollowsLifecycle`, every step is a transition of `dlq_event.go` or a
  stutter) and `NoFailureForgotten`.
* `IdempotentWriteProofs`: `TypeCorrect`; `SafetyInvariant` (`SInv`), from which
  follow `Idempotent`, `AnsweredIsPublished` and `NoResurrection`; without faults,
  `AnswerMeansSaved`, the property that `write_burnt_key` violates with them.
  About `NotifiedWrites`: `WritesUnaffected` (`SystemSpec => Spec`) and
  `NotificationImplemented` (`SystemSpec => N!Spec`, the topic being the bus of
  `Notification`), so that what is proved of each service alone holds of the two
  joined; and, without faults, `AnsweredAreNotified` for submissions about any products.
* `PendingReviewsProofs`, for any number of browsers and of overlapping loads and with
  faults: `SafetyInvariant` (`SInv`), `TypeCorrect`, `NothingVanishes`, and for submissions
  with different texts (`OwnTexts`) `PendingStays`.
* `NotificationProofs`, on postgres except for the first: `TypeCorrect`;
  `SafetyInvariant`, from which follow `NeverSentTwice`, `StoredStatusIsTrue` and
  `SendersAreAlone`.
* `IngestionProofs`: `SafetyInvariant` (`IInv`), from which follow `TypeCorrect`,
  `OneCycleAtATime` and `NothingUncounted`.
* `PipelineProofs`: `LoopIsDLQueue` (`PipelineSpec => Spec`, so that every theorem about
  `DLQueue` holds in the loop), `KeysChangeOnce`, and for requests that do not overlap
  (`OneAtATime`) `ReplaysAreSafe`, and `ReplaysStoreWithoutFaults`, which has no exception
  for burnt keys.
* `ServiceProcessProofs`, for any pods, images, configurations, outages and kills:
  `SafetyInvariant` (`PInv`), from which follow `TypeCorrect`, `SchemaBeforeService` and
  `NothingClosedInUse`.
* `SpecGenProofs`, for any services, declarations and number of pull requests:
  `SafetyInvariant` (`IInv`), from which follow `MainIsFresh` and the action property
  `BreaksAreLabelled`; and `ContractsAgree`, if the groups that main begins with agree on
  their topics and no service declares a route twice (`RoutesOnce`).

Why an inductive invariant is needed.  That a stored row is consistent does not
survive a step by itself, because `Update` writes a copy that was read long
before: what must hold is that every copy is sound (`CopiesSound`): it is
consistent, its row still exists under the same key, and once the POST is done
its `last_replayed_at` is covered by a POST that arrived.  Those facts are stable
because rows keep their id and key and `posts` only grows.  For the refinement
`QInv` adds that a copy is current (`CopyCurrent`): it is exactly one transition
away from the row as it is now, which is what lets the write be mapped to that
transition.  A second request breaks `CopyCurrent` and nothing else, and the run
`dlq_forgotten_failure` shows what follows.  For the write
services the invariant is about ownership: a key at "save" is recorded and
belongs to one handler that nobody has saved for (`SaversOwnTheirKey`), a drawn
id is nobody else's until it is saved (`IdsFresh`), and a delete about to be
announced has removed the only row of its key (`DeletesDone`).  Notification's
is about ownership too: nothing was sent or stored under a key that is not
recorded (`UnrecordedIsUnused`), a handler past the check is the only one of its key
and nothing has been stored for it yet (`PastOwnsItsKey`), and the status it carries
is what its send earned (`OutcomeIsTrue`).  It needs postgres because the memory
backend forgets the recorded keys with the process and sends again.  `IInv` of
ingestion is the conjunction of what it proves: the status is true only if at most
one cycle runs, and the other way round.

In the loop, `KInv` says of every payload that may still become the key of a row,
those under ingestion included, that it is `Genuine`: as it was sent, or the JSONB text of an event
that was posted.  It needs `CopySound` of `DLQueue`: the copy that is posted has
the key of a stored row.  `LInv` adds to `NothingLost` what a handler is about to
write: before it writes "replayed", the sensor has had the payload (`CopyCovered`).  A
second request may take the failure in between, hence `OneAtATime`, and
`PipelineOverlap.cfg` shows it.  `BInv` says that without faults a recorded key is that of
a stored submission; with it `NothingLost` has no exception and is `ReplaysStore`.

`PInv` of the pods ties the step of the boot to what it has achieved: who is `After`
"migrate" has a schema with all of its migrations, complete (`SchemaDone`), who is after
the pool has it open until it closes (`Acquired`).  `SchemaDone` is stable because
a version only grows and `Up` refuses a dirty one: what is half applied is newer than
what any pod that serves needs.

That retries are not overcounted is not a matter of rows and copies alone: between the
arrival of a failure and its increment there is a request that has counted and not yet
read.  `CInv` therefore says that every counter, stored or in a copy, has room below the
arrivals of its key for all such requests (`HasRoom`); finding a row turns a place into
an increment, and a stale write puts back a counter that has room as well.

The write services' `AnswerMeansSaved` rests on `RInv`: a recorded key `Stands` for a row or
for a handler about to save it, and nothing but a fault takes such a handler away.  In
`NInv` a key recorded by notification is `Covered` in the same way, by a notification
or by a handler past the check: of the same key, which is the type of the event and its
subject, and so perhaps of another submission for the same product.  That each submission
has a notification of its own is false (`NotifiedWritesSameProduct.cfg`).

Of the theorems about pending reviews only `PendingStays` has a hypothesis: entries are
confirmed by text, so the entry of a text that two submissions share goes with the first
row (`OwnTexts`).  `SInv` says that a row is stored once and that what a load has seen and
is about to drop is of rows that have been there (`RowsOnce`, `LoadsKnown`); `MarkedKept` adds that the
entries of what has no row are in the list.  For `NothingVanishes` a load is followed
through its steps: what is `due` to it is still in the list or on its answer (`Accounted`),
whatever the loads beside it remove.  That LREM
takes out one entry and keeps the others is a lemma about `RemoveFirst`
(`RemoveFirstCuts`, `RemoveFirstKeeps`).

In `IInv` of the generator, `Regenerating` says what a run inside `specs-drift` has written
so far: of every service it is past, and of the service at hand the files before the
step, each is what the committed declarations call for, unless the run has failed.  At the
end of the run this is the freshness of the whole commit, because the job compares each
tracked file; `Checked` carries it through the later jobs and `Compared` adds what
`specs-breaking` has seen.  A file that nothing calls for, or that is not tracked, is outside it
(`NothingForgotten`, section 6).  `RoutesOnce` is what a service needs to start: `api.Register`
hands each route to a `ServeMux`, which panics on the second; the generator itself keeps the last one.

Assumptions: the ones named in the modules.  `NilAssumption` (the null value is
no row, key or id), `ThresholdsAssumption` (limits are at least 1, which
`NewDLQService` and `NewDLQEvent` enforce), `BackendAssumption`,
`BoundsAssumption`, `DeletableAssumption`, `BoundAssumption`, `KeyAssumption`,
`EventAssumption` and `ProductAssumption` (every event has a key, every submission a
product),
`KeysAssumption` (a natural key of the loop is a submission and a text),
`EnvAssumption`, `KnownAssumption` (an image has a migration at least), `BootsAssumption`
(the boot sequences are those of the seven services),
`TextAssumption`, `TabsAssumption`, `AuthorAssumption` and `PageAssumption` (a submission has a
text and a browser it is written in, a page has room for a row and there is a page 1), `FaultsAssumption`,
`SourcesAssumption` (what declarations look like, and that descriptor names differ within a
service), `OrderAssumption` (the directories in order are a sequence of the services),
`CycleAssumption` (the poll loop is no request, the books are finitely many) and
`QueriesAssumption`.

`CopiesSound`, `SaversOwnTheirKey` and `SendersOwnTheirKey`, parts of these invariants,
are proved and not checked again by a run.

Only model-checked: the liveness properties (`AckedIsEventuallySaved`, `ProductIsNotified`,
`NotifiedIsSaved`, `BadgesClear`, `ScrapeEnds`, `TickScrapes`, `SignalStops`, `Stops`,
`Recovers`), which rest on fairness and are outside what the prover handles.
`pipeline` checks `FailureNotForgotten` and
`FollowsLifecycle` where the failures arrive in the order of the loop; the theorems
cover every order.

## 6. What the violations say

`PROJECT.json` "findings" quotes the line each of the two runs contradicts.  The
forgotten failure comes from the unconditional `UPDATE ... WHERE id`: a row version or
a `WHERE status = ...` would repair it.  The burnt key comes from recording the key
before, and not together with, the save.

Further counterexamples are kept as configurations beside the runs, to be looked at with
`tlc -config <cfg> <module>`:

| Configuration, module | Property | What TLC shows |
|---|---|---|
| `NotifiedWritesSameProduct.cfg`, `MCNotifiedWrites` | `EachWriteNotified` | two submissions for one product: the sensor passes the product as the subject and nothing else of the event, so the second has the natural key of the first and is never notified, although `docs/superpowers/specs/2026-04-24-event-driven-notifications-design.md:21` says "A notification fires if and only if the corresponding write succeeded"; passing the event's `idempotency_key` on would tell them apart |
| `PendingReviewsOverlap.cfg`, `MCPendingReviews` | `AuthorSeesReview` | two loads of one browser: the older one fetches its rows before the review is stored and reads the list after the other has removed the entry, and its answer comes last; it has neither row nor entry and does not poll.  With one load at a time the property holds |
| `PendingReviewsOtherPage.cfg`, `MCPendingReviews` | `DeletingUntilGone` | a load of another page takes a review that is not on it for a confirmed deletion (`redis.go:137`) and drops the mark, so that the next load of its own page shows it with a delete button again |
| `PipelineBurntKey.cfg`, `MCPipeline` | `ReplaysStore` | the same burnt key as in `write_burnt_key`, seen from the loop: the attempt that failed has recorded the key, so the replay is answered with success and nothing is stored |
| `PipelineSecondEvent.cfg`, `MCPipeline` | `MatchedOnReturn` | a replay that fails again is a new event with a retry count of 0, not a retry of its event as `docs/superpowers/specs/2026-04-13-dlqueue-service-design.md:96` has it: the hash is of bytes JSONB does not keep |
| `PipelineOverlap.cfg`, `MCPipeline` | `NothingLost` | two overlapping requests: the stale write of a replay hides the failure, and nothing is left of the submission; it takes the second replay, because the change of the key protects the first |
| `ServiceProcessStuckQuery.cfg`, `MCServiceProcess` | `StopsAlways` | a query that is never answered holds its connection, the drain gives up after 15 s, and `pool.Close` waits: the pod needs the kubelet to kill it |
| `SpecGenForgotten.cfg`, `MCSpecGen` | `NothingForgotten` | a new service is merged without its files: `git diff` in `specs-drift` (`ci.yml:334`) is silent about files it does not track |

Met while modelling, and kept in the models as the code has them:

* A duplicate of a submission publishes an event with a new id that no row has
  (the id is drawn before the check).
* A notification with a known key is answered 200 also when an invalid request
  recorded the key, because the record comes before the validation.
* On the memory backend two first failures of one natural key may both be stored:
  nothing there stands for the unique index.
* The postgres repository of notification answers a missing id with no row and no
  error (`notification_repository.go:48-50`) and the handler reads the row
  (`handler.go:75-95`); a read, not modelled.
* `ConvertToPgxURL` compares the 13 characters of `postgresql://` with the first 14 of the
  URL (`migrate.go:45`), so that scheme, which the pool accepts, ends every boot with
  migrations.
* A refused topic creation without a message counts as success (`producer.go:132`).
* Two endpoints with one `EventName` make a key twice in the generated values
  (`values.go:66`), and the paths `/a/{id}` and `/a/id` one operationId, against the comment at
  `openapi.go:346`; the lint job stops the second.
* A service that fails at its last file keeps the three written before, although
  `runner.go:87-88` says that failed services leave no breadcrumbs; the drift job fails
  on such a run.

## 7. Not modelled

* Reads, pagination, `Average`, rendering: pure functions of one
  snapshot of the store, with unit tests beside them and no protocol behind them.
* `pkg/logging`, span and metric values, profiles: nothing depends on them.
* The walker of `specgen` beyond whether it can read a declaration, and the text of
  YAML and templates.
* Two pull requests at a time: `main` may move between the jobs and the merge.  The label
  that allows a break is the one the job's event carried; one removed later is not seen,
  in the workflow either.
* A browser that leaves, or the death of productpage, in the middle of a page load.
* Memory backends across a crash beyond `Restart`: they lose what they acknowledged,
  which is what they are for; the storage properties are stated for postgres.
* Kafka, JetStream, Argo Events, PostgreSQL, Redis, golang-migrate, the kubelet and
  GitHub Actions are external, modelled from how the code uses them: deliveries at least
  once and in any order, calls that succeed, fail, or succeed without an answer.
