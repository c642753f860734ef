# Verification of the notification management API

TLA+ models of the Go service in `src/`, checked with TLC on small instances,
and theorems about them proved with TLAPS for every instance.

The service accepts notifications over HTTP, stores them in Postgres, passes
them through Redis lists to a pool of workers that post them to an external
provider, retries what fails, delivers scheduled notifications when they are
due, archives what is completed and tells WebSocket clients about outcomes.

## Inventory

| Component | Source | State | Operations | Hard behaviour |
|---|---|---|---|---|
| HTTP handlers, router | `internal/api` | none | decode, call a service, map errors; Shutdown | run concurrently; clients that go away |
| notification service | `internal/service/notification.go` | none of its own | Create, CreateBatch, Cancel, Get, List | row committed, push fails; lookup and INSERT are two statements; two requests take the same keys in opposite orders |
| templates | `internal/service/template.go`, `repository/postgres/template.go` | table templates | CRUD, render | deletion while a request uses it |
| validation | `internal/domain/validation.go` | none | recipient formats, content limits | limits hold for the rendered text |
| notification repository | `internal/repository/postgres/notification.go`, `migrations` | tables notifications and notifications_archive, a unique index on the key in each | INSERT, batch, status UPDATEs, retry increment, cancel, due SELECT, bulk UPDATE, archive | unconditional UPDATEs; an archive statement that selects by status and deletes by id |
| Redis queues | `internal/queue/redis.go` | three lists, one sorted set of retries | LPUSH, BRPOP, ZADD, ZRANGE, ZREM, pipelines | destructive pop; pipelines that break half way; commands the client sends twice |
| worker pool | `internal/queue/worker.go` | per worker: the message in its hands | pop, process, deliver, handleFailure | interleaving with cancel, scheduler and each other; loss at a crash |
| scheduler | `internal/queue/scheduler.go` | none between ticks | processScheduled, processRetries, archive | push before UPDATE; partial ticks |
| WebSocket hub | `internal/ws` | client map, three channels, a channel per client | Run, Notify, ServeWS, pumps | close and send on channels of several goroutines, slow clients, writes without a deadline, blocking |
| metrics | `internal/metrics` | atomic counters | adds, Snapshot | torn snapshots |
| wiring, config | `cmd/api`, `internal/config`, `queue/module.go` | - | start and stop of the parts, in the order of fx | stop between two steps of any part |
| telemetry, middleware, docs, migration runner | | - | - | no decision depends on them |

How they interact:

```
POST /notifications -> service -> INSERT -> LPUSH --+
                                                    v
scheduler: due rows -> LPUSH -> UPDATE queued --> lists -> BRPOP -> worker -> provider
scheduler: due retries -> LPUSH, ZREM ------------^                  |  |
                                     retry set <- ZADD <- failure ---+  +-> Notify -> hub -> clients
DELETE -> UPDATE cancelled (a row only: its message stays where it is)
```

Postgres and Redis are shared by all of them and no transaction spans both:
every step below is one call to one of them, and everything may happen between
two calls. What makes the components correct:

- delivery: a status tells the truth about the provider; a notification is not
  lost, has one outcome and a bounded number of attempts; a cancelled one is
  left alone; the archive is final;
- keys: a key stands for one notification; the archive keeps moving;
- hub: no panic on a closed channel, no reader blocked for ever, no gap in what
  a client sees;
- requests: only what can be sent is stored, a batch wholly or not at all, and
  every request gets an answer;
- stop: it ends, and the next process finds every message;
- metrics: how far the numbers of one snapshot may disagree.

## Modules

| Module | Models | Uses |
|---|---|---|
| `NotificationDomain` | statuses, priorities, the Redis message, the failures of the environment | |
| `NotificationTable` | every writing statement of the repository, and the SELECTs that decide something | Domain |
| `RedisQueues` | lists and retry set | Domain |
| `NotificationService` | create, batch, enqueue, cancel | Table, Queues |
| `DeliveryWorker` | one worker, call by call | Table, Queues |
| `DeliveryScheduler` | the scheduler goroutine, command by command | Table, Queues |
| `DeliverySystem` | their composition, crashes, the properties | Service, Worker, Scheduler |
| `NotificationPromise` | abstract specification: what one notification is promised, without queues, workers and rows | |
| `WeakPromise` | what is left of it when messages are duplicated and any call may fail | Promise |
| `DeliveryRefinement` | the mappings under which DeliverySystem implements both | DeliverySystem, both promises |
| `Lifecycle` | orderly stop and restart of the process | DeliveryRefinement |
| `DeliveryRows` | proofs: types, the archive, cancelled rows | DeliverySystem |
| `DeliveryAccounting` | proofs: counts, receipts and the weak promise under every fault | DeliveryRows, DeliveryRefinement |
| `DeliveryOutcome` | proofs: one copy, one outcome, nothing stranded | DeliveryRows, DeliveryRefinement |
| `DeliveryPromise` | proofs: the refinement, orderly stops | DeliveryOutcome, DeliveryAccounting, Lifecycle |
| `IdempotencyKeys` | lookup, INSERT, batches and the archive with their unique indexes | Table |
| `Hub` | Run, Notify, ServeWS, readPump, writePump over bounded channels | |
| `CreateRequests` | the creates from validation to the answer: templates, rendering, limits, key lookup, transactions of batches | |
| `Collector` | the counters of `internal/metrics` and their snapshot | |
| `KeyProofs`, `CreateProofs`, `CollectorProofs`, `HubProofs` | proofs about the four modules above | |
| `MCDelivery`, `MCLifecycle`, `MCKeys`, `MCHub`, `MCCreate`, `MCCollector` | values for TLC | the modules above |

Correspondence with the code. An action is one call to an external system with
the decisions around it; `wpc`, `spc`, `rpc` name the next call of a goroutine.
A worker's `processing`, `post`, `delivered`, ... are the calls of `process`,
`deliver` and `handleFailure` in their order; `spc` walks through
`processScheduled` and `processRetries`; `batch` is the pipeline it has sent and
`pipe` what of it is yet to be executed, since a go-redis `Pipeline` is not a
transaction; `moving` is what an archive statement has selected and not moved yet.
`toEnqueue` holds the rows a request has stored and not yet pushed, `sending` all
those of the command or pipeline it pushes them with. `attempts`, `accepted` and `events`
record what the provider and the subscribers have seen; nothing in the code
reads them, properties do. In `Hub`, `sent`, `since` and `written` play that
part; its `wpc` tells a `writePump` that waits for its channel (`take`) from one
inside `WriteMessage` (`write`, `close`).

`NotificationPromise` has a notification go from new over open, while it is
tried, to closed, with one outcome or, if calls may fail, without. The mapping in
`DeliveryRefinement` says what that is in the pipeline: new while there is no
row, open while a copy of the message is anywhere (to be pushed, in a list,
in the retry set, with a worker), closed afterwards; tries and acknowledgements
are the requests to the provider, the outcome is what subscribers were told.
`ImplementsPromise` is its safety, `KeepsPromise` adds that what is open is closed.
It is a promise about notifications without `scheduled_at`.

`WeakPromise` is for all notifications and all failures. A tick that breaks half
way pushes a message twice, and `delivered_doc` shows a row that is set back, so
copies may be tried and announced beside each other. What is left: an
announcement is backed by an acknowledged request or by `MaxRetries + 1`
requests, an acknowledgement is never taken back, and a notification that is
closed stays closed: no request and no announcement is made for it again. It is
open while a copy of its message is anywhere, while its row is going to be
fetched (`ToBeFetched`), or while its message is part of a command or pipeline that
is under way (`MayBeResent`): until the reply is there the Redis client may send it
all again, also what a worker has taken and finished by then. `KeepsWeakPromise` is
the safety of that.

`Lifecycle` wraps the steps of `DeliverySystem` in `phase`, which part of the
process is being stopped. fx calls the OnStop hooks in the reverse of the order of
the OnStart hooks: `http.Server.Shutdown` waits for the handlers (`HandlersDone`);
the scheduler's context is cancelled and its goroutine awaited (`GiveUp`,
`GiveUpBulk`, `FinishUnderWay`: a call under a cancelled context is not begun, one
that was sent may have its effect); then the pool's (`LastPop`: a worker inside
BRPOP may still get a message; it handles it with a context of its own,
`FinishMessage`). `BeginStop` is SIGTERM and may come at any step.

In `CreateRequests` a request is `check` (per item: recipient, template, content,
length), `lookup`, `insert` per row and `commit`, with `ready` the rows made of the
items so far and `inserted` how many of them its transaction has inserted. Locks
are not a variable: a key is locked while an open transaction has a row with it
(`Pending`), and `WaitsFor` and `Deadlocked` are read off that. In `Collector`
`adds` and `loads` are the atomic operations a recording or a snapshot has
still to make. The three channels are fixed in it, as in the arrays of the code.

Operators with the comment `Faulty:` are wrong variants of the definition
that follows; they are in no specification and show which bug each property
would catch.

### Abstractions

- Time. Any pending row with a `scheduled_at`, and any member of the retry set,
  may be due at a tick; any completed row may be old enough for the archive.
  `IdempotencyKeys` has the age explicitly, because there it decides.
- Recipient, channel, content, metadata and timestamps are left out of the pipeline:
  no decision of it depends on them. `CreateRequests` has them, with texts by length
  and recipients by form; a body is the length of its text and its placeholders. Priority and `scheduled_at` are fixed at creation.
- A message is its id, the `RetryCount` of its snapshot and `span`, which stands
  for the trace carrier: the retry set is a set of payloads, so two copies of a
  message are one member exactly when carrier and count are the same.
- The provider answers a request with an acceptance or not, and the acceptance
  names a message id (`MessageID(n)` for the n-th request) or does not (`EmptyID`):
  `deliver` takes any 200 or 202 with a JSON body. The second is a fault, `answer`,
  so that it can be counted; nothing else depends on it.
- A failing UPDATE may or may not have changed the row where the code stops
  because of it (`MarkQueued`); where the code goes on, an UPDATE that took
  effect with its answer lost is the same step as one that worked.
- A statement is atomic (Postgres, read committed, single-statement), except that of
  the archive: its SELECT tests the status and its DELETE compares the id again and
  nothing else, so what a worker does between the two is moved with the row. They
  are two steps, `ArchiveSelect` and `ArchiveMove`.
- A command or COMMIT that is executed after its client has given up is taken as
  executed before the client goes on.
- Rate limiter: with a positive rate it only delays. `WORKER_RATE_LIMIT_PER_SEC = 0`
  is assumed away here and listed as a hazard.
- Metrics counters are write-only for the pipeline; `Collector` has them alone, with
  arbitrary workers that record.
- List and Get change nothing and are left out.
- `DeliverySystem` leaves idempotency keys to `IdempotencyKeys`, where the
  pipeline between INSERT and completion is one step. `IdempotencyKeys` in turn takes
  a batch's transaction and an archive statement as one step each (the rows it
  archives have no worker left) and has requests succeed; how two transactions
  meet is in `CreateRequests`, which has no archive.
- `CreateRequests` ends at the stored rows: that the push comes after is in
  `DeliverySystem`, where a client that goes away between the two is the fault
  `enqueue`.

### Failures

`Faults` is the set of call sites that may fail and `MaxFaults` how often they do
in one behaviour: `insert` and `enqueue` (request), `resend` (the Redis client
repeats a command or a whole pipeline whose reply was lost: of a request, a worker or
the scheduler), `brpop`, `status`, `answer`, `zadd` (worker),
`pipeline`, `bulk` (scheduler), `crash` (the process restarts; goroutines are
lost, the stores survive). Failures of the provider are not counted.
`CreateRequests` has failures of its own, without a bound: any statement may fail
(`DatabaseFails`), and the answer to an INSERT or COMMIT that stored its rows may be
lost (`AnswersOfStored`).

## Runs

| Run | Question | Size |
|---|---|---|
| `faults` | What holds whatever single call fails, at every site? | about 179,000 states |
| `promise` | What is one notification promised when no message is duplicated and no UPDATE is skipped, with any two of the remaining failures? Does the pipeline implement the abstract promise? Is the archive final? | about 184,000 |
| `live` | Does everything end when nothing fails, and is the promise kept? | about 65,000 |
| `stop` | Does an orderly stop end, at any moment and twice, and lose nothing? | about 104,000 |
| `cancel_doc`, `delivered_doc` | documented claims the pipeline does not keep | stops at the first violation |
| `keys` | How often can a key be used? | about 8,300 |
| `key_error_doc`, `archive_doc` | documented claims about keys and the archive | stops at the first violation |
| `requests` | What is stored and answered when creates, template changes, failing statements and departing clients meet? | about 180,000 |
| `metrics` | How far may one snapshot be torn? | about 830,000 |
| `hub` | Panics, gaps, blocked goroutines | about 490,000 |

`faults` checks the type invariant and
- `ReceiptIsGenuine`: the receipt of a delivered row is what the provider answered an
  acceptance of that notification with, although any UPDATE of the status overwrites
  it. It may be empty, as the code takes an acceptance without an id for one;
- `FailedOnlyWhenExhausted`: a failure is backed by attempts, also with copies of
  a message in two workers;
- `AttemptsAccounted`: the inductive reason for these (see Proofs);
- `UnheldCancelIsFinal`: a cancelled notification with no message under way, and none
  that may be sent again, is neither revived nor posted;
- `KeepsWeakPromise`: every step is one of `WeakPromise`, whatever call fails.

`promise` checks `SingleCopy`, `OutcomeIsUnique`, `AnnouncedIsStored`, `OutcomeIsFinal` and their inductive reason
`EveryCopyOnTrack` (see Proofs) for notifications without `scheduled_at`, and
`ArchiveIsImmutable` (workers that still hold a message of an archived row cannot
change it or bring it back). A row that was cancelled and selected for the archive
may be set to processing before it is moved, and stays so for good:
`AnnouncedIsStored` and `EventuallyCompleted` say what is left to hold of such a row. Most are about duplicates, so `pipeline` and `resend` are not
among its failures (each of them breaks `SingleCopy`); `status` is not either,
as a skipped UPDATE leaves a row that does not show what was announced. `live` checks
`KeepsPromise`, `EventuallyCompleted`, its reason `NothingStranded`,
`EventuallyAttempted` and `EventuallyDrained`.

`promise` also checks `ImplementsPromise`: in particular the outcome announced is
the one the requests had, even when a crash, a failed pop or a lost retry comes
between them; with `Faults` not empty a notification may be lost, and TLC shows
that nothing else than losing can go wrong.

`stop` checks `StopCompletes`, `StopLosesNothing` (while the process is down, each
unfinished notification that is not scheduled has its message in Redis) and, across
the restart, `KeepsPromise` and `EventuallyAttempted`. Against a crash, which is
the fault of `faults` and `promise`, this is what the order of the hooks is worth.

`requests` checks `StoredIsValid`, `AllOrNothing`, `KeyHeldOnce`,
`EveryRequestIsAnswered` and its reason `WaitsEnd` (where requests wait for each
other, one that is waited for can go on or is aborted); `metrics` checks `CountersBalance`,
`AverageNotTooSmall` (the order of the two adds and of the two loads together keep the
average from falling below the smallest latency; it may exceed the largest) and
`ChannelsKeepUp`.

Bounds, and why they are enough. Two notifications: one pushed by its request
and one scheduled, of different priorities, so that `BRPOP` has a choice of
lists; two of one priority in `promise`, so that order in one list matters. Two
workers: the properties are about copies held at the same time, and a duplicate
takes one failure. `MaxRetries = 1` gives a first attempt, a retry and an
exhausted one. A batch of two and a scheduler batch of two make pipelines of
more than one command; `ArchiveBatchSize = 1` makes the limit bite. `faults`
allows one failure. It and `stop` have no archive (`ArchiveBatchSize = 0`): a row that
is moved multiplies their states. The configuration of `faults` was also run with
`ArchiveBatchSize = 1` and `ArchiveIsImmutable` (2.8 million states) without a
violation, and the theorems cover both. Counters need no
bound: retries are limited by `MaxRetries`, duplicates by `MaxFaults`, and a
scheduled row that a tick has set to queued is not fetched again.
Four notifications and one key in `keys` let a key be used, archived, reused and
archived again beside rows without a key. Two clients, three events and channels
of one slot in `hub` fill every channel, and leave Run with an event in its hands
that finds the channel of a client full whose pump is gone.
`stop` has one worker, since what a stop can lose is what one worker holds when it
is told to stop, and two stops, so that the second meets what the first has left in
Redis and in the rows. `requests` has three requests with one template and two
keys: two batches that take both keys in opposite orders and a third party that
holds or waits for one of them; the calls lie on both sides of a length limit and
include a channel no column admits and a recipient of the wrong form. `metrics` has two workers and three recordings,
so that a worker may be in its second recording while a snapshot passes the first. Workers, notifications of `keys`, and
requests are interchangeable and used for symmetry in safety runs; `live`,
`stop`, `requests`, `archive_doc` and `hub` have none. `keys`, `hub` and `requests` are
bounded by their ids, events and requests and do end, so deadlock is not an error there; in the delivery runs the
scheduler always ticks and deadlock is checked, but shows little.

### Fairness

- `WF(Work(w))`, `WF(Tick)`, `WF(Enqueue)`: worker loops, the scheduler loop and a
  running handler keep being executed by the Go runtime. `Pop` is a disjunct of
  `Work`, so a worker that is idle takes a message when there is one.
- `SF` of the ticks that fetch a certain row or retry: time passes, so a row that
  stays pending or a retry that stays in the set is due at some later tick, and
  the LIMIT of the queries (500, `schedulerBatchSize`) does not starve it: both queries are ordered so
  that what was fetched leaves the result. This is about the environment's clock
  and load; nothing is assumed about the provider's answers.
- `WF(ArchiveTick)` in `IdempotencyKeys`: the hourly ticker.
- `Lifecycle`: the same for the parts that are running, and `WF` of each hook of a
  stop, since fx calls one when the one before has returned. Each hook's action is
  enabled only when what it waits for is done. `BeginStop` has no fairness. A stop longer
  than fx's StopTimeout is a kill, so it is a crash and not part of this.
- `WF(\E r : RequestStep(r))` in `CreateRequests`: as long as some handler has a
  statement that can be executed, one goes on; one that waits for a lock is not
  enabled until the other transaction ends or Postgres aborts one of a deadlock
  (after `deadlock_timeout`). A call has finitely many steps, so this is enough for
  all of them. Nothing is assumed of clients or templates.
- `WF` of Run and of each pump in `Hub`: goroutines; a pump that blocks on a full
  channel is not enabled. No fairness for peers: they may stay or go, read or not.
  `WriteMessage` has no deadline, so it is only fair once its peer is away (the write
  fails when the buffers of the connection are full or TCP gives up). A peer that is
  there and does not read holds its `writePump` for ever. `ReadersLeave` holds all
  the same; `BufferedIsWritten` is about connections whose calls of `WriteMessage`
  come to an end (`[]<>`, its premise).

### Findings

1. `cancel_doc`: `process` marks whatever it pops as processing, so a cancelled
   notification whose message is in a list is posted and its row overwritten
   (`worker.go:144`; README.md:183).
2. `delivered_doc`: the scheduler pushes first and then sets all fetched ids to
   queued; a row a worker has delivered in between goes back to queued for good
   (`scheduler.go:102`; README.md:289).
3. `key_error_doc`: two creates with one key can both pass the lookup; the second
   is answered 500 (`notification.go:78`; README.md:138).
4. `archive_doc`: keys are looked up in the live table only, so they are free again
   after archiving (README.md:138), but the archive has the same unique index: a
   reused key makes every archive statement that selects its row fail as a whole
   (README.md:355).

Smaller disagreements, met while translating and read off one line, have no run:
`WORKER_MAX_RETRIES` bounds retries and not attempts (`worker.go:238`; README.md:310,
the theorem `AttemptsAreBounded` states what holds); `Notify` drops events when its channel is full
(`hub.go:56`; README.md:53); the archive may move a row that is no longer completed
(`postgres/notification.go:210`; README.md:355 'Completed records'; `AnnouncedIsStored`
and `EventuallyCompleted` make room for such rows); the channel of a template is never compared with the
channel of the request that names it (`service/notification.go:102`; README.md:191).

Also met and stated as hazards: a message popped before a crash, or pushed by a
request that failed, is lost while its row says queued or processing.

## Proofs

The theorems hold for all values of the constants that satisfy the named
assumptions of the modules: any numbers of notifications, workers, requests,
retries, clients, events, and any capacities and batch sizes.
TLC checked them first: the strengthenings below as further invariants of the
same configurations, and `KeepsWeakPromise` across stops and restarts in an
instance of `Lifecycle` with every fault and one failure. `MessagesGetNearer` and
`WaysAreCounted` were checked like that in the configuration of `promise`, `CallsGetShorter`
in that of `requests`; no run lists these three.

Every invariant proof has the same shape. A state predicate `I` that is
inductive is established by `Init`, kept by `I /\ [Next]_vars` (a lemma per process,
a case per action) and implies the property. Most properties are not inductive;
what they need besides is given here.

### Delivery under every fault

For any `Faults`, `MaxFaults` and `MaxRetries`:

- `TypeCorrect`: `TypeOK` is inductive. Its conjunct on busy
  workers ("holds a message") is what makes `wmsg[w].id` meaningful elsewhere.
- `AttemptsAreAccounted`, `RetryCountIsHonest`, `ReceiptsAreGenuine`,
  `FailureIsExhaustion`: none of the last three is inductive. A row becomes failed
  because of the count in a message, and a scheduled row's message takes its
  count from the row: so one needs that every message anywhere counts no more
  retries than attempts made (`Backed`), that a worker about to count has one
  attempt in hand that its message does not count yet, that a worker about to
  mark a row delivered holds what an acceptance was answered with, and, since
  copies of one message may be about to be counted at the same time, that the row's
  count plus the number of workers about to increment it does not exceed the
  attempts (`CountsBacked`; this needs `Workers` finite). `TypeOK /\
  AttemptsAccounted /\ Outcomes` is inductive, where `Outcomes` is the two
  properties of the rows. TLC checks the same strengthening in `faults`.
- `ArchiveNeverChanges` (an action property): no id has a row in both tables
  (`ArchiveSettled`). Given that, every step either
  leaves the archive's rows alone (`UPDATE ... WHERE id` finds no archived row,
  INSERTs use new ids) or moves rows into it as they are (`KeepsArchive`). Nothing is said of the status
  they have: that of a row selected as completed may change before the DELETE.
- `CancelOfUnheldIsFinal` (an action property): messages come from messages, from
  new rows or from pending rows. The invariant `Sourced` says that an id without a
  row has no status, so that no INSERT reaches a cancelled one, and that what is
  in the scheduler's pipeline is either fetched (`sids`) or, unless a pipeline was sent
  again, still in the retry set. With pipelines sent twice a message may come back that
  has no copy left, which is why `MayBeResent` has to be excluded besides.
- `PipelineKeepsWeakPromise`: `Spec => KeepsWeakPromise`. A step is compared with
  `WeakPromise` for one notification at a time: `Idle` says that there is no copy of
  it, none that may be sent again and no row to be fetched, and `StaysIdle` that this
  lasts, which makes closed final. Three facts from before the step are needed: what is announced is what was
  counted or accepted (`AttemptsAccounted`, and `AnnouncementsBacked` for a worker
  that has stored its outcome and not yet told of it), an id that has no row has
  nothing anywhere (`FreshIsIdle`), and where a pipeline's copies come from
  (`Sourced`). Together with `TypeOK` they are the inductive invariant `WeakBasis`.

### One copy, one outcome

`DeliveryOutcome` is about notifications without a `scheduled_at`. Its theorems
have a hypothesis on `Faults`, and each hypothesis is what the theorem needs: a
pipeline that is cut short leaves retries in the set that were already pushed,
and a command sent twice makes a second message, so without `Reliable`
(`pipeline` and `resend` not in `Faults`) there are two copies and two outcomes. A skipped
UPDATE leaves a row that does not show what was announced, so
`AnnouncedOutcomesAreStored` needs `status` not to be in `Faults` as well; a crash
loses the message a worker holds, so `NoneIsStranded` is for `Faults = {}`.
Failures of the provider are never restricted.

- `CopiesStayOnTrack` ([]`EveryCopyOnTrack`) is the invariant the rest comes from.
  That there is one copy is not inductive alone: the retry set holds payloads, and a
  retry that is pushed is only removed if its payload is the member, while a worker
  that found its message one attempt behind would retry past the limit. `OnTrack`
  therefore ties the count in the one copy to the attempts made, by the step the
  worker has reached (`Ready`, `InStep`). The proof does not go through the pairs of
  places a message may be in, for every action: a lemma per action says that a step
  leaves a notification calm (nothing of it moves, or its copy disappears) or is the
  next step of its one copy, and another lemma that such steps keep `OnTrack`.
- `CopiesAreSingle`, `OutcomesAreUnique`, `AttemptsAreBounded` are conjuncts of it.
- `WaysAreFinite` is about circulation, for any `MaxRetries`: a retry goes back to the
  list it came from, so no order of the places alone shows that this ends.
  `StepsFrom` counts ten for each attempt the message has left and the steps of its
  round (`Legs`); while there is a copy it is a positive number, and each step leaves
  the copy where it is, removes it or makes the number smaller (`Advances`, proved
  beside `Moves` by the same cases). With the fairness of the goroutines this is why
  `EventuallyDrained` holds for notifications without `scheduled_at`.
- `OutcomesAreFinal` needs `NotShownEarly`: a row says delivered or failed only when
  the one worker that holds the message is about to announce it, or no copy is left.
- `AnnouncedOutcomesAreStored` needs `Told`, which relates row, announcement and the
  step of that worker; `NoneIsStranded` needs `GoneWhenTold`: without failing calls a
  stored message disappears only when its outcome has been announced.

### The promise

- `PipelineImplementsPromise`: `Spec => ImplementsPromise`, the initial states and
  each step under the mapping of `DeliveryRefinement`. Projected on one
  notification a step is one of those above, and each is an action of
  `NotificationPromise` or changes nothing the mapping sees.
- `StopsLoseNothing`, `StopsImplementPromise`: under `LifeSpec` a step is a step of
  `DeliverySystem` or one of the stop, which are shown to be such steps or to
  leave each message where it is (a pipeline that is finished, a pop under way
  when the pool is told to stop). So the invariants above hold there (`Sound`), and
  `StoppedInOrder` says which goroutines are at rest in which phase: that is what
  turns "under way" into "in Redis" when the process is down.
- `StopsKeepWeakPromise`: `LifeSpec => KeepsWeakPromise`, for scheduled
  notifications and every fault, without `StoppedInOrder`: a stop only drops what
  the scheduler still had to do (`GivingUp`), which keeps `WeakBasis` and
  can lose a notification but neither try nor announce it.

### Keys

`KeysAreUsedTwiceAtMost` rests on one fact per table (`Unique`): each statement
checks the index of the table it inserts into.

### Requests

`RequestInv` says of each request, by its step, what `ready` and `inserted` are
(`Progress`) and what the rows in memory have passed (`Checked`): the check and
the INSERT are many steps apart, and the template may be gone by then. `RequestsAreTyped`
and `StoredRowsAreValid` follow from it; `RequestsStoreAllOrNothing` also from
how many rows of a request are stored, `KeysAreHeldOnce` from the
index seen by each INSERT (`RowsStep`, `HeldStep`: a step either leaves the rows
alone, rolls back, commits or adds one that fits). A request may end with an error of
the server after its rows were stored, so of those the theorem says all or none. A
rendered text has a length (`RenderedLength`), which is why a limit can be held: the
length is a fold over the placeholders of a body, of any finite number. As induction
over data is out of reach, the proof takes a smallest set of placeholders whose fold
were no number (`SmallestSet`, from the well-foundedness of the naturals).

Two theorems are about waiting, with no bound on requests, items or keys:

- `WaitsComeToAnEnd`: a set of waiting requests that contains whomever they wait for
  has a smallest non-empty part of which each waits for one of the part; in it
  each is also waited for (`CirclesClose`), so it is a circle, and `Deadlocked`, the
  model of Postgres' deadlock detection, finds it. Whoever is waited for is
  under way (`WaitedForIsRunning`): nothing waits for a request that has ended.
- `CallsAreFinite`: `StepsLeft` counts the items to check and the rows to insert. A
  step of a request makes it smaller, and the steps of others leave it alone.

So in every state with unanswered requests some request can take a step, and each
request has finitely many to take. `EveryRequestIsAnswered` follows with the
fairness of `RequestStep`; that last, temporal step is what TLC checks on an
instance and the prover cannot do.

### Metrics

`CollectorInv` has two parts. `RecordingInv` is about what each worker has yet to
add: once to each counter, the latency before it is counted (`SumFirst`), of one
channel (`OneChannel`), with the sum at least the smallest latency times the latencies
counted and those of workers between the two adds (`LatencyCounted`).
`SnapshotInv` is about what is yet to be loaded: the sum after the number, the channels after the
totals. `View`, what a snapshot will at least show, lets both be
stated in the middle of a snapshot (`SumSeen`, `ChannelsSeen`), which is
where the order of the adds meets that of the loads.

### Hub

- `RunNeverPanics`: a client is in the map or closed, not both (`MapIsOpen`), and one
  that Run does not know yet is in `register` at most once and never again after
  Run took it (`RegisteredOnce`): so Run cannot put a closed client back into the map,
  not even one it unregistered before.
- `ConnectionsHaveNoGaps`: `OrderInv` gives the place of each connection in the
  order of events: what `WriteMessage` was called with follows its registration (`Got`), its channel
  follows that as long as the connection is open (`Queued`), and a client of the map
  misses nothing but an event Run has yet to offer to it (`Complete`). The event in Run's
  hands is the last that was broadcast.

### Model-checked only

All liveness (`KeepsPromise`, `EventuallyCompleted`, `EventuallyAttempted`,
`EventuallyDrained`, `StopCompletes`, `EveryRequestIsAnswered`, `ReadersLeave`,
`BufferedIsWritten`): the prover does not handle fairness and ENABLED. The four
documented claims that do not hold have counterexamples instead. Every invariant
and action property of a passing run is a theorem.

## Not modelled

- The arithmetic of the backoff (it only decides when a retry is due, and any retry
  may be due at any tick here) and the rate limiter (with a
  positive rate it delays; rate 0 is a hazard without a property).
- Operations that only read: Get, List with its paging, the queue depths of
  GET /metrics. What a page shows beside concurrent writes is decided by Postgres.
- UPDATE of templates: the service has none; `TemplateService` creates, reads and deletes.
- HTTP decoding and encoding, telemetry, middleware, health checks, the migration
  runner, generated documentation: no state of the service depends on them.

## Plan

Modelled: the delivery pipeline, its abstract promises and the refinements, orderly
stops, keys, hub, requests with templates and validation, metrics.

Proved: every safety property of the passing runs and all refinements (the strong
promise without duplicates, the weak one under every fault, both across stops); and
what the liveness of requests and messages rests on besides fairness: a
measure for each, and for requests that somebody can always go on.

Left:

1. A measure for scheduled notifications and for duplicates, which has to count the
   failures left, as each may add a message.
2. What a pump may still write after Run has stopped, beyond `NoGaps`, and that in
   the hub and in a stop some goroutine that is waited for can go on.

Out of the prover's reach and left to TLC: liveness and everything under fairness.
