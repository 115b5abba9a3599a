# Verification of ScaleQueue

TLA+ specifications of the durable job queue in `src/`, the TLC configurations
that check them on small instances, and proofs checked by TLAPS. Paths below
are relative to `src/`; `worker-service` and `api-service` are shortened to `W`
and `A`.

Contents: [inventory](#1-inventory), [modules](#2-modules-and-how-they-correspond-to-the-code),
[runs](#3-runs-bounds-and-fairness), [proofs](#4-proofs),
[findings](#5-findings), [limits](#6-what-is-only-model-checked-what-is-left-out),
[plan](#7-plan).

## 1. Inventory

A client posts a job to the API. The API stores it in MySQL together with an
*intent* to dispatch it. In every worker process one dispatcher publishes due
intents to a Redis stream, and several read loops take deliveries from a
consumer group, claim the job in MySQL with a lease, run its handler while a
heartbeat renews the lease, persist the outcome, and acknowledge the delivery.
MySQL is the authority: a delivery only says "look at this job again". A browser
page shows the jobs and replays dead ones through the same API.

| Component | State | Operations | What makes it correct |
| --- | --- | --- | --- |
| Job store (`W/internal/db/mysql.go`, `A/src/services/jobService.ts`, tables of `A/migrations`) | `jobs` (status, generation, attempt_count, lease, due time), `job_outbox`, `job_audit_logs` | `createJob`, `requeueJob`, `Claim`, `Renew`, `Finish` | accepted work is never lost; one live lease decides a job; the attempt budget holds; finished jobs stay finished until a replay; the audit log has no gaps |
| Outbox dispatcher (`mysql.go` `Dispatch`, loop in `W/internal/worker/pool.go`) | an open transaction over one locked outbox row | select, look at the job, `XADD`, mark or delete | an intent is never dropped while it is needed and never marked before it is sent; a backlog is worked off |
| Stream consumer (`W/internal/queue/consumer.go`, `requeue.go`) | stream, group, pending entries (Redis); scan cursor (loop) | `Publish`, `EnsureConsumerGroup`, `Start`, `recover`, `handle` | a delivery is settled before it is acknowledged and is always found again until then |
| Job execution (`W/internal/worker/worker.go`) | two goroutines, two contexts, three channels | `ProcessJob` | no outcome after a lost lease; no deadlock, no leaked goroutine |
| Worker process (`pool.go`, `W/cmd/worker/main.go`) | contexts `stop` and `execution`, the drain timer | `Run` | a stop ends acquisition, grants the drain period, and ends the process |
| Retry backoff (`W/internal/retry/backoff.go`) | none | `ExponentialDelay` | bounded, no overflow, never backs off less than before |
| Enqueue API (`jobController.ts`, `jobService.ts`, `identity.ts`) | `jobs.request_key`, `jobs.request_hash` | `POST /jobs` with an `Idempotency-Key` | one key is one job, whatever is repeated, concurrent or lost; the hash tells requests apart by meaning |
| Replay API | rows of the job store | `requeueJob` | part of the job store |
| API server and authentication (`server.ts`, `middleware/auth.ts`, `db/mysql.ts`, `routes/jobs.ts`) | HTTP connections, the MySQL pool and its queue, the shutdown timer | `bootstrap`, `apiKeyAuth`, every route's use of the pool, `shutdown` | connections do not leak; every request is answered; stopping breaks no request and ends |
| Read API (`jobService.ts` `listJobs`, `listDeadJobs`, `getJobById`, `getJobLogs`) | none of its own; pages a client has read | four queries and two counts | a walk skips nothing; a total covers its page; the log explains the status |
| Dashboard (`dashboard/app.js`) | filter, table, buttons, timers, log window, fetches under way | refresh, filter, requeue, submit, logs | it comes to show what the server has; nothing stays busy |
| Migrations (`A/migrations`) | schema, half-executed migrations | up and down, statement by statement | interrupted upgrades keep budgets; what they leave is where the system may start |
| Configuration, metrics, handlers, scripts | see `PROJECT.json` | | see section 6 |

How they interact: API and workers share the tables (row locks, the unique
keys of `jobs` and `job_outbox`); dispatchers and read loops share the stream;
inside a process `Run` shares two contexts with every goroutine, and
`ProcessJob` shares channels with its heartbeat; handlers of the API share the
pool; the page's callbacks share its variables.

What is hard here, each with its line in `PROJECT.json` under `hazards`: the
dispatcher decides on a row it did not lock; commits whose reply is lost, at
every transaction; renewals and outcomes of superseded attempts that land late;
duplicate, early and old-generation deliveries; an acknowledgement that promises
somebody else will deliver again; recovery that takes over entries still being
handled; a backlog served lowest id first; an identity of requests that has to
survive ambiguous commits; a handler's result racing the refusal of its lease; a
stop at any moment of all this, in a worker and in the API; connections that one
request needs three times; pages and totals read without a transaction; answers
to the page that overtake each other; migrations that MySQL commits statement by
statement.

## 2. Modules and how they correspond to the code

| Module | Models |
| --- | --- |
| `JobLifecycle` | abstract: the state diagram of `docs/reliability.md` with generations and budgets |
| `JobStore` | the tables and every transaction that writes them; implements `JobLifecycle` |
| `JobStoreInvariant` | its inductive invariant |
| `Backoff`, `RetryDelays` | `ExponentialDelay` on integers that wrap; the waits it gives the jobs of `JobStore` |
| `DeliveryQueue` | abstract: an at-least-once queue, without ids, groups, scans or cursors |
| `ConsumerGroup`, `ConsumerGroupProofs` | the Redis stream, its group, and the read loops; implements `DeliveryQueue`; theorems |
| `ScaleQueue` | composition: tables, dispatcher, stream and worker loops; what they may acknowledge, and that they come to an end |
| `PipelineProofs` | theorems about `JobStore`, `RetryDelays` and `ScaleQueue` |
| `Heartbeat` | the goroutines of `ProcessJob` |
| `WorkerProcess` | `Run`, its goroutines and the shutdown |
| `Worker`, `WorkerProofs` | composition: a worker process with `Heartbeat`'s goroutines in one of its loops; implements both; theorems about all three |
| `Idempotency` | abstract: requests with keys, decided one at a time |
| `Enqueue`, `EnqueueProofs` | concurrent and repeated `POST /jobs`; implements `Idempotency`; theorems |
| `CanonicalJson` | the text that is hashed to compare requests |
| `ApiServer`, `ApiServerProofs` | bootstrap, routing, key check, handlers, pool, shutdown of the API; theorems |
| `ReadApi`, `ReadApiProofs` | paging, totals and logs, read while jobs go through `JobLifecycle`; theorems |
| `Dashboard`, `DashboardProofs` | the browser page and its fetches; theorems |
| `Migration`, `MigrationProofs` | the four migrations; a completed upgrade is an initial state of `JobStore`; theorems |
| `MC*` | instances for TLC: symmetry sets, inputs, the pure functions over their inputs |

`PROJECT.json` maps every definition to its lines. A definition commented "Bug
variant" is not part of any specification: it is a plausible mistake in the
definition that follows it, and each property has one it catches.

### JobStore

*One action is one transaction.* `createJob`, `requeueJob`, `Claim` and `Finish`
lock the row of their job before they read what they decide on (`FOR UPDATE`, or
a fenced `UPDATE`), and `Renew` is one statement, so each is atomic for the
others. `Dispatch` is the exception: it publishes between its read and its
commit and reads the job *without* a lock, so it is four actions
(`DispatchSelect`, `DispatchRead`, `DispatchPublish`, then `DispatchMark` or
`DispatchDelete`) with `DispatchFail` for the rollback at any point. A
transaction that changes nothing (a stale or busy claim, a refused fence) has no
action of its own, or only its effect on the caller (`RenewFails`, `Abandon`).

*Time.* Each timestamp column is a countdown to it; `Tick` advances the
database's clock, and 0 means reached or `NULL`. `NOW(6)` is the time a statement
started, so one that waited for the row lock decides by an earlier time than
that of its turn. A `Claim` then only sees more leases as live and more retries
as early, and it is repeated later. A fenced `UPDATE` sees every change the
lock's holder committed meanwhile; if there is none, the row was the same when it
started, and the model executes it then.

*Deliveries.* `sent` holds every `<<job_id, generation>>` ever added to the
stream, and `Claim` may be handed any of them at any time, any number of times.
That covers loss, duplication, reordering, recovery from the pending list, and
several streams' worth of history; what Redis really does with them is
`ConsumerGroup`. That a delivery was sent is a condition of `Next`, not of
`Claim`: in `ScaleQueue` a claim is made for the entry that is held, and that its
content was sent is a lemma (`SentOK`). At the start `sent` may already have jobs
of an earlier period, because Redis keeps its stream over a rollback and an
upgrade.

*Failures.* Every commit may be applied without its caller knowing
(`ClaimReplyLost`; for `Finish`, the action followed by a redelivery;
for `createJob`, module `Enqueue`). `Abandon` is the crash, panic, timeout, refused
`Finish` or failed statement: the attempt disappears, the tables stay. A
`Renew` in flight may outlive its attempt (`beats`).

*Data.* Only the latest audit row per job is kept, because "no gaps" is a
relation between consecutive rows. `retry_count` (always `attempt_count - 1`
where it is read), `error_message`, payload, type and priority are left out:
nothing decides on them. `starts` and `succeeded` are history variables.

*Start.* `Init` is an empty table or what the durable-delivery migration leaves:
PENDING with some attempts already used, FAILED, DEAD. `Migration` shows that it
leaves nothing else. The migration turns PROCESSING rows into PENDING without an
audit row; the model's history starts after it.

*Delays.* `Finish` takes any delay of the constant `Delays`. Which waits the code
really gives is `Backoff`; `RetryDelays` looks at them for the attempt that is
about to be rescheduled and all that may follow (`DelaysBackOff`). `job_store`
evaluates them on narrow integers, where one more doubling would overflow; the
theorem covers Go's. The condition on them is `BackoffAssumption`: 512 seconds fit
into a `time.Duration`, and a shift by eight is shorter than its width.

### ConsumerGroup

Publication, `XREADGROUP ... >`, `XAUTOCLAIM` with its cursor, and `XACK`
over entries with growing ids (Redis derives ids from the clock, so they grow
across a loss of data too). The owner of a pending entry decides nothing in the
commands used, so the pending list is a set of ids. `idle` marks those that have
waited for `RECOVERY_IDLE`, possibly while being handled (the default is shorter
than `JOB_TIMEOUT`). Each command may be executed and its reply lost. `Exit`
stops a loop anywhere; read loops start and stop independently, which covers
several processes and every order of their restarts. `LoseStream` is Redis coming
back empty. `ProcessJob` is abstracted to "returned nil" (`ProcessOk`, the
delivery is settled) or not (`Retain`). `XAUTOCLAIM`'s internal limit of ten
entries examined per entry requested is not modelled: it makes scans shorter, and
the next one continues from the cursor all the same.

All of this adds up to `DeliveryQueue` (`ImplementsQueue`). An entry is *waiting*
while it is undelivered or on the pending list; a loop *holds* its batch; what
`ProcessJob` returned nil for is *handled*. Loops take only what waits, what they
acknowledge they hold and have handled, an entry is put once, and nothing but a
loss of the whole stream takes an entry away otherwise. So no delivery is lost
(`NoDeliveryLost`), and none comes back once it is acknowledged, although a new
group starts at "0", ids are all `XACK` goes by, and a loop may still hold entries
of a stream that is gone.

### ScaleQueue

`JobStore`'s actions, each on behalf of the entry that a worker's loop holds, and
what the loop then does with the entry: `Ignore`, `Bury` and `Settle` acknowledge
it; `Postpone`, `LoseClaim` and `GiveUp` retain it. What only `ConsumerGroup` can
show (order, cursor, group, lost replies of Redis) is abstracted: `Read` takes any
entry nobody has, `Recover` any pending one, also while its owner still
handles it. Failures outside an attempt are bounded (`MaxFaults`): a rolled-back
dispatch, a failed claim, a failed acknowledgement, an entry that Redis forgets.
Failures inside an attempt need no bound, since they use the attempt up. Of
several copies of one delivery as many as `MaxCopies` are kept; a
further `XADD` is taken for one of them. A restarted process appears under its
old names, which is the only way in which worker ids are used twice here;
in the code each has a new id, and `JobStore` needs only that they differ.

### Enqueue and CanonicalJson

One handler per pool connection, from `Receive` to its answer. A client knows what
it asks for (`input`) and may write it as a different body each time: members in
another order, defaults written or omitted. `hashed` is the text of a body from
which its hash is made, and all that a handler compares. `Insert` waits while
another open transaction holds the same unique-index entry. Any statement, commit,
connection or answer may fail or get lost, and clients without a final answer send
again, in parallel with an earlier handler that still runs. A key stands for the
digest of client id and `Idempotency-Key`.

`ImplementsPromise` is linearizability: seen from the rows and the answers,
each request is decided at one moment (`Idempotency`), the winner of the unique
index at its commit and everybody else when the row is found. Its answers are
`AcceptedIsStored`, `SameKeySameJob` and `ConflictIsReal`.

`CanonicalJson` has that text and what it should stand for. `canonical` is the
recursion of `identity.ts` over the parsed body (members sorted, arrays in order,
defaults filled in, nesting in brackets), a text of tokens; `Meaning` takes an
object for a set of members. Its constants are the names, tokens and values
that occur, and `JsonAssumption` says of them what JSON and JavaScript guarantee:
values are nested finitely deep (`Depth`), names have an order (`Rank`), and no
name or scalar reads like punctuation. `HashIsMeaning` says that a request
that meets the row of its key finds equal hashes exactly when both ask for the
same.

### Heartbeat, WorkerProcess and Worker

`Heartbeat` is `ProcessJob` and its heartbeat as two goroutines over `ctx`, `task`,
`stopRenew`, `done` and `renewed`. A `select` with several cases ready takes any.
Calls of one worker follow each other; the heartbeat of a call that panicked may
still live beside the next call. It justifies two steps of `JobStore`: that
`HandlerReturns` has no renewal in flight (`FinishUnrefused`), and that a
renewal of an attempt given up may land late (a panic does not wait for it).

`WorkerProcess` is `Run` with its start-up loop, the watcher that bounds the drain, the
read loops with every test of `stop.Err()` as a step of its own, and the
dispatcher's loop. What an exit leaves behind in Redis and MySQL is `Exit` in
`ConsumerGroup` and `Abandon` in `JobStore`.

`Worker` puts `Heartbeat`'s calls into the first loop of `WorkerProcess`. Two steps are
shared: the loop's `Begin` starts a call, and the end of context `execution` is
the end of the context of the call under way (`ContextFollows`); the loop's
`HandleEnds` waits for the call. So the drain period, the handler's cooperation
and the heartbeat's own end depend on each other as they do in the process.

### ApiServer

A Node handler runs between two awaits without interruption, so a step is what
happens at one await. A request passes `apiKeyAuth` and its handler, each use of
the database taking one connection of the pool or waiting in its queue
(`AskPool`); `Results` says what a use may tell its caller, `Code` what the client
is told. `Send` has the order of `server.ts`: a body that is no JSON is refused
before anything else, a path elsewhere before the key is asked for, a path
that no job route has after it. A use ends well (`UseEnds`), its statement
fails (`StatementFails`), or, in the transactions of `create` and `requeue`, something
is thrown (`TransactionThrows`), and the same connection is used to roll back and,
after a duplicate key, to read the row there is; that may fail itself, and the
connection is released in `finally` (`Rollback`). The lists use two
in turn, `/health` uses one and then pings Redis. What the statements do to the
tables is in `JobStore`, `Enqueue` and `ReadApi`. `Signal` stops listening
and arms the timer of 30 s; `CloseServer` waits for the HTTP connections,
`EndPool` for the connections of the pool. The pool and the HTTP server are
libraries, modelled from how they are used.

### ReadApi

The reading client's session (`client`), over jobs that change as `JobLifecycle`
says, each change with its audit row and `updated_at`. `ReadRows` and `ReadTotal`
are two queries, as are the pages of a walk and a job and its log. Times are
seconds, like the columns, and rows that are equal in the column of `ORDER BY`
come in any order, each time anew. `Clamp` is what the controller makes of
`limit`.

### Dashboard

A handler of the page runs from one await to the next; a fetch is sent, served
and arrives in three steps, answers in any order. `Render` draws new elements,
so a button somebody still waits for may no longer be in the page (`attached`).
The server is a table of jobs of which some die.

### Migration

Each migration is a sequence of statements, committed one by one; `Abort` breaks
a run off between any two, a later `Up` or `Down` begins the migration anew, and
`db-migrate` records a migration after its last statement. Between runs, jobs may
be claimed and finished by the new release, which is abstracted to what it does to
`retry_count` and `attempt_count`; replays between two runs are not modelled. `Store`
maps the columns to those of `JobStore`, and `StoreSent` says what Redis may still have
of an earlier durable period: deliveries of any job that is PENDING or DEAD.

## 3. Runs, bounds and fairness

| Run | Asks | Instance | Why it is enough |
| --- | --- | --- | --- |
| `job_store` | safety of the tables, the waits between attempts, and the refinement of `JobLifecycle` | 1 job, 2 workers, 1 dispatcher, budgets {0,1}, lease of 2 units, 2 generations | transactions touch one job each; two workers give every takeover; a lease of 2 lets a renewal matter; two attempts and two generations give retry, exhaustion and replay; the theorems lift all of it to any number |
| `scale_queue` | an entry is acknowledged only when its work is settled, and jobs come to an end | 1 job, 2 workers, budgets {0,1}, 2 failures | retry and takeover with two failures at any two points; two loops with the same entry, one of which acknowledges it; replay is in `job_store`, and the theorem on acknowledgements covers any number of generations and copies |
| `scale_queue_backlog` | a dispatcher that serves the lower id again and again starves nobody | 2 jobs, 1 worker, 1 failure | both intents are due together and due again before either is finished |
| `consumer_group` | the stream is an at-least-once queue; deliveries are settled in the end | 1 delivery and a malformed entry, 2 loops, 1 loss, 1 other fault | two loops hold one entry; the malformed entry stands before the good one, so the cursor has to get past it; every failure at every point |
| `consumer_group_lost` | what the README says of a lost stream | 1 delivery, 1 loop, 1 loss | expected violation, section 5 |
| `enqueue` | idempotency as if requests came one at a time, the hash, and that every client gets a final answer | 2 senders, 2 connections, one key or none, 3 bodies, 1 fault; payloads nested three deep | winner and loser, each with a retry beside its earlier handler; a fault at every point; two bodies ask for the same in two ways (order within a member, a default), the third differs from them in nesting only |
| `worker` | the whole worker process | 2 loops, scans of 2, 1 call of `ProcessJob` | one loop executes while another still starts; a second entry follows a stop; the end of the drain meets every step of a call |
| `worker_process_start` | what the README says of shutdown | 2 loops, no call in detail | expected violation, section 5 |
| `api_server` | the pool, the answers, the stop | 3 clients, 1 connection, requests of every shape | somebody waits in the queue behind somebody else who waits; a list needs the connection three times; a failing rollback and the stop meet each of these |
| `read_api` | walks, totals and logs | 3 jobs in any stage, 2 changes, 3 seconds, pages of 1 and 2 | a page boundary between jobs; changes before, between and after the two queries of a page |
| `dashboard` | the page catches up and nothing stays busy | 1 job, 2 fetches at once, 1 failure, 1 death | two fetches overtake each other; the job dies again after its replay |
| `migration` | upgrades and rollbacks that break off | 2 jobs, budget 2, 4 steps of work, 4 rollbacks | two jobs in different states; a budget of 2 tells "one attempt" from "all" |

Bounds: `MaxGeneration` (replays), `Budgets` and `Delays` (sets of values),
`LeaseTime` and `RepublishAfter` (units of time), `MaxCopies` (stream entries with
one content), `MaxLosses`, `MaxFaults`, `Calls`, `BatchSize`, `MaxTime`,
`MaxChanges`, `MaxWork`, `MaxDowns`, `Slot` (fetches at once; a browser has no such
bound). `MaxCopies` also stands for what the dispatcher's 30-second interval
does: it keeps the stream from growing without end.

Deadlock is not checked where the modelled activity ends: all clients answered or
finished reading, `Run` returned and every goroutine ended, the API process
ended, a broken-off migration left to the operator.

Fairness is stated only for the liveness properties:

- `ConsumerGroup`: a loop that runs takes its next step; clocks advance; an
  unsettled delivery is published again (`Dispatch` keeps the intents of
  nonterminal jobs and republishes them); and a delivery handled again and
  again does not fail in MySQL every time (strong fairness of `ProcessOk`).
  Nothing restarts a process: `compose.yaml` has no restart policy, so
  `EverySettled` is conditional on a worker that runs, and on a group.
- `ScaleQueue`: time passes, dispatchers and loops take their next step, and a
  handler returns or is given up. An entry that can be taken again and again is
  taken: the stream is read in order and scans go through all of it (which
  `ConsumerGroup` shows). `Return` is strongly fair, because heartbeats come and go
  while a handler runs. Failures are bounded and owe nothing.
- `Enqueue`: handlers run to their end, and the pool's queue is first come first
  served (which `ApiServer` shows to be enough), so a client that keeps asking is
  received (strong fairness).
- `Worker`: goroutines run, database calls return, `ShutdownTimeout` passes, and a
  `select` does not take the ticker's case forever when stopping is possible. A
  handler is only assumed to return once its context is done, which
  `docs/reliability.md` calls cooperative.
- `ApiServer`: the event loop runs what is ready, and its timer. That MySQL ends
  its statements is assumed by `EveryRequestAnswered` alone (`DatabaseAnswers`);
  `StopEnds` holds without it.
- `Dashboard`: fetches are answered or fail, and a timer that runs fires.

## 4. Proofs

Eight modules have theorems. All rest on an inductive invariant `IInv`:
`Init => IInv`, `IInv /\ [Next]_vars => IInv'` with a lemma per action (or per
kind of action), and the property from `IInv`. The assumptions are those on the
constants (finite set of jobs, positive lease, `None` not a worker, ...), which
TLC evaluates in every run.

**PipelineProofs**, for any number of jobs, workers and dispatchers, any
budgets, delays and lease; three parts.

*The tables* (`JobStore`). Theorems: `TypeCorrect`, `Invariance`,
`IntentsAreDurable`, `RetriesOwnTheirDelivery`, `IntentKeysAvailable`,
`BudgetIsRespected`, `CompletionsAreReal`, `PublishedIsSent`,
`LeaseHolderDecidesIt`, `TerminalIsFinal`, `DeletesOnlyObsolete`,
`AuditTrailIsComplete`, and `Refinement` (JobStore implements JobLifecycle). Why
each part of the invariant is there:

- `OutboxInv`: intents never run ahead of the job's attempts. It keeps the unique
  key of the next intent free, so that no outcome is rolled back forever.
- `DispatchInv`: what an open dispatch has read stays true of the row it
  locks. Generations only grow and a terminal state is left only into the next
  generation, so "obsolete" is stable; this is what makes the unlocked read
  sound. It also says the row is available, so a retry's intent, still waiting,
  is neither marked nor deleted.
- `TaskInv`: an attempt is never ahead of its job, and if its worker still owns
  the lease it is the *current* attempt. The fence compares owner and
  generation but not the attempt number; this conjunct is why that is enough
  although one worker may claim the same job twice.
- `JobInv`, `StartsInv`: executions begun are at most attempts counted, which are
  at most the budget. The count precedes the execution, so lost replies only
  lower the number of executions.
- `FailedInv`: a legacy FAILED job was never dispatched, so no delivery can claim
  it before it is replayed (Claim itself would accept the status).

*The waits* (`RetryDelays`). `EveryDelayBacksOff`: for every attempt number and for
integers of every width the longest delay fits, `ExponentialDelay` neither
overflows nor panics, stays between a second and five minutes, and never falls
below half of what it was (`ClampedShift` has the nine values of the clamped
shift; below the sign bit nothing wraps). `DelaysAlwaysBackOff` carries that to
every transient failure of `JobStore`, whose attempts count from one
(`Attempted`), so that no shift is by a negative number.

*The pipeline* (`ScaleQueue`). `AcknowledgementsAreSafe`: an entry leaves the stream
by an acknowledgement only when its generation is finished or replayed, or the
next attempt has an intent of its own that is not published yet. `XACK`
asks for no lease and takes an entry from whoever has claimed it meanwhile, so
this cannot be seen from one loop. The proof needs three invariants at once:
`QueueInv` (a worker executes what its loop's entry asks for), `SentOK` (what is in
the stream or in the hands of a loop was sent, also after it was forgotten), and
`IInv` of `JobStore`, for the delivery that is read before its retry is due and for the
outcome that has just been stored. The lemma `StoreImplemented`
is a bridge, not a result: the actions of `ScaleQueue` are made of those of `JobStore`,
so its theorems hold of the pipeline. What the bridge has to prove is `SentOK`.
`PipelineIntentsAreDurable`, `PipelineRespectsBudget`,
`PipelineLeaseHolderDecides`, `PipelineTerminalIsFinal` and
`PipelineImplementsLifecycle` carry over those that matter most.

**MigrationProofs**, for any number of jobs, any budget, any number of
interruptions, rollbacks and steps of work: `Invariance`, `TypeCorrect`,
`UpgradesKeepBudgets`, `RollbacksCostOneAttempt`, `UpgradesStartJobStore`. The
invariant speaks of the statements of the durable upgrade that are still to
come (`Remaining`), whether a run is executing them or has broken off before
them: `Schema` says what is there in between, `Counts` which rows have been counted
and which not, `Kept` what a completed upgrade has left in rows and intents,
`Cost` how far rollbacks may have fallen behind. MySQL commits every
statement, so there is no step at which all four hold for a simpler reason.
`UpgradesStartJobStore` proves all of `JobStore`'s `Init` under the mapping `Store`,
where a finite set of jobs is what lets the rows of the outbox be numbered.

**ReadApiProofs**, for any number of jobs, any limits and any number of changes:
`Invariance`, `TypeCorrect`, `LogsExplain`, `TotalsCoverPages`,
`WalksSkipNothing`. The heart is `ToCome`: of a job that was in the list when the
walk began and has not been seen, the entries that come *before* it
(`Before`) number at least the offset, or it is on the page in hand. Entries before
it can only grow while none leaves the list (`ListsGrow`, `PlacesKept`); a job
that shares its second with no other has exactly one place in whatever order
MySQL returns (`PlaceOfJob`); so a page that ends before it is full, and the next
offset is still not beyond it.

**DashboardProofs**, for any number of jobs and of fetches under way: `Invariance`,
`TypeCorrect`, `ButtonsSendOnce`. A button that a request waits for is disabled
and is waited for by one request only (`Disabled`); drawing the table anew
detaches all of them, so a late failure finds only its own button.

**ConsumerGroupProofs**, for any number of loops, deliveries, losses and
faults: `Invariance`, `TypeCorrect`, `DeliveriesSurvive`, and the refinement of
`DeliveryQueue`, `StreamIsQueue`. `IdsInv` says that an id
names one entry, in the stream and in the hands of a loop, also across a loss of
data; `AckInv` that a loop about to acknowledge has settled the entry it will
acknowledge. Without the former an `XACK` of an entry from before a loss could
remove a new one. The refinement needs `QueueInv` besides: whatever is pending or
in the hands of a loop, and still in the stream, is not beyond `lastDelivered`,
and a group that does not exist has delivered nothing; so neither an
acknowledgement nor the creation of a group makes an entry new again. Every step
of a loop is then a change of its hands (`Hands`), a `Handle` or an `Acknowledge`.

**WorkerProofs**, for any number of loops, any size of scan and any number of
calls; three parts. Of `WorkerProcess`: `Invariance`, `TypeCorrect`,
`AcquisitionStops`, `DrainIsGiven`. `BegunInv` says that nothing is counted before
the stop and that a loop that has begun a delivery after it is past the last call
of `handle`; `DrainInv` that only the timer and the end of `Run` cancel. Of
`Heartbeat`: `OutcomesAreUnrefused`. A refusal is on its way (held by the
heartbeat, or in `renewed` with the heartbeat gone) until the call has returned;
since `ProcessJob` looks into `renewed` only after `<-done`, it cannot miss it. Of
`Worker`: the theorems of both parts hold of the whole process:
`WorkerTypeCorrect`, `OutcomesStayUnrefused`, `WorkersDrain`. For `WorkerProcess`
that follows from how its steps are reused (the lemma `ProcessImplemented`). For
`Heartbeat` (`CallsImplemented`) it needs an invariant of the composition,
`Serial` (calls follow each other): the end of `execution` ends the context of
*all* calls under way, and is a step of `Heartbeat` only because there is at most
one.

**EnqueueProofs**, for any number of clients, connections, keys and faults, and
any bodies: `Invariance`, `TypeCorrect`, `AcceptedRequestsAreStored`, `KeysNameOneJob`,
`ConflictsAreReal`, `HashesHaveTheMeaning`, and the refinement of `Idempotency`,
`RequestsOneAtATime`. `RowsInv` says what the unique index says of committed rows;
`OpenInv` what it says of open transactions: two that have passed it hold
different keys (`Apart`), and what a handler has learnt (its key is taken, its row
is stored) stays true, because rows are never deleted. The fault that matters is the
commit that is applied without its handler knowing: the row is there, nobody
refers to it, and the next request with the key meets it. For the refinement, a
commit enters a job (`CommitEnters`, also when its reply is lost), an answer is
one the book gives at that moment (`HandledEnds`, `AnswerTells`), and every other step is
silent.

All of it rests on one fact about the recursion, `RequestHashTells`: two bodies,
nested in whatever way, have the same text exactly when they ask for the same. That
members are sorted gives one direction. The other needs that a text can be read
back: a text that continues differently must not be mistaken for another value.
`ReadStep` therefore compares two texts with anything behind them, so that equal
beginnings give equal values *and* equal rests, member by member, up to a comma or a
closing bracket, which no name or scalar is. The library's induction
theorems cannot be used here (they take an operator), so induction over values
is by smallest counterexample: `WFMin` gives a value of least `Depth` at which a
statement fails, and its parts are less deep. `SortedIs` (a sort exists and is
the only one) is by the same argument on the number of members, and that the
recursive functions have the values their definitions say (`Recursion`, `JoinedIs`)
is proved by building them up, depth by depth and text by text. Besides
`JsonAssumption` it rests on what the texts leave out: that SHA-256 tells texts
apart.

**ApiServerProofs**, for any number of clients, requests and connections:
`TypeCorrect`, `PoolAccountsHold`, `ErrorsComeFromFaults`, `KeysGuardJobRoutes`.
`QueueOK` (the queue holds exactly the waiting handlers, each once) is what makes
handing a connection over at `release()` safe, on each path that ends a use;
`Flow` follows a request from its key to its answer, and says that nobody is
connected when the pool is closed, so nobody is told of its errors.

## 5. Findings

Two statements of the documentation that the code does not keep; each is the
only property of a run that TLC refutes.

1. *A lost stream does not heal while workers run* (`consumer_group_lost`,
   `LostStreamHeals`). The group is created only when a process starts
   (`W/internal/worker/pool.go:47`). After Redis has lost the stream, `XADD`
   creates it again without a group, and `XREADGROUP` and `XAUTOCLAIM` answer
   NOGROUP from then on, which the loops only log. `README.md:87`,
   `docs/reliability.md:61` and the comment at `W/internal/db/mysql.go:160` say
   republication heals it. It does after a restart: `EverySettled` holds whenever
   the group is there in the end.
2. *A stop during start-up grants no drain period* (`worker_process_start`,
   `DrainAlwaysGiven`). `EnsureConsumerGroup(stop)` of a later loop fails, `Run`
   returns, and its deferred `cancel()` ends what the first loops execute.
   `README.md:91` promises a bounded drain period. The interrupted attempt is
   recovered after its lease, as `JobStore` shows; it costs one attempt.

Observed while modelling, but contradicting no statement of the repository, so
the properties are stated around them:

- An answer to `openLogs` fills whatever log window is open
  (`dashboard/app.js:190-218`): opened for A, closed, opened for B, the window
  titled B may end up with A's log. `NothingStaysBusy` asks only that it does not
  go on loading.
- `setFilter` renders the rows at hand and fetches none (`app.js:41-46`), so the
  table shows jobs of another status until the next refresh; with "Manual"
  selected, until somebody refreshes. Hence `CatchesUp` needs the interval.
- A walk by offset can miss a job when a job before it leaves the list, which a
  replay from the dead-letter list does, or when two jobs share the second they
  are ordered by. Both are conditions of `WalkSkipsNothing`.
- A rollback of the durable-delivery migration keeps `retry_count` only, so going down and
  up again gives a job at most one attempt back (`RollbackCostsOneAttempt`);
  `docs/reliability.md:78` calls it "not a lossless operational recovery strategy".

## 6. What is only model-checked, what is left out

Only model-checked, because the prover cannot state or do it:

- every liveness property (fairness and ENABLED are out of its reach):
  `QueueDrains`, `EverySettled`, `EveryClientAnswered`, `EveryRequestAnswered`,
  `StopEnds`, `StopEndsRun`, the ends of `ProcessJob`'s calls and goroutines,
  `CatchesUp`, `NothingStaysBusy`.

Every other property of a passing run, invariant, action property or refinement, is
also a theorem.

Abstractions that the properties do not see, and what they cost:

- `ScaleQueue` runs have one generation; replay with liveness would need an
  instance beyond what can be searched. That a replay starts like a fresh job is
  `TerminalUntilReplay` in `job_store`.
- Losing the stream together with its group is `ConsumerGroup`'s matter; `Forget`
  of `ScaleQueue` loses entries and keeps the group.
- `Migration` knows nothing of audit rows; the mapping to `JobStore` puts there what
  `JobStore` expects. Nor does it run the old release after a rollback.
- A transaction that locks its row (`requeueJob`'s `FOR UPDATE`) and one whose rows belong
  together (`Finish` with its audit row) are one action each. The lock and MySQL's atomicity
  are assumed; a transaction that lost either would not be noticed.
- `QueueDrains` is checked with one generation, one copy of a delivery and a bounded
  number of failures. A publication that fails for good would keep the outbox waiting for
  good, in the code as in the model, and is not asked about.
- `PublishedWasSent` runs with one dispatcher; the theorem `PublishedIsSent` is for several.
- The table of the page (`Dashboard`) has no limit of 50 rows: it shows all of its few jobs.
- A run of the durable upgrade that breaks off after its first statement cannot be
  repeated, since MySQL refuses to add a column twice: it is completed only after a
  rollback. `UpgradeKeepsBudget` speaks of upgrades that are completed.
- Deliveries that are coalesced beyond `MaxCopies` are the same delivery; nothing
  counts them.

Not modelled:

- *Configuration and metrics*: parsed settings are the constants of the modules;
  nothing reads a counter back.
- *Handlers*: simulated work; their results and their cancellation are modelled.
- *`main`'s connections* to MySQL and Redis, opened before `Run` and closed after
  it; the signal and a failing health server are `Stop`.
- *Counters, banner, toasts and layout of the page*: drawn from the same answers as
  the table.
- *Scripts, CI and tests*: tools around the system.

## 7. Plan

In the order in which the modules were written, most important behaviour first:

1. `JobStore` with its abstract specification, invariant and proofs; then
   `ConsumerGroup`, `Heartbeat` and `WorkerProcess` with proofs, and `Enqueue`.
2. The compositions `ScaleQueue` (tables, stream, loops) and `Worker` (process and
   calls), with what can only be said of the parts together.
3. The pure functions `Backoff` and `CanonicalJson`, evaluated where the modules
   above rely on them.
4. The API's own process `ApiServer` with proofs; `ReadApi` and `Dashboard`.
5. `Migration` against the `Init` of `JobStore`.
6. The proofs of `Enqueue`, `Migration`, `ReadApi` and `Dashboard`, and of the
   waits between attempts.
7. The abstract specifications `DeliveryQueue` and `Idempotency`, and that
   `ConsumerGroup` and `Enqueue` implement them.
8. The request hash for bodies of any nesting, in place of evaluating it, and
   `Enqueue` over such bodies.

Left, in the order of what they would add: `ScaleQueue`'s own stream (entries with
copy numbers, one entry to a loop) as a `DeliveryQueue`, so that the composition
and the stream in detail meet in one abstraction (it needs a history of what has
been handled, since entries' ids are used again, and loops that may handle an
entry of their batch that another loop has acknowledged meanwhile, as in
`ConsumerGroup`; `JobStore` already lets any worker take any sent delivery at any
time); replay in the liveness of the
pipeline, on a larger machine.
