# maniflex: TLA+ models and proofs

maniflex is a Go framework that turns structs into a REST API with a request
pipeline, and brings along job queues, a transactional event outbox, scheduled
sweeps, idempotent requests, file fields, a realtime hub and SQL adapters. This
directory models the parts of it whose correctness depends on order, failure and
concurrency, checks them with TLC on small instances, and proves the central
results with TLAPS for every value of the constants. Module names, definitions
and line references follow the source; `PROJECT.json` maps each definition to
the lines it stands for.

## 1. The system

### 1.1 Modelled

**The SQL job queue** (`jobs/sql/queue.go`, `migrate.go`). State: the rows of
`job_queue`, with status, attempts, `lease_until`, `not_before` and headers.
Operations: insert (inside the request's transaction if there is one), claim,
expired-lease sweep, Ack, Nack, Requeue, Dead, quarantine, RenewLease, Cancel.
Any number of processes run these against one table. A claim is one statement
on SQLite; on Postgres it locks candidates with `FOR UPDATE SKIP LOCKED`, and a
partial unique index settles races between claims of one group key. Hard parts:
every outcome statement names its row by id alone, Nack is a read and then a
write, a committed claim may reach nobody, and a lease can lapse under a live
handler. Correct means: one running job per group key, no more handler starts
than `MaxRetry`, no finished job runs again, no job is lost.

**The Redis queue** (`jobs/redis/queue.go`). State: a stream read through one
consumer group, a sorted set of delayed jobs, and in each process a map from job
id to stream entry. Operations: enqueue, promotion of due jobs, Dequeue with its
reclaim of idle entries, RenewLease, Ack, Nack, Dead, Requeue. Hard parts: a
retry is an acknowledgement and then an enqueue, an attempt is only counted when
the job is enqueued again, and the map is keyed by job id, so a job delivered
twice to a process replaces its own entry. Correct means: as for the SQL queue,
from other primitives, with the gap between the two commands as the one place
where a crash may lose a job.

**The worker** (`jobs/worker.go`). State: a semaphore of handler slots, one
goroutine per claimed job, the run context. It claims, runs handlers, renews
leases, writes outcomes on a context that survives shutdown, hands on jobs of
types it has no handler for, and routes dead jobs to a dead-letter type.
Correct means: a handler that returned success is acknowledged even while the
process drains, a type nobody handles does not bounce for ever, a dead job
reaches the DLQ.

**The transactional outbox** (`events/outbox/outbox.go`). State: the rows of
`event_outbox`, with `shipped_at`, attempts, lease (`lease_id`, `lease_until`)
and `next_attempt_at`; in each relayer the batch it fetched. Operations: insert
in the business transaction, claim, select by lease, publish, markError,
dead-letter, holdForRetry, markShipped, sweep. Any number of processes run a
Relayer against one table. Hard parts: a whole batch runs under one lease that
is never renewed, every UPDATE names its row by id and drops its error, counting
the last attempt and acting on it are two statements, exhaustion is judged by
attempts read earlier. Correct means: an event is closed only once it is
somewhere else, none is stuck, one relayer has a row at a time, and with
`OrderedByKey` an aggregate's events go out in order.

**The idempotency middleware** (`middleware/idempotency/idempotency.go`, the
cache in `cache.go`). State: the stored response of each key and the table of
keys in flight. Operations: look-up, acquire, wait, second look-up, run the
pipeline, store, release. Requests of one key arrive on any replica, over stores
and locks that may or may not be shared. Hard parts: a request can miss the
store just before the holder fills it and reach the lock just after it was
released; a holder can fail, panic or die. Correct means: one execution per key
while nothing fails, no answer for another body, no success stored that was not
written, an answer for every waiter.

**The write path** (`steps.go`, `transaction.go`, `rollup.go`, `versioning.go`,
`cascade.go` and the transactions of `db/sqlcore`). State: the rows of two
related models, the history of one and the totals of the other, the open
transactions and their row locks. Operations: a
create, update or delete, statement by statement, on PostgreSQL (READ COMMITTED)
or SQLite (one writer). Hard parts: the guards of a write are reads that precede
it; rollups, history and cascades are further statements of the same request;
transactions may be opened by the route, by a guard, or not at all. Correct
means: what a guard checked still holds when the write lands, derived rows agree
with the rows they are derived from in every committed state, nobody waits for
ever, and an answer says what became durable.

**File fields** (`steps.go`, `stream_upload.go`, `handler.go`, `context.go`,
`server.go`). State: the objects in storage, the keys that records hold, and the
removals that run in the background after an answer. Operations: buffered and
streamed uploads, references to objects posted before, replacement, clearing,
the delete of a record, and the clean-up of what a failed request stored. Hard
parts: the keys to remove are those a request read before its write, and storage
takes no part in transactions. Correct means: no record names an object that is
gone, and no object stays that nothing names.

**The realtime hub** (`realtime/hub.go`, `resume.go`). State: the connections of
two transports, a bounded buffer and a subscription for each, a counter for
`MaxConnections`, the WaitGroup of pumps, and a bounded log of recent events.
Operations: admit, register, subscribe, fan-out, kick, replay from a cursor, the
pumps' loops, Shutdown. Hard parts: fan-out never waits, so a slow client is cut
off in the middle of a stream; a subscription is live before its replay runs; a
connection has six ways to end and two goroutines that notice. Correct means: a
client that resumes never goes past an event it did not get, the cap holds, and
Shutdown leaves nothing open.

### 1.2 Not modelled yet, in the order planned

| Part | State and operations | What makes it correct | Known hard spots |
|---|---|---|---|
| in-process queue (`jobs/inproc`) | ordered entries, running count per group key, one-slot wake-up channel | no claimable job waits while a consumer sleeps | the channel holds one pulse, so two jobs that become claimable at once wake one consumer (`inproc/queue.go:234`); an exhausted Nack frees its key without a pulse |
| status rows (`jobs/maniflex/mount.go`) | one row per job beside the queue | the status row agrees with the queue in the end | the row is created after Enqueue returned, when a worker may already have finished the job (`mount.go:288`); events and rows are published before Ack is durable (`worker.go:327`) |
| commit hooks, savepoints, hand-opened transactions (`transaction.go`, `scoped_tx.go`, `db/sqlcore/tx.go`) | hook queue, savepoint stack | hooks run after, and only after, a commit; a failed one neither undoes nor hides it | a hook that panics takes the rest with it (`transaction.go:135`) |
| cron, scheduled sweeps (`jobs/cron`, `scheduled`) | next fire times, a locker shared by replicas | an interval fires once, and is not lost | the interval is claimed before the enqueue, which may fail (`cron.go:169`) |
| lifecycle (`server.go`, `background.go`, `probes.go`) | phases, WaitGroup of tasks | shutdown waits for what was admitted | tasks may be scheduled while Wait already waits (`background.go:89`) |
| event bus (`events`, `events/inproc`) | subscription groups, retries | each group gets an event; exhausted ones are dead-lettered | |
| token revocation | revoked ids, cut-offs, local caches | a revoked token is refused from then on, within the cache's bound | |
| backoff, cursor, rate limit, circuit breaker | arithmetic and small state machines | agreement with a reference definition | `relayBackoff` shifts without a bound (`outbox.go:560`) |
| saga, ledger (`pkg`) | step log; postings | compensation in reverse order; entries balance | |

The sweep of the SQL queue ends spent rows by one statement and so bypasses DLQ
routing, events and the status sink (`jobs/sql/queue.go:457`). `JobSystem` has
that statement; whether its silence is intended is not a question of order.

### 1.3 Left out

Models, registry, tags, routing and configuration are built once by reflection
and sealed before serving. OpenAPI/AsyncAPI generation, the admin pages and
exports are formatting. The local file store and the S3 client are I/O on
external services; `FileFields` has what the steps do with them. The Kafka, NATS
and RabbitMQ adapters are clients of brokers that are not in the repository.
JWT, ABAC, validation and response middleware decide one request at a time from
immutable configuration. Encryption is a conversion; what matters of it to the
queue, which process can decode which row, is a constant of `JobSystem`.

### 1.4 Interactions

A request handler writes rows, enqueues jobs and publishes events inside its
transaction (`transaction.go`), so they appear together when it commits; the
idempotency middleware wraps the handler, file fields are handled by the steps
around it. Workers in any process drain the job table or the Redis stream;
relayers drain the event table into a broker; cron and scheduled sweeps enqueue
or write through the same adapters, claiming their interval from a lock shared
by replicas. The realtime hub is fed by the event bus. The only shared state
between processes is the database, Redis or the object store, so each model's
atomic step is one statement, command or call of it, and within a process one
goroutine's run between two such steps, or between two acquisitions of a mutex.

## 2. Modules

| Module | Models |
|---|---|
| `JobQueue` | the job table and each statement as an operator |
| `JobSystem` | processes, Run loops, handler goroutines, faults; EXTENDS `JobQueue` |
| `RedisQueue` | the stream, the delayed set, the pending maps and the workers that drain them |
| `JobLifecycle` | the abstract promise to a producer, which both queues implement: wait, run exclusively, finish for good |
| `Outbox` | the event table, its relayers and their faults |
| `EventFeed` | the abstract promise to the writer of an event: pending until delivered or buried, in order per aggregate |
| `Idempotency` | requests under one key, stores, locks and replicas |
| `Writes` | creates, updates and deletes, one action per database statement, with transactions and row locks |
| `FileFields` | requests that upload, name and drop stored objects, and the background removals |
| `RealtimeHub` | connections, buffers, fan-out, replay, pumps and shutdown |
| `MC*` | constant values for the runs |
| `JobSystem_proofs`, `RedisQueue_proofs`, `Outbox_proofs`, `Idempotency_proofs`, `Writes_proofs`, `WritesTables_proofs`, `FileFields_proofs`, `RealtimeHub_proofs` | theorems and proofs |

Definitions marked "Mutant" are wrong variants of the definition that follows
them. No specification uses them: replacing the right one by the wrong one must
break the property that `PROJECT.json` pairs them with, which shows that the
property depends on that line of the code.

### 2.1 The job model and the code

A row keeps what the statements compare: its status, its attempts, whether the
lease is absent, in the future or past, whether `not_before` has come, and the
unhandled-requeue counter of the headers. Time is what a statement learns from
comparing with `now()`; `OrphanLapses`, `LiveLeaseLapses` and `DelayEnds` move
it. The key, retry budget and ORDER BY position of a row never change and are
constants. Payloads, results, errors, priorities and tracing are left out.

`Lock` and `Dequeue` are the two halves of the Postgres claim and `Dequeue`
alone the SQLite claim; `n`, the number of rows asked for, is any number up to
the free slots, because the loop counts slots before it queries. `Conflict` is
the index violation that `Dequeue` retries. `Sweep` is `reclaimExpired`; it is
throttled in the code, so the model lets it run or not before any claim. A
goroutine goes `claimed`, `handling`, then `succeeded` (Ack), `failed` and
`nacking` (the SELECT and the UPDATE of Nack) or `dying` and `dlq` (the two
writes of markDead). `att` and `unh` are what Dequeue returned and may be older
than the row: that gap is where the interesting behaviour is. The histories
`starts`, `done` and `requeued` exist only for the properties.

Faults come from budgets: `MaxCrashes` deaths of a process at any point,
`MaxLost` calls or results lost, `MaxStale` leases that lapse under a live
owner. `DLQIds` bounds dead-letter copies; `DLQFull` is that bound and not code.
`MaxUnhandled` stands for `MaxUnhandledRequeues` (20 in the code, 1 or 2 here).

### 2.2 The Redis model and the code

`msg` is the stream with its consumer group: an entry is unread, pending, or
pending for longer than `ReclaimMinIdle`. Entry names are reused once no process
remembers them, so that finitely many stand for the ever new ids of XADD.
`Dequeue` is XREADGROUP or XAUTOCLAIM with `collect`, which counts the attempt in
memory and files the entry in `pending` under the job's id. `DequeueLost` is a
reply that does not arrive. `Settle`, `Nack` and `RequeueUnhandled` take the
entry off the map, `AckEntry` and `AckFirst` are the XACK, `EnqueueAgain` is the
second command of a retry; `CommandFails` and `Crash` may strike between any two.
A delayed job is promoted by a script, which is one step. A sorted set holds
equal members once, and the member is the whole job, so `delayed` is a set of
copies. `WithBackoff` are the jobs whose stored form does not decode: `Backoff`
of a `Job` is an interface without a JSON tag (`jobs.go:55`).

An attempt is written back only when the job is enqueued again, so each crash or
failed command may give a job one more run than `MaxRetry`: `MaxStarts` says so.
Entries are handed out one at a time, `GroupKey` is not used by this queue, and
routing to a DLQ is in `JobSystem`. `New`, `EnsureGroup` and `Close` are left out,
and a process that drains in order is one that does not dequeue or renew for a
while.

### 2.3 The outbox model and the code

A row is its status, attempts, lease (`none`, `held`, `lapsed`), the relayer
whose `lease_id` it carries and whether `next_attempt_at` has come. Every relay
call has a fresh `lease_id`, so `owner = r` means "r's latest claim", and a new
claim of r takes its name off the rows of older ones. `Claim` and `Fetch` are
the UPDATE and the SELECT of `relay`. The batch is a set: the SELECT has no
ORDER BY. `Deliver`, `Refused` and `Undecoded` start `processRow` on any row of
it; then `erring` (markError, and `AfterError` decides by the fetched attempts
`att`), `deadletter` (`routeToDLQ`), `holding` (`holdForRetry`), `shipping`
(`markShipped`). A refused publish may have reached the broker all the same.
`Halt` is the end of a relayer's context, its SELECT failing, or its death; all
leave the rows as they are and the batch forgotten. `StatementFails` is an
UPDATE whose error the code drops. `failed` is a history variable.

`Insert` assumes that transactions writing one aggregate are serialised by the
lock on its row, so `created_at` is in commit order for each key. Where writers
of one key do not share such a lock, an older event may appear after a newer one
was shipped, and no relayer could order them.

### 2.4 The idempotency model and the code

All requests of the model carry one user and one key; `Body` is the fingerprint
stored with the response. `At[r]` is the replica a request runs on, `StoreAt`
and `LockAt` the cache and the Locker of that replica, so that one store may be
shared while the locks are local (the default `inProcessLocker`), or both.
`Waits` tells a Locker that makes the second caller wait from one that returns
at once. `FirstLookup`, `Acquire`, `LockedLookup`, `Execute`, `Respond`
and the two halves of `release` (`Delete`, `Close`) are the steps of
`Middleware`; `Woken` and `Recheck` those of a waiter; `Fail` any end of the
pipeline that is not a stored 2xx, before or after its write is durable.
`Expire` is a store that drops an entry, `Crash` the death of a replica, which
takes its local locks along. A lock of an external Locker that expires while its
holder runs is not modelled: the middleware asks its Locker for exclusion and
nothing in it handles the loss.

### 2.5 The write model and the code

There are two models, children and parents. A child carries the `lock_when`
condition (`locked`), may be versioned, belongs to a parent through `fk`, and is
counted in the parent's `total`; parents are soft-deleted, so that onDelete is
carried out by `cascade.go` and not by a constraint of the database. `ver` counts
a row's writes and stands for the representation an ETag is taken of. `cfg` is
the registration: the driver, whether there is a rollup and a history (and
whether it is required), the onDelete action, a scope hoisted by `ProvidesScope`,
`lock_scope`. It is chosen once, and a run tries several.

`row` is the committed image of a row, `lk` the transaction that holds its row
lock, `unc` the image that transaction sees. A request goes through the steps
that apply to it, in the order of the code (`ToValidate`, ..., `AfterDB`):
`Validate`, `WithTransaction`, the rollup's reading of affected parents, the
pre-image of the history, the guards of the DB step (`EnforceWriteScope`,
`LockWhen`, `EnforceOptimisticLock`, `EnforceParentScope`), onDelete (restrict, or
pages of children that are written one by one with their own history and
rollups), `LockScope`, `Write`, the commit if a guard opened the transaction,
the history row with its retry on a version that is taken, the recomputation of
each total (`LockParent`, `Aggregate`, `StoreTotal`) and the commit.
A refusal unwinds all of it (`Refuse`). On SQLite a statement that
writes waits for the one writer connection and `FOR UPDATE` is a plain SELECT;
on PostgreSQL statements wait for row locks, and a cycle of waits makes one of
its members the victim. `told` is a commit hook that ran. `MaxFaults` bounds
failing statements and commits whose answer is lost.
The id of a create is new: no row has it and no other request names it
(`FreshAssumption`; ids come from `uuid.New`). A row that the requests find has
one history row for each of its earlier writes.

### 2.6 The file model and the code

A record is reduced to the set of keys its file field holds, one key or a
`FileKeys` list, and a version. A request reads the old keys (`ReadOld`), stores
its object (`Store`; a streamed one is tracked before it is complete), checks
If-Match, writes bare or in a transaction, and after the answer dooms what the
write dropped (`Respond`), or what it stored itself if it was refused (`Refuse`);
a delete dooms the files of its record right after the statement (`AfterDB`).
`Remove` is a background task. `Fault` bounds crashes, panics, failed removals,
failures after the write, and commits that report an error: one that rolled back
(`CommitLost`) or one that is durable all the same (`AnswerLost`).

Before it sends, a client has read the records. It may post an object and name
its key, and may name any key it knows (`Known`): those of the record, those of
other records and those that others posted, as `handleFileKeyReference` and
`verifyFileKeys` accept every stored key of the caller's scope. The model has one
scope. `loose` remembers the names that neither the client's own upload nor
If-Match vouches for.

Null reaches `handleFileClear` for nullable fields only: the Validate step, which
runs before it, refuses the null of a field whose type is no pointer, a list
included (`steps.go:568`, `441`). `Blind` are the writes that have nothing removed:
all those of a `*string` field, and the empty string for a single key, which
`processFileFields` passes by (`steps.go:731`). The same blindness holds for a
field of a named string type.

Not covered: soft-deleted models, fields without `auto_delete`, fields of type
`*FileKeys` (which register but get none of the rules of a list), `DELETE /files`
and its access rules, two file fields on one model.

### 2.7 The hub model and the code

Events are numbered as the resume store numbers them, and a frame is a number or
the resync message. `conn` is a connection as the server has it, with the
progress of the SSE handler or of the two WebSocket pumps; `client` is what the
program at the other end knows: its cursor, and the newest event its state
reflects. A client that is told to resync, or has no cursor, fetches the current
state. The histories `lost` and `excused` say of a client's latest connection that
the client went past an event it never got, and that it met one of the windows
that `NoSilentGap` excepts; the next connection starts with neither. A restart of the
process starts a new store (`epoch`) and forgets all connections.
A client has one connection with one subscription; several subscriptions,
control messages in the buffer, framing, origin and access checks, and a second
connection that overlaps the rest of the first are not covered. The three defers
that end an SSE handler are one step. `Shutdown` whose context runs out stays
`waiting`.

## 3. Runs

| Run | Instance | Question | Result |
|---|---|---|---|
| `jobs_sqlite` | 2 jobs of one key, 2 processes, 3 slots, 1 crash, 1 lost call | inductive invariant, exclusion, retry budget, finality, refinement of `JobLifecycle` | holds |
| `jobs_mixed` | a job and a DLQ copy, keyed and unkeyed; one worker lacks a handler, the other a key; 1 crash, 1 lost call | a success is acknowledged; a death the worker decides is routed; a job is handed on `MaxUnhandled` times before it dies for want of a handler; every job finishes | holds |
| `jobs_stale` | Postgres, a live lease lapses, 1 crash | one running row per key all the same, and every job finishes | holds |
| `redis_faults` | 2 jobs, one that does not decode, 2 stream entries, processes with 2 and 1 slots, one without a handler; 1 crash or failed command, 1 live entry that goes idle | no job is forgotten; refinement of `JobLifecycle`; every job is settled | holds |
| `outbox_ordered` | 2 events of one aggregate and 1 without, 2 relayers, batches of 2, 2 attempts, 3 refusals, 1 lost statement, 1 halt | one relayer per row, exhausted rows stay claimable, per-aggregate order, refinement of `EventFeed` | holds |
| `outbox_lapse` | 2 events, one undecodable, 2 relayers, all faults and a live lease that lapses | nothing dropped; every event resolved unless a stranded row blocks it | holds |
| `idem_races` | 3 requests, 2 bodies, 2 replicas with a shared store and local locks, 1 error, expiry, lock error and crash | one execution per lock while nothing fails; right and durable answers; everyone answered | holds |
| `writes_paths` | 2 requests out of 24 kinds, 3 children, 2 parents, 2 tenants, pages of 1, 2 tries, 1 fault; 6 registrations on both drivers | inductive invariant; exact rollups and histories; true answers; no cycle of waits; no lost update; scopes and locks respected; no orphaned child; every request ends | holds |
| `files_races` | 2 requests out of 14 kinds on a record with one file, one with a list and one, of a nullable field, to be created; 4 keys, any known one may be named; 1 fault | no dangling key, no orphaned object, outside named cases | holds |
| `files_lost` | the same | `FailedWriteKeepsFiles` | violated |
| `files_cleared` | null, and deletes, of a record with a nullable field; no fault | `OldFilesRemoved` | violated |
| `hub_resume` | one client of each transport, buffers of 1, 2 retained events, a cap of 1, 4 events and 1 after a restart | no silent gap, the cap, nothing left open, shutdown ends | holds |

Bounds. Every hazard of the list needs at most two processes or requests, two
jobs, events or rows that meet, and one fault at the worst moment. Three refusals
let an event of the outbox exhaust its two attempts and have its dead letter
refused too, after which the hold must give it one more. Two attempts are the
least with a retry. Three requests under one idempotency key are the least with
two waiters; two bodies with one replayed and one refused. Two parents are the
least with a move and with a wrong order of locks, three children with two to
cascade over and one that is created meanwhile, pages of one the least that make
a cascade take several. A buffer of one and a log of two, against four events,
fill, overflow and evict. A process with two slots is the least on which a job
can be delivered twice.

The job runs check for deadlock, since a worker can always poll. The others say
`CHECK_DEADLOCK FALSE`: those models rightly come to rest once every event is
resolved, every job settled, every request answered, every hub drained.

Each violated run checks a sentence of the repository, which `PROJECT.json`
quotes:

- `files_lost`: the files of a deleted record are removed after the statement but
  before the commit; if the commit fails, the record is back and its files are
  gone. `NoDangling` excepts exactly these keys.
- `files_cleared`: a file field of type `*string` is set to null, or its record is
  deleted, with If-Match and without a fault, and its object stays in storage.
  `recordToMap` yields the pointer (`record_bridge.go:48`), and neither
  `getOldFileKey` nor `fileKeysOfColumn` takes it for a key. `NoOrphans` excepts
  exactly the writes of such fields and of the empty string (`Blind`).

### 3.1 Fairness

`JobSystem` is weakly fair in what the runtime keeps doing: Run loops for ever,
so an up process keeps sweeping and claiming; goroutines are scheduled and
handlers return; time passes, so leases and delays end; a process that exited is
started again by its supervisor. Nothing forces a submission, a cancellation, a
stop, a fault or a renewal. `EventuallyFinished` assumes that processes are not
stopped for ever anew: a deployment that restarts workers more often than a
handler runs makes no progress, in the model as in the code.

`RedisQueue` is weakly fair in the same things: processes dequeue while a slot is
free, goroutines go on and handlers return, the promoter ticks, and an entry
nobody remembers becomes idle.

`Outbox` is weakly fair in each relayer's claim and its walk through the batch
(`Start` polls on a ticker for as long as it runs, and a publish returns one way
or the other), in the end of leases left behind and of backoff delays. A broker
that refuses for ever is outside `EventuallyResolved`: refusals are a budget.

`Idempotency` is weakly fair in each request's own steps: goroutines are
scheduled and a pipeline returns. Nothing forces an error, an expiry or a crash.

`Writes` is weakly fair in each request's steps: it runs on its own goroutine,
and the database ends every wait, by a commit, a rollback or, for a cycle on
PostgreSQL, an error.

`RealtimeHub` is weakly fair in each connection's handler and pumps and in the
body of `Shutdown`: every read and write has a deadline, a closed socket ends the
read. Nothing forces a client to connect, to leave or to read, an event, a
restart or the call of `Shutdown`.

### 3.2 Windows the properties leave open

Seen while modelling. Each is outside a property by a condition with a name, or by
the instance of its run. Where one departs from a sentence of the repository, the
sentence is quoted; besides these, the two violated runs above show two more.

**Jobs.**

- Every outcome statement names its row by id alone. Once a lease lapses under a
  live worker, the outcome that worker writes later overwrites the row, whatever
  the sweep, a second run or a cancel has made of it: a job that the second run
  finished may go back to the queue.
- After the sweep returned a job whose lease lapsed, `Cancel` accepts it
  (`queue.go:740`) though its first handler still runs, against "only jobs that
  have not yet started can be cancelled" (`events-jobs.md:828`).
- A DLQ copy inherits the exhausted requeue counter of its original and dies at
  the first worker without a DLQ handler.

**Redis.**

- A crash or an error between XACK and the enqueue loses the job (`dropped`).
- A job with a custom `Backoff` does not decode, and `collect` acknowledges and
  drops it (`queue.go:279`).
- After an entry was reclaimed from a live worker into the same process, the two
  deliveries are mixed up in the pending map and the job may run again; a job that
  crashes its process never spends its budget.

**Outbox.**

- The SELECT of a claimed batch has no ORDER BY, so a batch may be published out
  of `created_at` order, against "a batch that succeeds is already delivered in
  created_at order" (`outbox.go:206`). `OrderedByKey` is not affected, because its
  guard lets one row of an aggregate into a batch.
- A relayer stopped between counting the last attempt and acting on it leaves the
  row at the cap, where nothing claims, closes or removes it (`Stranded`), against
  "the row is retained and stays claimable" (`events-jobs.md:237`).

**Idempotency.**

- The waiters of a holder that failed are woken at once and all run the pipeline,
  without the lock, against "only one goroutine per process runs the pipeline; the
  others wait for it to complete and replay the cached response"
  (`idempotency.go:13`).

**Writes.**

- The rollup reads the child's foreign key without a lock (`rollup.go:292`), so on
  PostgreSQL a move in between leaves a parent's total stale; hence the condition
  of `RollupExact`.
- Without WithTransaction a lock_when check and the write are not one unit
  (`CheckedInTx`).
- A delete that locked its parent for If-Match takes locks in the other order than
  a child's rollup, which PostgreSQL ends as a deadlock (`LocksParentFirst`).
- A cascade on PostgreSQL may do so too, without If-Match (`MeetsMoved`): when it
  finds a child that an update has moved since the page was read,
  `runPendingRollups` locks the child's new parent before the delete has locked its
  own row (`cascade.go:205`, `rollup.go:299`). Two such deletes and a move wait for
  each other in a circle, and PostgreSQL ends it by an error to one of them. Both
  orders are against "sorting gives every transaction the same order, so one simply
  waits" (`rollup.go:287`).

**Files.** The first three leave a record with a dangling key, against "a record
can never reference a dangling key" (`files.md:409`).

- Nothing counts the records that hold a key. A client may give one record the key
  of another, which `files.md:405` recommends as "re-using an existing file"; when
  the first is deleted or replaced, the object of both is removed (`Reused`).
- A client that keeps a key of a list without If-Match may find it removed by another
  update that dropped it meanwhile (`Reused` too), against "a key you keep is never
  touched" (`files.md:150`).
- A request that fails after its write stands, because a later middleware fails or
  the answer of its commit is lost, removes the object it brought, which the record
  now names (`Undone`).
- The empty string in a single file field is written over the key, and the object
  stays (`Blind`), against "removed when the field is overwritten by an update"
  (`files.md:808`).
- Two unguarded updates of one record read the same old keys, so the object of the
  one that wrote first stays; `NoOrphans` asks for If-Match.

**Hub.** Three windows are `excused` for the connection that meets them. They are
against "instead of silently missing events" (`realtime.md:250`).

- Live events can overtake the replayed ones on a WebSocket (`hub.go:992`), after
  which the cursor rule of `realtime.md:253` makes the client drop the older ones.
- A resync message that finds the buffer full is dropped, against "the caller must
  then tell the client to resync" (`resume.go:36`).
- The SSE loop may write events that came after a dropped one before it looks at the
  kick; the client's cursor is then past the gap, against "a kicked client reconnects
  and replays from its cursor, so nothing is lost" (`realtime.md:308`; `hub.go:624`).

`ServerDrains` signals once: a connection registered later is not told, and ends
with `Shutdown`.

## 4. Proofs

The theorems hold for every value of the constants that the named assumptions
of the modules admit: any number of jobs, events, requests, records, clients and
processes, any options, any fault budget. Where sets are counted they must be
finite (relayers, clients, children). TLC evaluates each assumption in the runs.

`JobSystem_proofs`:

- `TypeCorrect`, `KeysExclusive`: the type invariant, and at most one running
  row per group key. `KeysExclusive` needs nothing about leases: claims are
  admitted by the index, and no other statement makes a row running.
- `HandedOn`: a job dies for want of a handler only after `MaxUnhandled` requeues,
  whatever crashes, is lost or goes stale.
- `DeathRouted`: a job that every process can decode and that died is in the DLQ,
  or its worker is about to put it there, with `MaxStale = 0` and `EnoughIds` (copies never
  run out of ids; the code takes a new uuid for each).
- With `MaxStale = 0` (no lease lapses under a live owner, the condition
  `WithLeaseDuration` asks of a deployment): `Invariant`, `Exclusion`, `Budget`,
  `Finality`, `NothingLost`, and `Refinement`: `JobSystem` implements
  `JobLifecycle`. Without the assumption `FinishedStays` and `HandlersExclusive`
  are false (section 3.2).

Exclusion alone is not inductive: a second claim must be impossible while a
goroutine still owns the job, so `OwnersInv` ties every owning goroutine to a
running row with a held lease and the attempt count it dequeued (`HasRow`), and
to no other goroutine; `QuarInv` says the same of rows set aside for quarantine;
`LocksInv` that candidates of an open Postgres claim are still waiting, so
nobody owns them; `RowsInv` bounds attempts by the budget and starts by
attempts. Then an outcome statement, although unfenced, only ever writes the row
its worker still owns. Statements are summarised once as lemmas about the table
(`WritesRow`, `ClaimRows`, `SweepRows`, ...), and each action is proved to keep
each conjunct it touches. The refinement maps waiting, running and final
statuses to the abstract states.

`HandedOn` needs nothing about leases: the counter in a row's headers, and the one a
goroutine dequeued with it, never exceed the requeues that happened (`CountedInv`).
`DeathRouted` needs to know that nobody but `markDead` kills a job while nothing
fails: `TablesInv` keeps quarantine to undecodable rows, `RoutedInv` accounts for
each dead row by its copy or by the goroutine between its two writes, and says
that no row is left for the sweep with a spent budget.

`RedisQueue_proofs`: `Invariant`; `NotForgotten`, with no assumption on faults or
reclaims; and `Refinement`: until an entry is reclaimed from a live worker,
`RedisQueue` implements `JobLifecycle`. The invariant has two halves. `FiledInv`,
`OutcomeInv` and `NoneForgotten` hold under any mix-up of the pending map: what a
process remembers of an entry is of its own job or long gone, so an XACK never
removes another job, and a goroutine that acknowledges for good has settled its
job. `AloneInv` speaks of `stale = 0`: a job is in one place (`OnePlaceInv`) and in
one goroutine's hands (`OneRunInv`), which can address its entry (`HoldsInv`), and
its counter and the faults account for its runs (`BudgetInv`). Commands are
summarised as lemmas (`Taken`, `LetGo`, `Acked`, `Relabelled`, `Arrives`), which
the actions share.

`Outbox_proofs`:

- `TypeCorrect`, `Invariant`, and with no assumption on faults, leases or
  overlap `Delivered`: a row is closed only once its event was delivered,
  dead-lettered or, with no DLQ, given up after `MaxAttempts` failed publishes.
- `Claimable`: until a relayer stops or outlives its lease or a statement fails,
  no row is stuck at the cap.
- With `MaxLapses = 0` (no lease runs out under a relayer at work): `Exclusion`,
  `Ordered`, and `Refinement`: `Outbox` implements `EventFeed`.

`Delivered` rests on `ClosingInv`, which never speaks of leases: a relayer about
to ship a row has an accounted-for event, and without a DLQ the attempts counted
by a row plus the failures relayers are still to count (`Erring`) never exceed
the failed publishes of the history. The sum is what makes it inductive when two
relayers count failures of one row at once. `HandsInv` says a row in hand is
pending and carries its relayer's lease, or was just left at the cap, where no
claim takes it; the second case is the window between markError and
finishExhausted, and without it the invariant would fail at every last attempt.
`OrderInv` says that a touched event (claimed, in hand or delivered) has no
pending elder; a claim establishes it by `orderGuard`, an insert keeps it because
older events of the aggregate were inserted before.

`Idempotency_proofs`: for any Locker, any arrangement of stores and locks and
any faults, `RightBody` and `DurableAnswers`; `Invariant`; and `OneWrite`: while
nothing fails, expires or dies, requests of one waiting lock write once, if all
replicas under a lock look into one store (`Serialised`). `LockInv` says that the lock table names exactly
the requests between acquire and release, so at most one of a lock runs;
`StoreInv` that each durable write is still in its holder's hands or already in
the store, that the lock is given up and waiters look again only after that, and
that nobody runs what a request of the same lock has written.

`Writes_proofs`: `Invariant`, and from it `WritesDoNotOverwrite` (on either
driver), `ScopedWritesLandInScope` and `LockedRecordsStay` (on SQLite) and
`AnswersAreTrue`. The guards are reads, and the write comes several statements
later; what makes the argument inductive is `GuardOf`: from its check until the
request's own commit, what a guard saw is still so in the committed image. That
is stable for two different reasons. On PostgreSQL the row is locked by the
request, and only the holder of a row's lock commits to it; on SQLite the request
is in the one transaction there is (`OneWriter`). `StepOrder` says that no step
which applies is passed over, so a request that stands at its write has been
checked; `SoundStep` that a step of one request cannot disturb what another's
guard saw; one lemma per action that it is sound; and `Landing` that a write
becomes durable in its request's own step, from a phase behind the guards.

`WritesTables_proofs` is about what several rows have to agree on. Each of its
invariants speaks of every request's own fields, its locked rows and the tables.
`Undisturbed` says once what a step of one request leaves another: its fields, its
locked rows and, on SQLite while it is in a transaction, all tables. So each
invariant needs only be shown for the acting request, action by action.

- `CascadesAreComplete` (`NoChildLeftBehind`), by `WalkInv`: the ids a cascade has
  gone past are below its cursor and no child up to there is left, and at the
  write of the parent there is nothing beyond.
- `HistoriesAreExact` (`HistoryExact`), by `HistInv`: for each child the committed
  history rows are numbered 1 to its version, for the holder of its lock with its own
  rows to the version it sees, less one between a write and its history row. An
  entry still to be inserted carries the number after the last; the unique index and
  the retry on a taken number are what keep it so on PostgreSQL.
- `RollupsCount` (`RollupExact`), by `RollInv`: where the children that a parent has and those
  a transaction has changed differ, the parent is still to be recomputed by it
  or locked by it (`Owes`); a locked parent whose total was stored, or is about to
  be, counts the children as the transaction will commit them (`Totalled`,
  `Summing`). That needs `InitAgree`, totals that are right to begin with: the code
  recomputes a total when a child is written and never otherwise.
- `NoCycles` (`NoWaitCycle`), by `OrderInv`: whoever waits for a row of a request holds
  only rows before it, in an order of all rows (children first, then parents as
  sorted), so a circle of waits would have no last row. `Waiting` states it for
  each step that waits.

`FileFields_proofs`: `Invariant` and `FilesKept` (`NoDangling`). Storage and
database share no transaction, and a client may name any key it knows, so the
argument is about who may know a key, and about why an object went. `StoreInv`: an
object is gone, or about to go, only if some write took its key off a record, its
request failed after its write, or its request failed before it; every other key that
a record holds or a request wants is stored. That leaves to show that a key taken off
is not back on a record unless it was re-used. `HomeInv` (`OneHome`): a key that is not
re-used stays with the record it was brought for. `PathInv` and `FreshInv`: until a
request has written, nobody else has met its key, unless it was posted and re-used.
`ViewInv`: a version stands for the keys a client saw with it, and a transaction past
its If-Match holds the record at that version; so (`DropInv`) what a writer dropped does
not return to its record. `Reused`, `Taken` and `Out` only grow (`Onward`, `Monotone`),
so a step needs no argument about the past. The steps fall in two kinds: those that
write no record (`Quiet`), and the bare write and the two commits (`Lands`); names
come in with `Send` only.
`NothingLeaks` (`NoOrphans`), by `LeakInv`: every stored object has someone who
accounts for it (`Accounted`): a record that holds it, the removals, the request
that brought it and has neither written nor given up, the one whose write
dropped it and is still to answer, or a blind write that left it. Versions matter
here too: with If-Match the writer dropped exactly what it had read (`Sees`).

`RealtimeHub_proofs`: `Invariant`, `CapKept` and `NothingLeft`. `ShapeInv` says which
goroutines a connection in each phase has, and that the hub knows a WebSocket
exactly while both its pumps run; `CountInv` that the connection counter and the
WaitGroup are the sizes of the sets they stand for. Every action moves one client
between these sets, and `MoveCounts` does the arithmetic of all of them once.
`NoGapIsSilent` (`NoSilentGap`), for any buffers, by `GapInv`, which takes a client's
two queues in the order they reach the wire (`Front`, `Behind`: backlog and buffer
over SSE, buffer and backlog over a WebSocket). `Line`: each frame in them is a
resync, is at most one ahead of what the client has seen, or is led by a frame
before it that is a resync or its predecessor; what was appended out of order
(the live events behind a replay that already holds them) thus does no harm.
`Has`: they reach as far as the newest event offered to the client (`Due`), which
is what lets the next one be appended. `CursorInv`: a cursor of this hub is not
ahead of what its client has seen, so a replay starts early enough. A WebSocket
whose buffer was full is the exception to both: it takes one more frame at most,
and its writer goes before a second (`kicked` is looked at between two frames).

Every safety invariant of a run is thus proved. Only model-checked: liveness
(`EventuallyFinished`, `EventuallySettled`, `EventuallyResolved`,
`EveryoneAnswered`, `EveryRequestEnds`, `ShutdownEnds`), which is beyond the prover.

## 5. Plan

Next, in this order: `InprocQueue` as a third implementation of `JobLifecycle`,
with its wake-up channel; `JobStatus` beside it; `Transaction` (commit hooks that
fail, savepoints, and how `Insert` and `Submit` become visible); `Cron` and
`Scheduled`; `Lifecycle`; `EventBus`; `Revoker`; and the pure parts `Backoff`
(widths matter: `relayBackoff` shifts without a bound) and `Cursor` against
reference definitions; `Saga`, `Ledger` and `Caller` last.

Of the modelled parts, still to come: restore, singletons, increments and batches
in `Writes`; cascades of several levels; soft-deleted models and `DELETE /files` in
`FileFields`; several subscriptions per connection in `RealtimeHub`.

Abstract specifications worth stating: an all-or-nothing `Commit` for
`Transaction`; a log that a client reads in order for `RealtimeHub`; a set of
revoked tokens for `Revoker`. Runs follow the bounds of section 3: two processes,
two rows, one fault of each kind.

Proofs to come: that `RealtimeHub` implements such a log, and those of the modules
above.
