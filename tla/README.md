# A formal model of mini-drop

mini-drop collects performance profiles from remote machines. A user creates a
task in the web front end, the task travels to an agent on the target machine,
the agent samples and uploads the raw data, and a daemon analyses them. This
directory holds TLA+ specifications of the parts in which several processes
work on the same state, the configurations with which TLC checks them on small
instances, and theorems about them that TLAPS proves for every instance.

## The system

    web front end -> apiserver (Go) -> drop_server (C++) <-> drop_agent (C++)
                        |  ^                                      |
                        |  +--- callback of drop_server           | upload
                        v                                         v
                    PostgreSQL <- analysis daemons (Python) -> object storage

| Part | State | Operations | What makes it hard |
|---|---|---|---|
| drop_server (`drop/server`) | a queue per agent, completed attempts, pending cancellations, a snapshot file | `CreateTask`, `CancelTask`, heartbeat `Do`, `NotifyResult`, snapshot, restore | a snapshot that is old and partial, cancellations that race with the dispatch |
| drop_agent (`drop/agent`) | task queue, upload queue, attempt tracker | heartbeat, worker and upload threads | lost RPCs, three threads on one tracker, restarts |
| apiserver: tasks (`task.go`, `task_service.go`, `server.go`, `audit.go`, `attempt.go`) | task row, audit trail, outbox, attempts, analysis jobs | create, dispatch, reconcile, callback, cancel, poll, backfill | five kinds of writers that work on stale copies; crashes; lost answers |
| analysis (`lease.py`, `analysis_daemon.py`, `stage4.go`) | `analysis_jobs`, the active job and the analysis status of a task | claim, renew, finish, retry, re-analyse | leases that expire under a live daemon, results in any order |
| artifacts and blobs (`artifact_lifecycle.go`, `retention.go`, `blob.go`, `blob_workers.go`, `symbol.go`) | artifacts, blobs, symbol ledgers, GC queue, objects | expire, claim, delete, tombstone, pin, register, backfill, migrate, collect | deletion against new references; several cleaners; deadlines computed from stale rows |
| continuous data (`continuous.go`, `continuous_block.go`, `parquet_*.go`, `fine_gc.go`, `migration_*.go`) | batches, windows, summaries, hour blocks, Parquet ledger, receipts | ingest, summarise, compact, build, downsample, retire, collect, query | the same rows in two storage generations, four modes, crashes |
| coverage timeline (`coverage_bands.go`) | none of its own | divide a range of time, draw bands | overlapping, late and missing windows |
| disk guard (`disk_guard.go`, `disk_guard_v2.go`) | halted, good checks in a row | admit, halt, recover | readings taken before the lock |
| continuous sessions (`continuous_control.go`, `ContinuousSessionManager.cpp`) | desired and observed state, revisions; assignments, engine, spool | create, stop, delete, reconcile, apply | delayed reports, opposite lock orders, crashes of the agent |
| schedules (`schedule.go`, `schedule_worker.go`) | plans, triggers, cron entries | poll, claim, check, create, advance | several processes on one slot; crashes |
| composite tasks (`composite.go`) | parent row, `multi_tasks`, children | create, aggregate, refresh, cancel | a refresh reads and writes without a lock |
| detection (`detection.go`, `sentinel_rule.go`) | baselines, times of firing | judge, fire, mark | crash between task and mark |
| agent registry (`agent.go`) | `agent_infos` | upsert, clean up, discover, mark offline | two identities (id and address) for one row, no transaction |
| analyzers, samplers, front end, access checks | none that is shared | | not a matter of protocol |

## Modules

| Module | Models |
|---|---|
| `DropServer` | the queue of drop_server, its RPC handlers, snapshot, exit and restart |
| `DropAgent` | the heartbeat thread, the worker and the upload worker of one agent |
| `Collection` | both together, over RPCs that fail before or after they are handled |
| `TaskStatus` | abstract: the edges along which the status of a task may move |
| `TaskLifecycle` | one task in the apiserver and everything that works on it; implements `TaskStatus` |
| `AnalysisJobs` | the analysis jobs of one task and the daemons |
| `BlobStore` | artifact, blob and symbol rows, their objects, and the five kinds of goroutines that create, move and delete them |
| `Retention` | class and deadline of one artifact |
| `ContinuousStore` | the batches, windows, summaries and hour blocks of one session and hour |
| `ParquetLedger` | extends it by the Parquet blocks, receipts, GC, failure records and queries |
| `DiskGuard` | the capacity gate and its recovery |
| `Timeline` | the coverage timeline, as operators on the stored windows |
| `ContinuousSessions` | the sessions of one host, the reconciliation and the session manager of the agent |
| `Schedules` | periodic collections in several processes |
| `CompositeTasks` | a parent task and its children |
| `Detection` | the loop over the sentinel rules |
| `AgentRegistry` | the table of agents |
| `ControlProofs` | theorems about `AgentRegistry`, `Schedules`, `CompositeTasks` and `Detection` |
| `StorageProofs` | theorems about `BlobStore`, `Retention` and `DiskGuard` |
| `LedgerProofs` | theorems about `ContinuousStore` and `ParquetLedger` |
| other `*Proofs` | theorems about the module they are named after |
| `MC*` | instances for TLC; `MCStorage` and `MCControl` extend several components each |

The components of one MC module share no variable and no name: their
specifications are called `BlobSpec`, `RetentionSpec`, `DiskSpec`, `TimelineSpec`,
`RegistrySpec`, `ScheduleSpec`, `CompositeSpec` and `DetectionSpec`, and plain
`Spec` is the one of `ParquetLedger` in `MCStorage` and of `ContinuousSessions` in
`MCControl`. The runs check the very definitions that the theorems are about, and
TLC evaluates the assumptions on the constants.

### DropServer

`tasks`, `completed` and `cancels` are the globals of `TaskQueue.cpp`;
`snapshot` and `tmpSnap` are the two files. Each handler holds `tasks_mutex`
throughout, so each is one action. The snapshot is two actions, because the
rename comes after the mutex is released, and may fail. A restart empties the
memory and restores the snapshot one record at a time; RPCs are served when all
are read. `InsertSorted` is `push_back` followed by the sort; it gives priority,
deadline and arrival the order of the comparator. The keys of tasks are pairs of
task and attempt; the attempt 0 in a cancellation stands for all attempts.

Priorities are constants of a task: parsing them from the resource budget
(`infer_priority`) is left out. So is the registry of agents.

### DropAgent and Collection

The three threads share `TaskQueue`, `UploadQueue` and `AttemptTracker`. Where
a thread takes a lock twice, there are two actions: `CancelSeesRunning` and
`RequestCancel` are the two calls that handle a cancellation of a running
attempt, and the attempt may end between them. Sampling is one step from
`WorkerTake` to `WorkerFinish`, which a cancellation may end earlier
(`WorkerCancel`). `Collection` puts the answers of `DropServer` into the RPCs of
`DropAgent`. An RPC fails before it is handled, or afterwards, when the answer
is lost. The variables `accepted`, `received`, `gone` and `undelivered` are
history, as are `relayed` and `dispatched` in `DropServer`; an agent reports only
what it was told of (`Reportable`). `Places` collects where an attempt is: a queue
of the server or the agent, a reply, the worker, or the uploader.

### TaskStatus and TaskLifecycle

A database transaction is one action. A process that read a row earlier keeps
what it read in its own record (`seen`, `att`, `tries`), so that each interleaving
of reads and writes happens. `Transition` is `transitionTaskStatus`: a conditional
update that also writes the event, or nothing. The dispatchers (outbox loop and
start-up reconciler) share `ReadTask` to `MarkOutboxPublished`. drop_server and
the agents are outside: a set of accepted attempts and what became of each.
Callbacks may be repeated, late or never come.

The clock is `window`: the collection window is open, over, or overdue beyond
the upload buffer.

### AnalysisJobs

A row of `jobs` is a row of `analysis_jobs`. A lease is live or expired. A
daemon goes through `run_job`: claim, set the status of the task, analyse, and
finish in a transaction that checks the owner, or fail, with retry or without.
Upload and registration of output objects are left out.

### BlobStore and Retention

A database statement or transaction is one step, and so is a call of the object
store, which may fail. The record of a worker (`op`) holds what it has read; the
lifecycle cleaner, the retention cleaner (and the handler that deletes a task),
the blob worker and the writers interleave between any two steps. Writers and
`claimUnreferencedBlobDeletion` take the same row lock, so each is one step; the
count of references outside a transaction is not.
A blob row is named by its physical key, which the database keeps unique.

`Retention` follows one artifact through `lifecycleComputeExpiry`: a reading of
row, task and generation, and later a write, with the clock, the end of the
task, the daemon that supersedes the generation and a restart with another
policy in between. Times are small whole numbers.

### ContinuousStore, ParquetLedger and Timeline

`ContinuousStore` is split at each database and object-store call of ingestion,
retention cleanup and compaction. An object is represented by the batches it
holds; ages of the hour (open, sealed, past 24 h, 7 d, 30 d) stand for the clock.
`ParquetLedger` adds the single goroutine of `runParquetCycle`; as each call of
a cycle may return early, the worker starts the calls in any order, and the
quota path may run at any time. A restart may change the mode. `Query` is the
choice that the three kinds of queries make between block, windows and error.
`gone` is history: the batches that were given up once, because retention or the
collector deleted their row, or because `pqReclaimV1Blocks` dropped their hour
block. A batch that is stored again afterwards is the same batch to the model; a
window row is named by its batch and signal, and the code's deletion by row id
is a deletion of that pair.

`Timeline` has no actions but time, windows that arrive and the stop: what it
checks is a pure function of them, recomputed for every range in every state.

### DiskGuard

`required_free`, forecast, quota and the hysteresis are computed as in the code.
A request or check reads the disk in one step and takes the lock in the next.
`fresh` is history: the good checks that began after the last halting reading.

### ContinuousSessions

The transactions of the apiserver hold row locks where another one can meet
them: `StopContinuousSession` locks the session and then the agent state, the
reconciliation the agent state and then each session that it writes. The agent
has its memory, the assignment cache and the spool on disk; it crashes, loses
answers, and its engine may refuse a handover.

### Schedules, CompositeTasks, Detection, AgentRegistry

Each statement outside a transaction is a step. In `Schedules` a process
ends between any two of them, and its cron entries with it. In `CompositeTasks`
refreshes overlap and children move along the edges of the status machine.
`Detection` keeps medians doubled, so that they stay whole; `fired` and
`forgotten` are history. In `AgentRegistry` agents come, go and change address
while requests and the discoverer upsert what drop_server answers.

## Runs

| Run | Instance | States | Shows |
|---|---|---|---|
| `server` | 3 tasks, queue of 2, one restart, one deadline, two priorities | 2.0 M | the queue is well formed, a recorded cancellation survives a restart, no attempt is handed out twice, a cancellation is kept until confirmed |
| `collection` | 2 tasks, 2 faults | 242 K | sampled once, nothing lost unnoticed, completed means delivered, a confirmed cancellation keeps while the agent remembers it, cancellations are confirmed (liveness) |
| `collection_restart` | 1 task, 2 faults, one restart of drop_server | 45 K | cancellations are confirmed across a restart of the server (liveness) |
| `dispatch` | outbox and reconciler, 2 tries, one crash, no callbacks | 420 K | no task is left undispatched, every task ends, a collected task is analysed (liveness) |
| `results` | a callback and a cancellation handler, two attempts that end, one lost answer | 2.6 M | edges of the status, audit trail, DONE is backed by an object |
| `analysis` | 2 daemons, 2 attempts, 2 jobs, 2 expiries, one crash | 221 K | one active result, generations, finished jobs stay, jobs finish (liveness) |
| `storage` | the instances of `MCStorage`, see below | 1.37 M | no reference to content under deletion, pins and tombstones hold, deadlines exist and come with notice, windows stay readable, nothing is removed before it is summarised or migrated, layers hand over, recovery is observed, timelines are exact |
| `control` | the instances of `MCControl`, see below | 255 K | a stop is not undone and is completed (liveness), the sessions of a host fit together, a slot gives one task, DONE is earned, the cooldown is kept, an agent has one row |
| `read_failure` | as `storage` | | violated: see Findings |
| `cancel_answer` | | | violated: see Findings |
| `poller_layout` | | | violated: see Findings |
| `analysis_late` | | | violated: see Findings |

Why the bounds are enough: the queue of two with three tasks is full and has a
refused task, and two priorities and a deadline give every outcome of the
comparison; one restart is what the claims about restarts speak of, and the
claims about a server without restart need none. Two faults are a lost answer
followed by another, or with a restart of the agent; the first run of `Collection`
keeps drop_server up, for its properties speak of a server that has not restarted,
and the second restarts it. Two tries are one retry and
the dead letter. Two daemons and two expiries let a late daemon meet a new owner
and be met by one in turn. Deadlock is not an error where the system may come to
rest: a task that has ended, or jobs that are finished.

`storage` and `control` each put several components that share no state into one
run: an initial choice (`plane`) says which of them moves, the others stay in
their first state, so the state space is the sum of theirs and not the product.
Inside `BlobStore` a *group* and inside `ContinuousStore` a *scene* limits in the
same way which rows or batches, modes and faults are in play.

* Blobs: six groups, among them two results with equal content and a kernel
  symbol file under an old and a new key; of the four workers two are
  active at a time. A hazard of this code takes two (a deletion and a new
  reference); groups of one row have a failing object store, those of two rows
  do not.
* Retention: every kind, two policies of which one shortens every class, and a
  clock long enough for a deadline, a restart and the protection period.
* Continuous data: twelve scenes. Two batches, or one with two signals, make partial
  migration possible; a batch that is sent twice (in each of the storage
  generations, so that it comes again after retention took it), a failed call or crash, an
  hour that ages to the end of all retentions and a change from `prefer` to
  `enforce` each have a scene of their own. Three ledger ids are a raw
  block, its rebuild or downsample, and the 1h block.
* Disk: four amounts of free space, one on each side of every threshold, two
  requests, recovery after two checks. Timeline: every range of five seconds
  with two windows in any position, and two bands, so that aggregation happens.
* Sessions: two sessions of every legal and illegal combination, or one with an
  agent that samples and crashes or loses an answer once.
* Schedules: an interval or a cron plan, two processes with three threads, one
  crash. Composite: two children, each policy, two overlapping refreshes.
* Detection: a histogram or a database rule, a baseline of two values, one crash.
  Agents: two upserts side by side, two addresses, one move.

The theorems below lift these bounds, for every property of a passing run except
the five about liveness and `TimelineIsExact`.

Every property has a mutant: a definition changed the way a bug would change it,
for which TLC finds a violation.

### Fairness

* `Collection`: every thread goes on while it can; a runner ends, for its
  duration and a time-out bound it; a server that is up answers, and one that is
  down is started again. RPC failures are bounded by `MaxFailures`.
* `TaskLifecycle`: the background loops and the clock go on, and a handler that
  has read its task finishes. Nothing is assumed of connections, executions or
  callbacks.
* `AnalysisJobs`: daemons poll, analyses end, and a lease that nobody renews
  expires. Crashes and expiries under a live daemon are bounded.
* `ContinuousSessions`: the server finishes a reconciliation it began (weak); a
  stop that can have its locks again and again gets them (strong, for
  the database queues waiters); the agent applies an answer it got and starts
  again after a crash (weak); and its loop, the upload of the spool included,
  is not refused for ever (strong, for it polls). The other components
  of `control` and all of `storage` are checked for safety only and assume
  nothing.

## Theorems

`DropServerProofs`, for any agents, tasks, priorities, deadlines, queue length
and number of restarts, from `ConstantsAssumption`:

| Theorem | Statement |
|---|---|
| `ServerTypes` | `Spec => []TypeOK` |
| `QueueStaysWellFormed` | no attempt twice, within the limit, sorted |
| `CanceledStaysCanceled` | what the snapshot has as canceled is canceled in the queues |
| `HandedOutOnce` | until a restart what was handed out is in no queue |
| `RelayedCancelIsKept` | a relayed cancellation stays until it is confirmed (an action property) |

The lemmas say what `InsertSorted`, `Rest` and `MarkCanceled` do to a queue: to its
order, its keys and its contents. `Inv` extends the properties to the places an
item passes on its way through a restart: the snapshot and a temporary file list
an attempt once and under its agent (`FilesOK`); what either has as canceled
is canceled in the queue (`QueuesHeed`), for the temporary file may
become the snapshot at any time; the records that are yet to be read agree with
the snapshot (`UnreadHeeds`), so that a restored item is marked as it was. Nothing is
left to be read while the server serves (`Phases`).

`CollectionProofs`, for any tasks, attempts, retries, failures, restarts and any
length of `completed_`, from `CollectionAssumption`:

| Theorem | Statement |
|---|---|
| `CollectionTypes` | `Spec => []TypeOK` |
| `AttemptIsSampledOnce` | an attempt is in at most one place and sampled at most once |
| `NothingDisappears` | an accepted attempt is in one place, received, or lost in a named way |
| `CompletionFollowsDelivery` | completed only after the result was received |
| `ConfirmedCancelIsKept` | a confirmed cancellation is not followed by sampling (an action property) |
| `CollectionImplementsServer` | `Spec => Server!Spec` |

The refinement comes first: an agent's call is a step of `DropServer` because
what the agent names was relayed to it (`Known`), and every other step leaves the
server alone. So the invariant of `DropServerProofs` holds in the composition, and
`ServerOK` is what the agent needs of it. `AgentInv` is the rest: the
containers of the agent and the reply under way are disjoint (`Apart`), and what
they hold was dispatched (`Known`), hence is in no queue of the server; what
waits to be sampled has not been (`Sampled`); what the agent holds is in
`running_` and not in `completed_`, and what was sampled is running, received or
gone (`Tracked`); what was completed was received or its task canceled, and what
was accepted has a place, was lost, or is excused in the same way (`Covered`).
`Apart`, `Sampled`, `Tracked` and `Covered` are claimed only until drop_server
restarts (`Whole`), for a restored snapshot may hand an attempt out again.
Without them the properties are not inductive: a popped attempt might be one
that the agent has.

`TaskLifecycleProofs`, for all sets of dispatchers and handlers and all bounds,
from `LifecycleAssumption`:

| Theorem | Statement |
|---|---|
| `TypeCorrect` | `Spec => []TypeOK` |
| `TrailIsComplete` | the audit trail ends with the status |
| `IntentIsKept` | an outbox entry is given up only for a task that has moved on |
| `DoneIsBacked` | DONE only with an uploaded object |
| `StatusRefined` | `TaskLifecycle` implements `TaskStatus` |

The inductive invariant `Inv` adds to the properties what each process knows of
the database from an earlier step: a dispatcher in `publish` or `dead` has seen
or made the task leave CREATED, and CREATED never comes back (`DispatchersKnow`);
a retry is left while the entry can be claimed (`RetriesLeft`); a handler that
reads a callback has an attempt that ended (`NotifiersKnow`); a cancellation in
its later steps is one of a task that is not CREATED (`CancelersKnow`); the
poller that found an object still finds it (`PollerKnows`). Without these the
properties are not inductive: `MarkOutboxPublished` tests nothing itself.

`AnalysisJobsProofs`, for all sets of daemons and attempts, from
`AnalysisAssumption`:

| Theorem | Statement |
|---|---|
| `TypeCorrect` | `Spec => []TypeOK` |
| `ResultIsUnique` | of the successful jobs exactly the active one is not superseded |
| `GenerationsAreFresh` | generations grow with the job id |
| `FinishedIsFinal` | a finished job stays as it is (an action property) |
| `LateAttemptLoses` | an early attempt that ends late does not become active (an action property) |

Here `Inv` adds that only running jobs have an owner, so the owner test of a
late daemon fails for a finished job (`OwnedJobsRun`), and that only successful
jobs are superseded (`SupersededJobsSucceeded`).

`ContinuousSessionsProofs`, for any sessions, requests, limits, faults and spool,
from `SessionsAssumption` and `RequestsAssumption`:

| Theorem | Statement |
|---|---|
| `StopStays` | `Spec => []StopIsNotUndone` |
| `ActiveSetStaysLegal` | `Spec => []ActiveSetIsLegal` |

For the first, `StopInv` adds that a reconciliation which does not run carries
nothing (`Rests`), and that what a running one has read and written of a stopped
session agrees with the stop (`ReadAgrees`, `WriteAgrees`): a stop commits only
with the agent state locked, which the running transaction holds. For the second, `LegalInv` adds that a wanted session was asked for.

`ControlProofs` is about four small components, each for any number of processes
and steps:

| Theorem | Component | Statement |
|---|---|---|
| `IdentityHasOneRow` | `AgentRegistry` | `RegistrySpec => []OneRowPerAgent` |
| `SlotGivesOneTask` | `Schedules` | `ScheduleSpec => []OneTaskPerSlot` |
| `CompositeDoneIsEarned` | `CompositeTasks` | `CompositeSpec => []DoneIsEarned` |
| `RulesKeepTheirCooldown` | `Detection` | `DetectionSpec => CooldownIsKept` (an action property) |

* The first is for agents with a non-empty id (`AgentsAssumption`). Its invariant
  adds that ids are keys and that of two rows of one identity one is held by an
  upsert that has yet to clean up (`DuplicatesAreHeld`).
* The second needs no assumption. Its invariant says that at most one thread
  holds a slot, that the claim of a slot that is held stands, and that a task
  exists exactly if its creation was reached.
* The third is for finitely many children and natural quorums
  (`CompositeAssumption`). Its invariant adds that a child that is DONE is among
  those that succeeded, and that a refresh that holds DONE read it from children
  that had earned it; both only grow.
* The fourth is for any natural cooldown (`DetectionAssumption`), any rules,
  baselines and crashes. Its invariant adds that the firing of a rule is written
  down, unless it was forgotten, with a time that is not earlier (`WrittenDown`),
  and that a rule which passed the cooldown test has not fired since
  (`ClearedStays`): several steps lie between the test and the diagnosis task.

`StorageProofs` is about three components of `MCStorage`:

| Theorem | Component | Statement |
|---|---|---|
| `BlobTypes` | `BlobStore` | `BlobSpec => []BlobTypeOK` |
| `DeletedContentIsUnreferenced` | `BlobStore` | `BlobSpec => []CasDeletionHasNoReference` |
| `PinnedArtifactsAreKept` | `BlobStore` | `BlobSpec => []PinnedIsKept` |
| `TombstonesAreFinal` | `BlobStore` | `BlobSpec => TombstoneIsFinal` (an action property) |
| `RetentionTypes` | `Retention` | `RetentionSpec => []RetentionTypeOK` |
| `EndedArtifactsExpire` | `Retention` | `RetentionSpec => []SettledHasDeadline` |
| `DeadlinesAreNotSprung` | `Retention` | `RetentionSpec => ShortenedWithNotice` (an action property) |
| `AdmittedAfterRecovery` | `DiskGuard` | `DiskSpec => RecoveryIsObserved` (an action property) |

Those about `BlobStore` are for any artifacts, keys, workers and
failures of the object store, from `BlobAssumption`: content-addressed keys are apart from the logical ones, and
what is compressed has one. `BlobInv` adds to the two invariants what a worker
has in hand at each step (`OpsOK`). The step that claims an artifact is the one
that matters: it holds a decision made from an earlier reading, and its own
transaction tests the rows again, except for an artifact of a deleted task, and
a deleted task stays deleted (`Grows`). Likewise a manifest has no compressed
blob (`RowsOK`), so a late manifest adds no reference.

Those about `Retention` are for any kinds, policies and times, from `RetentionAssumption`: a
policy has a natural number for every class, and the bounds are natural. `RetentionInv` adds that a row
computed after the end of its task has a deadline (`Dated`), and that the
reconciler writes back a row it has read that is still the current one, unless
the artifact was superseded in between (`ReadOK`).

The last is for any number of required checks (`DiskAssumption`). `GateInv` relates
the counter of the code to the number of good checks since the halt: it is ahead
by at most one, and not at all while a check that had read the disk before the
halt is under way.

`LedgerProofs`, for any batches, signals, hour blocks, Parquet blocks, cleaners,
failures, restarts and changes of mode, from `IdsAssumption` (0 is the id of no
block):

| Theorem | Statement |
|---|---|
| `LedgerInvariant` | `Spec => []Inv` |
| `WindowsStayReadable` | `Spec => []QueryableIsReadable` |
| `WindowsAreSummarised` | `Spec => SummarisedBeforeRemoval` (an action property) |
| `CollectedIsMigrated` | `Spec => GCRemovesOnlyMigrated` (an action property) |
| `RetiredIsHandedOver` | `Spec => LayersHandOver` (an action property) |

All four rest on one invariant, because the goroutines meddle with each other's
rows:

* `DataInv`: a row that was never given up has its payload where `object_key` says,
  in its minute object or in the active hour block it is a member of
  (`RowsStored`); a window has a row; the members of an active block refer to it
  (`MembersRefer`). `RowsStored` is why the sweep may delete a superseded block.
* `CompInv`: what the compactor read before its upload is still true when it
  registers the block. It re-reads nothing; ingestion, cleanup and sweep run in
  between and may only touch batches that are given up by doing so (`Loaded`,
  `Uploaded`, `Packed`).
* `CleanInv`: a cleaner that is about to delete windows has summarised them, and one
  that is about to delete an object has deleted the row.
* `MigrationInv`: an unexpired row has a window for each signal that is not
  quarantined (`Complete`), and a batch in the collector's hands was migrated.
* `LayerInv`: a block built from another has its rows, as long as those exist
  (`Derived`), and so has the block under construction (`Building`).

Without `gone` neither of the first two properties is true: see Findings, behaviour
worth knowing.

Only model-checked: the liveness properties (`CancelConfirmed`,
`EventuallyTerminal`, `DoneIsQueued`, `JobsFinish`, `StopCompletes`), which are out
of the prover's reach; and `TimelineIsExact`, which is about folds over sequences
and would need induction over data.

## Findings

* `AnswerIsTrue` (`task_service.go:229`): a cancellation that loses its
  conditional update to the transition CREATED to RUNNING answers
  `already_terminal` for a task that is running and goes on.
* `PollerFindsRaw` (`task.go:687`): under the v2 object layout the poller does
  not see uploaded objects, so it is no fallback for a lost callback.
* `ReadFailureIsReported` (`parquet_query_signals.go:207`): once the hot table was
  cleaned up, a metrics query whose block cannot be read answers with an empty
  success; the comment at the head of the file promises a partial-coverage
  error, which the cpu query returns.
* `LateWorkerIsSilent` (`analysis_daemon.py:591`): the analysis status of the
  task is written without looking at the lease.

Behaviour worth knowing that contradicts no promise checked here: a restarted
drop_server may hand out an attempt again that was fetched after the last
snapshot; the last snapshot is taken before `Shutdown`, so an attempt accepted in
between is lost; an attempt whose result could not be delivered stays in
`running_`, and a cancellation of it is never confirmed; a late error report
takes a task from DONE to FAILED; outbox and reconciler may both send a task.
Of the newer parts: a crash after the claim of a trigger loses that slot; the
overlap check of schedules does not exclude two plans that check at the same
time; `next_run_at` is written from a copy read earlier; a late refresh may take a
composite task that is DONE or canceled back to RUNNING, until the next one; a
delayed `stopping` report after `stopped` stays in `observed_state`; the one
check that read the disk before a halt still counts towards the recovery; a
quarantined migration failure deletes the window row it stands for; the detail
view of an agent writes an identity without cleaning up; a detector that
stops before its mark may fire again within the cooldown.

Of the continuous data, and the reason for `gone`:

* A batch that is uploaded again after retention deleted its row, but before
  retention deletes its object, is left with a row and windows whose object is
  gone. In the same way it may be summarised a second time, or be deleted without
  a summary by a compaction that had already listed it as removed.
* `pqReclaimV1Blocks` drops an hour block once receipts cover its members, while
  rows of these members may still name it. A later start in a mode that
  reads the old generation finds rows without an object. The comment at
  `parquet_mode.go:423` rules out a deleted object with an active reference; it is
  about a block without rows, and no run checks it by itself.

## Not modelled

* Samplers, runners and analyzers: kernel interfaces and pure transformations of
  profile formats.
* The front end, the demo programs, users, groups and access checks: no concurrent
  state.
* The repair of duplicate continuous windows (`continuous_repair.go`): it is for
  rows that earlier versions left.
* Parts of modelled components: the registry of agents inside drop_server,
  fail-over between several drop_servers, graceful shutdown of the agent,
  database errors in the dispatcher, registration of analysis outputs as a part of a
  job, the inputs of active jobs as a protection against deletion, statistics and
  metrics.
* Compositions: `TaskLifecycle` with `Collection` (which attempt a cancellation
  reaches) and `AnalysisJobs` with `BlobStore` (a re-analysis against the deletion of
  its input). Neither is built: each is needed before anything can be stated about
  the hazard it is named for.
