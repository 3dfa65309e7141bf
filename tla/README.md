# OhMyCine Server in TLA+

OhMyCine Server is a Go program that downloads, transfers, organises and
catalogues media. All of its durable state is in one SQLite database that one
process opens exclusively. Work that takes time is a *job*: a row of the `jobs`
table, claimed under a lease by a worker goroutine of the same process. This
directory models the parts whose correctness depends on the order of things: the
job queue, the scheduler that runs the jobs, the admission of catalog write
transactions, the ledger of physical writes with the retirement of a library, the
layered snapshots of the catalogue, and the way of a change from the catalogue to
the players and media servers. It lists the rest with the reason it is left out.

    JobQueue.tla           the jobs table and every transaction on it
    Scheduler.tla          goroutines, keepalives and controls on top of JobQueue
    WriteAdmission.tla     one catalog write at a time, foreground first
    PhysicalWrite.tla      the ledger of physical writes, repairs, retirement
    CatalogView.tla        what the catalogue promises, without layers or leases
    CatalogSnapshot.tla    snapshots, candidates, compaction, bindings, collection
    MediaRefresh.tla       change feed, dispatch marker, refresh targets and jobs
    *Proofs.tla            theorems, checked by TLAPS
    MC*.tla, MC*.cfg       instances for TLC
    PROJECT.json           components, runs, mutants, source map, findings,
                           hazards and theorems

Run a model with `tlc -config MCJobQueue.cfg MCJobQueue`, check the proofs of a
module with `tlapm JobQueueProofs.tla`.

## 1. Inventory

### How the parts hang together

HTTP handlers call services; services change rows in transactions and enqueue
jobs; `Scheduler.loop` claims jobs, starts a goroutine for each and stores what
the worker returns; workers call providers (downloaders, cloud drives, media
servers) and enqueue the jobs that follow. There are three ways for parts to
meet: rows of the database (each transaction is atomic; SQLite serialises
writers), the in-memory map `Scheduler.running`, through which a control reaches
a goroutine, and `CatalogWriteAdmission`, which orders catalog writers before
they reach SQLite.

| Component | State | Operations | What is hard about it | What makes it correct |
|---|---|---|---|---|
| Job queue (`queue.go`) | `jobs`, `job_attempts`, `job_action_requests`, `queue_policies` | enqueue, coalesce, pause, resume, cancel, retry, reorder, respond, claim, renew, checkpoint, wait, complete, fail, retry later, acknowledge or reject a control, promote, recover | any operation may come between any two; leases run out; a control outlives the claim it was meant for | lease, attempt, intent, time and status columns agree; controls are honoured; finished jobs stay finished; limits hold; lost jobs resume |
| Scheduler (`scheduler.go`) | `running`, one goroutine, context and keepalive per claim, goroutines of `interrupt` | dispatch, register, refresh, run, acknowledge, finish, keepalive, interrupt, start, close | claims of one job overlap; a control commits before, between or after claim and registration; late provider answers; crash at any point | only the holder of a lease writes; no control is lost; a worker without a lease stops; Close returns |
| Catalog write admission (`catalog_write_admission.go`) | two queues, `active`, a grant per waiter | enter, be admitted, give up, write, release | a context ends in the moment of the grant | one writer, nobody forgotten, foreground first |
| Physical write ledger (`catalog_physical_*.go`) | `catalog_physical_writes`: admitted, entered, quiescent, settled | admit, enter, settle, leave, recover the runtime, finalise | crash with an unknown outcome, a lease lost during physical I/O, a source that changed meanwhile | a call in flight is covered by its own entry; an unknown outcome holds the library still until it is accounted for |
| Structure repair, readiness (`media_library_structure*.go`, `media_library_readiness.go`) | the phase of a repair; busy and repairing derived from ledger, jobs and phases | start, cancel, retry, observe a cancelled one | a repair that failed, was cancelled or was retried at the wrong moment | nobody enters beside an unknown outcome |
| Library retirement (`media_library_retirement*.go`) | phase, frozen head, disabled producers | drain, release owners, collect, finalise | producers, running jobs and leases of the library | nothing of the library runs once it is gone; a retirement ends |
| Catalog snapshots (`catalog_snapshot*.go`, `catalog_compaction.go`, `catalog_maintenance.go`) | snapshots, heads, layers, references | begin, append, seal, publish, compact, bind, abandon, mark, collect | publication races compaction; references race collection; a worker dies halfway | every pin of a head or a held binding succeeds; authors never overwrite what they did not read; nobody sees a compaction; what nobody needs is collected |
| Media change and refresh (`media_change*.go`, `media_server_refresh.go`) | change rows, cleanup and dispatch markers, targets, their jobs | record, make ready, prune, poll, dispatch in batches, recover, refresh, edit a target | changes become ready out of order; crash between marker and job; a slow call returns after a newer one | the feed skips nothing; targets believe only in refreshes that happened; the newest revision is refreshed |
| Unified schedule (`unified_schedule.go`) | definitions, runs, `next_run_at` | poll, run, edit, misfire, overlap | reads before the transaction that acts on them, restarts over missed times | one run per occurrence, policy respected |
| Download, transfer, seeding | tasks beside their jobs | submit, poll, stop, cancel the pipeline | they also write `jobs` directly | the queue's invariants survive these writes |

`PROJECT.json` lists every other component with the reason it is left out: mostly
provider protocols, parsing, recognition, presentation, and row-per-request
persistence.

The hazards, each at the line where it bites and with the properties that watch
it, are the list `hazards` of `PROJECT.json`.

### Direct writers of the jobs table

Not every status change goes through `QueueService`. Three transactions of other
services move a job that may be active, and are actions of `JobQueue`:
`drainLibraryRetirementJobTx` (`Retire`), `cancelPipeline` (`CancelPipeline`) and
`SeedingService.finish` (`FinishSeeding`). Not modelled are
`supersedeObsoleteCatalogJobs` (cancels queued jobs of an older generation),
clearing of an error by download telemetry, annotations on cancelled jobs, and the
deletion of terminal rows from the history.

## 2. Modules and the code

### JobQueue

State: `job`, one record per row with the columns the code branches on (the head of
the module lists them), `policy`, and `gate`, the jobs that `libraryJobBlocked`
hides from `Claim`. Each operation is one transaction of the code and one action.
Three abstractions are worth knowing:

* *Time is relative.* `left` is `lease_expires_at - now` and `next` is
  `next_attempt_at - now`, both stopping at 0, so that `Tick` needs no clock and no
  bound. `NoTime` is NULL.
* *Generations are one bit.* `behind` is `generation > started_generation`.
* *The attempts table is a count.* `streak` is what
  `consecutiveLeaseExpiryAttempts` would count, `open` whether the newest attempt
  is; `closeAttempt` is the only place that changes them besides `Claim`.

Counters saturate at `CountCap`, and `PolicyAssumption` keeps every `max_attempts`
at or below it, so that no comparison sees the difference. The unique index
`idx_jobs_active_coalescing` is `UniqueActive`: a transaction that would break it
does not happen. `Jobs` are rows, named in advance; `Enqueue` inserts one.

Left out because no branch reads them: progress, display names, payloads, revision
numbers (an optimistic check that fails changes nothing), permissions, audit, events.
`ExpiresAt` of an action request is never set by the code, so requests do not expire.

### Scheduler

Extends `JobQueue`; its steps on the table *are* the actions of `JobQueue`, made by
the right goroutine. A goroutine is named by the lease token of its claim. `work[t]`
holds its program counter, whether its context is cancelled, its keepalive and
what the refresh of the intent found; `running` is the map of the code; `calls` are
controls that have committed and whose `interrupt` is still to come; `asyncs` are the
goroutines `interrupt` starts for workers that ask a provider; `loop` and `stopping`
are the scheduler loop and `Close`.

| `work[t].pc` | in `dispatch` and its goroutine |
|---|---|
| claimed | after `Claim`, before `running[id]` is written |
| started | registered, keepalive on, before the durable intent is read again |
| interrupting | in the worker's `Interrupt`, for an intent found by the refresh |
| rejecting | about to call `RejectInterrupt` |
| run | in `worker.Run` |
| acking, finishing | about to store an acknowledgement, or the result |
| exiting | before the deferred `delete(s.running, id)` |

What `Run` does is left open: it may save, renew, and return any result at any time.
`Abandon` is every place where a queue operation fails and the goroutine logs and
returns; `LoopCallFails` the same for the loop. `AsyncRefusalLost` is the refusal of a
control that the database does not take, an error `interrupt` discards; the field `lost` of
the goroutine remembers the control until it comes again. It is history and steers nothing.
Storage errors, stops and crashes share the bound `MaxFaults`; errors that are a
consequence of a lost lease are free.
`Crash` and `Closed` empty everything in memory and leave the table alone. `Serving`
says that no control arrives once the scheduler is closing: `main` shuts the HTTP
server down (with a timeout of 10 s) before the deferred `scheduler.Close`.

Not modelled: the branch of `dispatch` for a type without a worker (`Claim` only
looks for registered types, so it is dead), and `recoverStoppedLoop`, which calls a
worker's own recovery. `Retire` may pick any frozen job where the code takes them in
order of id, which allows more.

### WriteAdmission

A writer is a goroutine in `withWrite`; each section under the mutex is one action,
and so is the choice of the `select`, which may take `ctx.Done()` although the waiter
has been let in. `Leave` and `Release` include the `dispatchLocked` they end with.
Entering a full queue or with a finished context returns an error and changes
nothing, and is therefore no step. Statistics are left out.

### PhysicalWrite

The ledger of one library. An owner is a transfer or reorganisation task or a
structure repair, with a job of its own; `ledger[o]` is its row of
`catalog_physical_writes` with the lease, the runtime, the source epoch and the
configuration under which it was entered, and a revision that every change of state
raises. `work[k]` is the goroutine of claim `k` and the permit (the revision) it holds;
it outlives its lease, as the goroutine in the code does.

| Action | Code |
|---|---|
| `Register`, `Enter`, `Settle` | `RegisterCatalogPhysicalOwnerTx`, `EnterCatalogPhysicalWriteTx`, `SettleCatalogPhysicalWriteTx` with the transaction of the worker around them |
| `ExitAcknowledged`, `ExitUnacknowledged` | the deferred `quiesceCatalogPhysicalWrite` of a worker, which is written or fails within its five seconds |
| `Restart`, `RecoverRuntime`, `Start` | a new process, `RecoverCatalogPhysicalRuntimeBatch` until it finds nothing, and only then the scheduler |
| `AdoptStopped`, `SettleStopped`, `StopObserving` | the observer of a cancelled repair |
| `ChangeContext`, `DeleteRequest`, `Retire*` | what waits for the ledger: a new source or configuration, and the phases of a retirement |

`Busy`, `Repairing` and `CurrentRepair` translate the SQL of readiness, `Blocked` the
gate of `Claim`. "executing" stands for the executing and reconciling phases of a
repair, which nothing here tells apart, and "queued" for every status of a job that
waits without a lease; `JobQueue` has them all. Readiness *unavailable* (a disabled
storage or connection), which comes before repairing and busy, is left out: a disabled
storage refuses the entry earlier, and the connection is not modelled. The provider's call is a step that
returns, successfully or not. `MaxClaims`, `MaxContexts`, `MaxRuntimes`, `MaxRevs`
are bounds of the instances.

### CatalogSnapshot and CatalogView

One library whose catalogue is versioned. `layers` is the head's stack by rank, `facts`
what each snapshot states of each identity, `prefix` the compaction references and
`binding` the references of long-running work. A preparation takes many transactions,
and `work[s]` is what its worker remembers between them: the head it read, the cursor
and the batch of the copy, whether validation passed, and its authority. `auth` folds
two leases, the candidate's own and that of the job which began it, into what anybody
can tell from them: *held* (both live: it may act), *lapsed* (it may not act, nobody may
abandon it yet) and *gone* (maintenance may).

`OwnedCandidate` is the check every step repeats; `CompactionPrefix` is why a compaction
alone survives a newer head. `Visible` is `effectiveSQL`: the highest layer that
mentions an identity wins, and tombstones are dropped after that. The three tables of
facts behave alike and are one; identity anchors and collections, the check of free disk
space, the limit on bases across libraries, and the conversion of an unversioned library
(no production code starts one) are left out.

`CatalogView` knows none of this: a set of rows, drafts with the rows their author read,
and bindings. `ImplementsView` maps `Visible(layers)`, the live candidates that are no
compaction, and the bindings onto it. That a compaction, the collector, a lost worker or
a new configuration is a stutter, or drops drafts, is what the refinement says of them.

### MediaRefresh

Changes get a revision when they are recorded and a new sequence when they become ready;
`rows` holds both. `MarkGenerationReady` publishes the newest change of each kind for
the artifacts of a whole generation and leaves the rest to the cleanup marker,
`MarkBatchReady` publishes the changes of one batch. `dispatch` is the marker that
carries the newest revision to the targets in batches. Creating a job and linking it to its target are two
transactions, made by the dispatcher goroutine or by a web request: `caller` is what each
is doing. `work[k]` is the goroutine of a refresh job with the desired revision it read
before the call. `player` polls the feed in two queries. `ready`, `reached` and `stood`
are history: they record the order of readiness, what an accepted call came after, and
the newest revision published for a whole generation.

The queue is reduced to the newest job of each target and the statuses a refresh job can
be in without controls; pausing a refresh job is left to `JobQueue`. `Update` compares the
newest ready revision with a `desired_revision` it read just before its transaction; the
model reads both in it, which differs only when retention has meanwhile removed the
change with the highest revision. Once a target has failed for good its
`last_status` keeps it out of recovery, so later revisions wait for a retry or an edit:
that is the exception in `ReadyIsRefreshed`.

Retention (`Prune`) keeps the newest change by *sequence*, while a target that is created
or enabled starts from the newest *revision* in the feed. The two differ after a late
change; `NewestRetained` says that they have not come apart, and `NewestReachesTargets`
is stated for as long as it holds (section 5).

## 3. What the runs check

All passing runs explore their instance completely. Sizes are distinct states.

| Run | Instance | Shows |
|---|---|---|
| `queue_operations` | a download and its seeding job, both provider-controlled, free interleaving (0.9 M) | columns agree after every sequence (`LeaseMatchesRunning`, `IntentIsAnswerable`, `NoStrandedJob`, `FinishedMeansTerminal`); controls are honoured and finished jobs stay finished (`IntentIsHonoured`, `TerminalStays`) |
| `queue_policy` | two jobs of one lane and one resource, two policies that replace each other, a gated job (1.4 M) | `CapacityRespected` at every claim, and `GivenUpAfterEnoughLosses` |
| `queue_lost_worker` | two jobs of one coalescing key, a policy that stays, retirement (0.3 M) | `CompletedServesLatest`; `LostWorkerResumes` under fairness |
| `queue_shared_key` | the same with a policy that may be raised | *violation* of `LostWorkerResumes`, finding 1 |
| `scheduler_control` | a provider download with every control, retirement and pipeline cancellation, two calls on their way, one fault (181 k) | `RegisteredHearsControl`, `RunKeepsLease` (a worker in Run loses its lease to time or to the pipeline only), `ControlAnswered` |
| `scheduler_worker` | a coalescing job, two tokens, starved workers, two faults (83 k) | `ImplementsQueue`: the scheduler refines the queue; `LostRunStops`, `CloseReturns` |
| `admission` | three foreground and two background writers (7 k) | one writer, nobody forgotten, limits, no deadlock, and every foreground writer is served |
| `catalog_snapshot` | a base, a delta that deletes one of its rows, a compaction, and one more snapshot that is a delta, a full scan or a new source; a bound owner, two configurations (183 k) | `HeadReadable`, `BoundReadable`, `CompactionExact`, `ImplementsView`, and `CollectedInTheEnd` under fairness |
| `physical_write` | a task and a repair, two claims, two processes, configuration changes, a retirement (749 k) | `CallHoldsEntry`, `FrozenWhilePending`, `RetiredQuiet`, `OutcomeAccounted`, `TaskEntersAlone`, and `RetirementEnds` under fairness |
| `physical_fence` | the same with three claims | *violation* of `PhysicalFence`, finding 2 |
| `media_refresh` | five scenarios with budgets of their own: the feed with one and two kinds of change, retention and a poll; a target with two changes and a fault; a target being created; a target with two requests (714 k) | `FeedTellsEverything`, `NewestReachesTargets`, `RefreshedIsTrue`, `NothingVanishes`, and `ReadyIsRefreshed` under fairness |
| `media_refresh_late` | two changes that become ready out of order | *violation* of `NoReadyChangeForgotten`, finding 3 |

Deadlock is checked in `admission`, where somebody can always go on. It is not reported
elsewhere: with every job finished, every bound used up, there is nothing left to do.

Each module has one type invariant, checked in one run; that of `Scheduler`
(`SchedTypeOK`) is proved instead, and so is `ForegroundFirst` of the admission. Every property of a passing run
has a mutant in `PROJECT.json`, a definition marked *Mutant* in the module, with which
TLC finds the property violated.

### Bounds, and why they are enough

* *Two jobs, two tokens* in the queue (one token where the jobs share a key, as only
  one of them can run): what one row does depends on other rows only
  through the limits of `Claim`, the unique index, the order of a lane and the
  pipeline, all of which relate two rows. The theorems lift the bound for every
  invariant and action property of the queue.
* *One job* in the scheduler: the hard cases are overlapping claims of the same job, for
  which `scheduler_worker` has two tokens. Goroutines of different jobs meet only in the
  queue's limits. `scheduler_control` has one token, since with `Punctual` only a crash
  loses a lease and a crash ends the goroutine too; that controls reach the right claim
  when claims overlap is what the theorem on `RegisteredHearsControl` covers.
* *`leaseTicks` 1 or 2, `MaxDelay` 0 or 1*: a lease is live, about to end or over, and
  a retry is due or not yet.
* *`CountCap` and `max_attempts` up to 2* in the queue: one loss forgiven, the
  second not, and one good attempt in between. The scheduler runs that are not about
  attempts use 1.
* *`MaxFaults` 1 or 2, `MaxCalls` 0 or 2*: a failure at any point, and in
  `scheduler_worker` another one before or after `Close`; two controls on their way at
  once where a second can overtake the first (a retirement after a pause). The theorems
  hold for any bound.
* *`ForegroundCap` 2, `BackgroundCap` 1* with five writers: either queue can be full
  while another writer of its kind stands outside.
* *Two owners, two claims, two processes* in the ledger: the second claim may be of the
  same owner, while the goroutine of the first is still calling, or of the other one. The
  finding takes three claims. The theorems lift the bounds for everything but
  `RetirementEnds`.
* *Four snapshots, two identities, `MaxDeltas` 2* in the catalogue: a delta is published
  under a compaction that copies row by row, a limit of rows is met (`MaxDeltaRows` 3),
  and there is a row only the base states, one a delta deletes, and both preparations of
  the budget at work. `MaxRevision` 4 leaves room for two publications and no more. The
  theorems lift the bounds for everything but `CollectedInTheEnd`.
* *One target, `Batch` 1* in the refresh: a batch ends after the target, so that the
  marker is alive while newer revisions arrive; targets meet only in the order of the
  marker. Two kinds of change, up to three changes, and one fault, poll or pruning at any
  point; `MaxAttempts` 2 lets a job fail once and be retried. The theorems lift the
  bounds for everything but `ReadyIsRefreshed`.

Symmetry over tokens is used where only safety is checked.

### Fairness

`QueueFairSpec`: time passes, and the loop's ticker keeps calling
`PromoteDueRetries` and `RecoverExpiredLeases`. Nothing is assumed of users or workers.

`SchedFairSpec`: a goroutine that can go on does (Go's scheduler); the keepalive timer
fires, and renews or finds the lease lost; `interrupt`'s goroutine ends, as the call to the provider has a timeout of 20 s;
a `Run` whose context is cancelled returns, which is the contract of `Worker`; the loop
gets through a tick it has begun. Strong fairness is assumed for the two branches of
the loop's `select` that compete with wakeups (`TickPromotes`, `LoopReturns`): Go
chooses at random among ready cases. `Start` is fair: a process that went down is
started again. `SchedFiniteSpec` adds that `Run` returns even if nobody stops it, and
is used only for `ControlAnswered`. There, `Punctual` also assumes that a live
goroutine is not starved past its lease; without it a control may be recovered, claimed
and lost for ever. A crash still loses leases.

`FairSpec` of `WriteAdmission`: goroutines go on and write transactions end. Nothing is
assumed for background writers, which may starve by design.

`FairSpec` of `PhysicalWrite`: a started process recovers the ledger before it serves; a
goroutine goes on and its external call returns (each has a timeout); the lease of a job
whose goroutine is gone runs out; the retirement's job is retried until it is done.

`FairSpec` of `CatalogSnapshot`: the maintenance loop abandons, marks and collects for as
long as the process runs, and a lapsed authority runs out. Workers owe nothing.

`FairSpec` of `MediaRefresh`: the dispatcher's loop dispatches and recovers (dispatching
is strongly fair, as `Run` calls `DispatchBatch` before it waits for the ticker that
recovers), the scheduler claims what is due and notices leases nobody renews, a web request is answered,
and the call to the media server has a timeout of 20 s.

## 4. What is proved

The theorems hold for all values of the constants that satisfy the named
assumptions: any finite set of jobs, any tokens, policies within the limits of
`UpdatePolicy`, any bound on faults and calls, any capacities.

### JobQueueProofs

`QueueInvariant` proves `QueueSpec => []QInv`. `QInv` is `TypeOK`, the row predicate
`RowInv` (`LeaseRow`, `IntentRow`, `ParkedRow`, `FinishedRow`, `ServedRow`) of every
row, and the uniqueness of leases. None of the row parts is inductive alone: that an
acknowledged or refused control leaves a consistent row behind takes what the lease and
parking parts say of the row before, and that `Complete` may overwrite a row takes the
intent part; `FinishSeeding`, which ignores the intent, needs the exception for seeding
jobs in the invariant. The proof has two layers. One lemma per row transformation
(`CoalesceKept`, `AcknowledgeKept`, `RecoverLostKept`, ...) says that the new row
satisfies `RowInv` and holds no lease the old one did not hold; then one lemma per group
of actions shows which transformation each action applies to which rows. `TypesHold`,
`LeasesMatch`, `IntentsAnswerable`, `NobodyStranded`, `FinishedAgrees` and
`LatestServed` follow; `TerminalIsFinal` and `IntentsHonoured` prove two action
properties from it.

`LimitsHold` proves `CapacityRespected`: no step takes a limit of the policy in force past
its value. `LifeStep` says what a step can do to the set of live leases: a claim brings
one to life, and every other operation, the recovery of many rows at once included, keeps
or ends them. `ClaimAddsOne` counts the rows of a type or resource after a claim, and
`ClaimFits` compares the count with what `Claim` looked at. `GivenUpFairly` proves
`GivenUpAfterEnoughLosses`: a job that fails for lost leases has lost as many in a row as
its policy allows. It needs from `QInv` that a running row has an open attempt, so that
closing it counts, and from `PolicyAssumption` that a count which saturates is not below
the limit.

### SchedulerProofs

`SchedulerInvariant` proves that the queue's invariant and `SInv` always hold; `SInv`
gives the scheduler's variables their types and says of each goroutine that it has a
job, and an intent where it is about to refuse one. `SchedulerImplementsQueue` proves
`SchedSpec => QueueSpec`: every step of the scheduler is a step of the queue or leaves
the queue's variables alone (`StepMaps`), so the theorems on the queue hold under the
scheduler too. `SchedulerTypes` is the type invariant.

`RegisteredAlwaysHears` proves that a control of a registered worker is never lost, but
for the one way the code has to lose it: a refusal of that very control met a storage
error (`AsyncRefusalLost`). `RegisteredHearsControl` is not inductive: it says nothing of a goroutine that is about
to refuse an older control and then goes on to Run, and it counts any call for the job,
although a refusal of another intent changes nothing. The inductive form is `HInv`:
whoever is registered, holds its lease and is in Run, or on its way there past another
control, while a control is unanswered (`Waits`) is being stopped, or a call or an async
with that very control is on its way, or its refusal is among the lost (`Heard`). The
induction turns on `Refresh`, which reads the intent after registration and so sees a control that committed earlier, and on
`Notify`, which finds the registration for one that commits later. `RowKeeps` says which
steps of the queue leave lease and intent alone. `HInv` was checked with TLC before it
was proved.

`LeaseOfRunStays` proves `RunKeepsLease`: a worker in Run loses its lease to time or to
the cancellation of its pipeline only. The dangerous step is a late refusal. The goroutine
of `interrupt` may call `RejectInterrupt` long after the control, and a refusal sends a
row back to the status it had when the control came, without its lease if that was paused
or failed. `RInv` says that this does not hit a worker in Run: whoever holds its lease and
is in Run, or on its way there past a control it refuses, has a row with no such status to
restore. It is inductive because `Refresh` lets nobody into Run whose row has one (the
refusal releases the lease then), and because no step gives a running row one
(`RowKeeps`).

### WriteAdmissionProofs

`AdmissionTypes`, `OneWriterAlways`, `NobodyForgottenEver` and `ForegroundAlwaysFirst`
follow from one inductive invariant, `Inv`: who holds the slot, who stands in which
queue, that the queues respect their limits, and that the slot is in use while anybody
is queued. `OneWriter` alone is not inductive: the waiter that `Dispatch` lets in must
not be outside, or let in already, which is what the contents of the queues say. The
lemmas `Appended`, `FirstTaken` and `Removed` state what `Append`, `Tail` and
`RemoveFirst` do to a sequence without repetitions.

### PhysicalWriteProofs

`SpecInv` proves `Spec => []IInv` for any owners, repairs and bounds, with
`IInv == TypeOK /\ WorkOwned /\ DownIsStill /\ CallHoldsEntry /\ RetiredQuiet /\
FrozenWhilePending`. `CallHoldsEntry` is the heart of it and is not inductive: that a
recovery of the runtime takes no entry from under a call needs `DownIsStill` (while the
process is not serving, no goroutine is left), and `WorkOwned` says that a goroutine
belongs to an owner, whose row and job it can look at.
`RetiredQuiet` needs `CallHoldsEntry`, since the retirement looks at rows and not at
goroutines, and `FrozenWhilePending` needs that the change of the context waits for every
pending row. The proof has one lemma per conjunct (`TypeStep`, `WorkOwnedStep`,
`DownStep`, `CallStep`, `RetiredStep`, `FrozenStep`) with one step per action.
`SpecTaskEntersAlone` and `SpecOutcomeAccounted` prove the two action properties: who may
open, and who may close, an outcome. `IInv` was checked with TLC first.

### CatalogSnapshotProofs

`SpecInv` proves `Spec => []IInv` for any snapshots, rows, owners, configurations and
limits. `NoneAssumption` says that the value for *nothing* is neither a binding nor a
draft.
The parts of `IInv` and what they are for:

* `HeadReadable`, with `HeadOrdered`: the layers of the head differ, and none is newer
  than the head. Publication and compaction replace layers, and only different ones can
  be told apart.
* `WorkerKnows`: a preparation has the parent and the kind its worker believes in, and
  the rows the worker read are those of the catalogue while the head has not moved. A
  worker acts on what it read many transactions ago, and this is what the optimistic
  check of the parent revision buys.
* `PrefixHeld`: what a live compaction refers to is published. It keeps the collector
  away from layers that have left the head but are still being copied.
* `CopySound`: after each batch the copy agrees with the layers read up to the cursor, the
  batch in the worker's hands is the next row, and a compaction is frozen only when it is
  complete. `CompactionExact` is not inductive without the cursor.
* `BindingSound`: the layers of a binding are published while it is held, and state the
  rows it captured while they all are. A binding that was released may be reacquired, so
  this has to hold of bindings nobody holds.

`SpecTypeOK`, `SpecHeadReadable`, `SpecBoundReadable` and `SpecCompactionExact` follow.
`SpecImplementsView` proves the refinement, `Spec => ImplementsView`: the initial state
maps to one of `CatalogView`, and each step to a step or a stutter. `OverlayRows` says
that publishing one more layer changes the visible rows the way `CatalogView` overlays a
draft, `OneDraft` that a step of one preparation touches no draft but its own, and
`SilentStep` that a step which leaves drafts, bindings and layers alone is a stutter.
That publishing a compaction is one too is `CompactionExact` once more.

### MediaRefreshProofs

`SpecInv` proves `Spec => []IInv` for any targets, kinds of change, batch, tokens and
budgets. `IInv` has the three invariants of the runs, none of which is inductive, and

* `RoomLeft`, `AskedRoom`: budgets and counters fit the bounds. Each change takes one
  sequence when it is recorded and one when it becomes ready, which bounds them by twice
  the revisions; the type invariant needs it.
* `FeedOrdered`, `ReadyKnown`: the feed is behind the counters of the library, pending
  changes stand in the order of their revisions, and the history is right about who is
  ready. A sequence taken at readiness is then past every cursor, which with
  `PlayerBehind` gives `FeedTellsEverything`.
* `CleanupSound`: what the cleanup marker has written off is older than a change published
  in its place. `NothingVanishes` rests on it.
* `MarkerReady`, `TargetsReady`: nobody asks for a revision that was not ready.
* `CallKnows`: a call began after the revision its goroutine read was ready, which gives
  `RefreshedIsTrue` however late the call returns.

The lemmas on `Largest`, `FirstOf` and the new sequences of a published set are proved
from the cardinality of finite sets and the least element of a set of naturals.
`SpecTypeOK`, `SpecFeedTellsEverything`, `SpecNewestReachesTargets` and
`SpecRefreshedIsTrue` follow, and `SpecNothingVanishes` proves the action property. `IInv`
was checked with TLC first. The proof of `NewestReachesTargets` failed at the enabling of
a target after retention; TLC's instance had not reached that case, and the antecedent
`NewestRetained` and a point of section 5 came of it.

### Only model-checked

Liveness: `LostWorkerResumes`, `LostRunStops`, `CloseReturns`, `ControlAnswered`,
`ForegroundServed`, `RetirementEnds`, `CollectedInTheEnd` and `ReadyIsRefreshed`. Liveness
under fairness is out of the prover's reach, as are `ENABLED` and induction over data.
Every invariant and every action property of a passing run has a theorem.

## 5. Findings

1. **A failed job of a coalescing key can stop the recovery of every lost job**
   (`queue_shared_key`). `RecoverExpiredLeases` reopens jobs that failed for lost leases
   when `max_attempts` has been raised since. If a newer job of the same key is active,
   the update breaks the unique index and rolls back the whole transaction, again on
   every tick; `Start` fails with the same error.
2. **A retried repair enters beside a pending outcome** (`physical_fence`).
   `EnterCatalogPhysicalWriteTx` looks for the pending writes of others only while
   readiness is *busy*. A repair that failed before it entered anything, and is retried
   after a task entered, makes readiness *repairing*, and enters with no look at the
   task, whose call may still be in flight; a comment in the busy branch says that
   another owner's evidence is never a permit to cross the library-wide fence.
   `TaskEntersAlone` shows that tasks never do this.
3. **A change that becomes ready late starts no refresh** (`media_refresh_late`). Its
   marker carries its own, smaller revision, and no target has a smaller desired one.
   The design document says that ready changes advance all enabled targets.
   `FeedTellsEverything` shows that players still hear of it.

Further behaviours are worth a reader's attention:

* A late goroutine's `delete(s.running, id)` (`scheduler.go:317`) goes by the job: after a
  lost lease it hits the entry of the next claim, and a control then finds nobody to stop
  until that job ends or its lease does. `RegisteredHearsControl` is about workers that
  are still registered for this reason.
* The goroutine of `interrupt` discards the error of `RejectInterrupt` (`scheduler.go:152`).
  If the provider refuses a control and the refusal meets a storage error, the worker runs
  on with the control pending, nothing is on its way to it, and no other control is
  accepted; when Run ends the refused control is acknowledged as if it had been carried
  out. `docs/architecture/02-server-design.md:101` says that a cancel the provider
  fails is not feigned. This is the exception `lost` in `RegisteredHearsControl`;
  `ControlAnswered` holds with it.
* A cancel can be acknowledged before the provider was asked (`queue.go:1276`), if `Run`
  ends by itself while `Interrupt` is on its way; a comment in `seeding.go` says that the
  provider cleans up first.
* Cancelling a pipeline takes the lease of a worker in Run (`download.go:1338`): the
  exception in `RunKeepsLease`.
* A job that asks the user a question while a control is pending keeps the intent and
  refuses further controls until the question is answered (the exception in
  `ControlAnswered`), and `Stop` completes a queued seeding job over a pending control
  (the exceptions in `IntentIsAnswerable` and `IntentIsHonoured`).
* Retention goes by sequence (`media_change.go:197`), and a target that is created or
  enabled starts from the newest revision (`media_server_refresh.go:502`). After a change
  that became ready late, the change with the newest revision is not the one with the
  newest sequence, and retention can delete it; a target enabled then starts from less,
  and no marker brings it the rest. A comment (`media_change_dispatch.go:15`) says that
  retention cannot lose the newest desired refresh. This is the antecedent
  `NewestRetained` of `NewestReachesTargets`; the next change repairs it.
* A write whose exit was never recorded, because the acknowledgement itself failed, keeps
  its library busy until the next restart (the exception in `RetirementEnds`).

## 6. Not modelled, and why

The repository has 180 thousand lines, and the modules stand for a few thousand of them.
The rest is mostly provider protocols (clients of cloud drives, downloaders, sites, media
servers), recognition and parsing of names, HTTP handlers, DTOs and the web UI, and
services that change one row per request: code in which the order of steps of several
actors plays no part, and which a model would only restate. Of what does have such
steps, these are left out:

* *Unified schedule*: decides when a job is enqueued. It has two races: the overlap check
  reads the active runs outside the transaction that enqueues the next one
  (`unified_schedule.go:617`), and `Poll` acts on a definition it read earlier
  (`unified_schedule.go:637`); the second is in the list of hazards, without a property.
* *Catalog conversion*: no production code starts one.
* *Artifact receipts*: in `PhysicalWrite` only owners with a job are modelled, so neither
  artifact executions with a receipt per file nor deletions inside a request.
* *Download, transfer, seeding*: the transactions with which they move each other's
  jobs are in `JobQueue`, and a transfer is a task of `PhysicalWrite`; submission, polling,
  manifests and file operations are not modelled.
* *`supersedeObsoleteCatalogJobs`* and the queue's event hub: see `PROJECT.json`.

## 7. Plan

Done: the queue, the scheduler, the admission, the ledger with retirement, the snapshots
with their abstract specification, and the media refresh; theorems for all six, which
state every invariant, every action property and both refinements that the runs check.

Next, in this order:

1. An abstract specification of the queue (a job and its outcome, without leases or
   attempts) that `JobQueue` implements, and one of the ledger that `PhysicalWrite` does.
2. `UnifiedSchedule` over an abstraction of the queue, with the two races of section 6.
3. `DownloadPipeline` with `Transfer` where they enqueue and cancel each other's jobs.
