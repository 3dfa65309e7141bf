------------------------------ MODULE JobQueue ------------------------------
(***************************************************************************)
(* The durable job queue of internal/services/queue.go.                    *)
(*                                                                         *)
(* Every operation of QueueService is one SQLite transaction on the jobs   *)
(* table, so every operation is one action here.  A row of the table is a  *)
(* record; the columns kept are the ones the code branches on:             *)
(*                                                                         *)
(*   status    jobs.status, or "absent" for a row not inserted yet         *)
(*   intr      jobs.interrupt_status: the pause or cancel intent that      *)
(*             Control recorded and that no worker has answered yet        *)
(*   asked     jobs.cancellation_asked                                     *)
(*   lease     jobs.lease_token_hash (SHA-256 is injective here, so the    *)
(*             hash is the token itself)                                   *)
(*   left      lease_expires_at - now, never below 0: the lease is live    *)
(*             exactly when left > 0                                       *)
(*   next      next_attempt_at - now, never below 0, or NoTime for NULL    *)
(*   code      jobs.last_error_code, by the classes the code tells apart   *)
(*   fails     jobs.failure_retry_count (saturating at CountCap)           *)
(*   streak    length of the run of newest closed attempts that ended with *)
(*             worker_lease_expired (saturating at CountCap)               *)
(*   finished  jobs.finished_at IS NOT NULL                                *)
(*   behind    jobs.generation > jobs.started_generation                   *)
(*   open      the newest job_attempts row has finished_at IS NULL         *)
(*   origin    checkpoint_json.provider_control.origin_status              *)
(*   asking    some job_action_requests row of the job has no response     *)
(*   pos       jobs.lane_position / 1000                                   *)
(*   born      order of insertion (created_at)                             *)
(*                                                                         *)
(* Times are kept relative to now, so the clock itself needs no variable   *)
(* and no bound.                                                           *)
(***************************************************************************)
EXTENDS Integers, FiniteSets

CONSTANTS
    Jobs,               \* the rows that may be inserted
    Types,              \* the job types that have a QueuePolicy
    JobType,            \* [Jobs -> Types]
    TypeRank,           \* [Types -> Int], the order of policies by job_type
    Priority,           \* [Jobs -> Int]
    Resources,          \* the resource keys in use
    Resource,           \* [Jobs -> Resources \cup {NoResource}]
    NoResource,         \* the empty resource key
    Keys,               \* the coalescing keys in use
    Key,                \* [Jobs -> Keys \cup {NoKey}]: type, resource and
                        \* coalescing key together
    NoKey,              \* the empty coalescing key
    ProviderControlled, \* jobs of a download or seeding type with a real provider
    Seeding,            \* the jobs of type seeding
    Downloads,          \* the jobs of a download task, which head a pipeline
    Stages,             \* [Downloads -> SUBSET Jobs]: its transfer and seeding jobs
    Retirable,          \* jobs frozen by a library retirement
    Gated,              \* jobs whose library or connection may become unready
    Tokens,             \* lease tokens
    NoToken,            \* the empty lease_token_hash
    Policies,           \* the QueuePolicy values an administrator may store
    InitPolicy,         \* the QueuePolicy values at start, [Types -> Policies]
    MaxDelay,           \* longest retry delay, in ticks
    CountCap            \* where the saturating counters stop

ASSUME AttributesAssumption ==
    /\ JobType \in [Jobs -> Types]
    /\ TypeRank \in [Types -> Int]
    /\ Priority \in [Jobs -> Int]
    /\ Resource \in [Jobs -> Resources \cup {NoResource}]
    /\ Key \in [Jobs -> Keys \cup {NoKey}]
    /\ ProviderControlled \subseteq Jobs
    /\ Seeding \subseteq Jobs \ (Downloads \cup Retirable)
    /\ \A j \in Seeding : Key[j] = NoKey
    /\ Downloads \subseteq Jobs
    /\ Stages \in [Downloads -> SUBSET (Jobs \ Downloads)]
    /\ Retirable \subseteq Jobs
    /\ Gated \subseteq Jobs

ASSUME JobsAssumption == IsFiniteSet(Jobs)

ASSUME TokenAssumption == NoToken \notin Tokens

\* UpdatePolicy refuses anything below these limits; every max_attempts stays
\* distinguishable below the cap of the counters.
ASSUME PolicyAssumption ==
    /\ MaxDelay \in Nat
    /\ CountCap \in Nat
    /\ InitPolicy \in [Types -> Policies]
    /\ \A p \in Policies :
          /\ p.concurrency \in Nat \ {0}
          /\ p.resourceConcurrency \in Nat
          /\ p.maxAttempts \in 1..CountCap
          /\ p.leaseTicks \in Nat \ {0}

VARIABLES
    job,     \* the jobs table, [Jobs -> Row]
    policy,  \* the queue_policies table, [Types -> Policies]
    gate     \* the gated jobs whose library is not ready at the moment

queueVars == <<job, policy, gate>>

-----------------------------------------------------------------------------

Terminal == {"completed", "failed", "cancelled"}

\* activeJobStatuses: what a coalescing request may still join, and what the
\* partial unique index idx_jobs_active_coalescing ranges over.
Active == {"queued", "running", "waiting_user_action", "retry_wait", "paused"}

Status == {"absent"} \cup Active \cup Terminal

NoIntent == ""
Intents == {"paused", "cancelled"}

NoTime == -1

\* last_error_code by class: a lost worker, a recovered control intent, a
\* refused control, a failure that uses the retry budget, a wait that does not.
Codes == {"", "worker_lease_expired", "worker_interrupt_recovered",
          "control_failed", "failure", "credentials_required"}

\* retryWaitConsumesFailureBudget
ConsumesFailureBudget(code) == code \notin {"", "credentials_required"}

Row ==
    [status : Status, intr : {NoIntent} \cup Intents, asked : BOOLEAN,
     lease : Tokens \cup {NoToken}, left : Nat, next : {NoTime} \cup Nat,
     code : Codes, fails : 0..CountCap, streak : 0..CountCap,
     finished : BOOLEAN, behind : BOOLEAN, open : BOOLEAN,
     origin : {""} \cup Status, asking : BOOLEAN, pos : Nat, born : Nat]

AbsentRow ==
    [status |-> "absent", intr |-> NoIntent, asked |-> FALSE,
     lease |-> NoToken, left |-> 0, next |-> NoTime,
     code |-> "", fails |-> 0, streak |-> 0,
     finished |-> FALSE, behind |-> FALSE, open |-> FALSE,
     origin |-> "", asking |-> FALSE, pos |-> 0, born |-> 0]

Bump(n) == IF n < CountCap THEN n + 1 ELSE CountCap

Exists(j) == job[j].status # "absent"

PolicyOf(j) == policy[JobType[j]]

Write(j, row) == job' = [job EXCEPT ![j] = row]

\* The unique index: no two active rows share a coalescing key.  A transaction
\* whose update would break it is rolled back as a whole.
UniqueActive(rows) ==
    \A j, k \in Jobs :
        (j # k /\ Key[j] # NoKey /\ Key[j] = Key[k])
            => ~(rows[j].status \in Active /\ rows[k].status \in Active)

-----------------------------------------------------------------------------
\* Enqueueing

Lane(j) == {k \in Jobs : /\ Exists(k)
                         /\ JobType[k] = JobType[j]
                         /\ Priority[k] = Priority[j]}

\* p is COALESCE(MAX(lane_position), 0)
IsLastPosition(j, p) ==
    /\ \A k \in Lane(j) : job[k].pos <= p
    /\ Lane(j) = {} => p = 0

NewRow(p) ==
    [AbsentRow EXCEPT !.status = "queued", !.behind = TRUE, !.pos = p + 1,
                      !.born = Cardinality({k \in Jobs : Exists(k)}) + 1]

\* enqueueWith, no active job with the key: insert at the end of the lane.
Enqueue(j) ==
    /\ ~Exists(j)
    /\ \A k \in Jobs : (Key[k] = Key[j] /\ Key[j] # NoKey)
                            => job[k].status \notin Active
    /\ \E p \in {0} \cup {job[k].pos : k \in Lane(j)} :
          /\ IsLastPosition(j, p)
          /\ Write(j, NewRow(p))
    /\ UNCHANGED <<policy, gate>>

\* enqueueWith, an active job has the key: only its generation advances.
CoalesceRow(row) == [row EXCEPT !.behind = TRUE]

Coalesce(j) ==
    /\ Key[j] # NoKey
    /\ job[j].status \in Active
    /\ Write(j, CoalesceRow(job[j]))
    /\ UNCHANGED <<policy, gate>>

-----------------------------------------------------------------------------
\* Control by a user

\* releaseLease
ReleaseLease(row) == [row EXCEPT !.lease = NoToken, !.left = 0]

\* Mutant: the attempt is closed without its error code.
CloseAttemptForgetsCode(row, code) == [row EXCEPT !.open = FALSE, !.streak = 0]

\* closeAttempt: the newest attempt, if open, ends with the given code, which
\* extends or ends the run of lease expiries that consecutiveLeaseExpiryAttempts
\* counts.
CloseAttempt(row, code) ==
    [row EXCEPT !.open = FALSE,
                !.streak = IF ~row.open THEN row.streak
                           ELSE IF code = "worker_lease_expired"
                             THEN Bump(row.streak) ELSE 0]

\* A running job only gets the intent; its worker must answer it.
IntendRow(row, intent) == [row EXCEPT !.intr = intent, !.asked = TRUE]

\* Mutant: the open action request is left behind.
ProviderIntendRowLeavesRequest(row, intent) ==
    [row EXCEPT !.status = "queued", !.intr = intent, !.asked = TRUE,
                !.next = NoTime, !.origin = row.status]

\* A stopped provider job is queued again so that a worker can carry the
\* intent to the provider; setProviderControlOrigin remembers where it was,
\* and its open action requests are closed.
ProviderIntendRow(row, intent) ==
    [row EXCEPT !.status = "queued", !.intr = intent, !.asked = TRUE,
                !.next = NoTime, !.origin = row.status, !.asking = FALSE]

\* Mutant: a pause does not wait for the worker.
PauseRowAtOnce(j, row) ==
    IF j \in ProviderControlled /\ row.status # "running"
    THEN ProviderIntendRow(row, "paused")
    ELSE ReleaseLease([row EXCEPT !.status = "paused"])

PauseRow(j, row) ==
    IF row.status = "running" THEN IntendRow(row, "paused")
    ELSE IF j \in ProviderControlled THEN ProviderIntendRow(row, "paused")
    ELSE ReleaseLease([row EXCEPT !.status = "paused"])

CancelRow(j, row) ==
    IF row.status = "running" THEN IntendRow(row, "cancelled")
    ELSE IF j \in ProviderControlled
      THEN [ProviderIntendRow(row, "cancelled") EXCEPT !.finished = FALSE]
    ELSE ReleaseLease([row EXCEPT !.status = "cancelled", !.asked = TRUE,
                                  !.finished = TRUE])

ResumeRow(row) == [row EXCEPT !.status = "queued", !.next = NoTime]

\* Mutant: finished_at survives the retry.
RetryRowKeepsFinish(row) ==
    [row EXCEPT !.status = "queued", !.next = NoTime, !.code = "", !.fails = 0]

RetryRow(row) ==
    [row EXCEPT !.status = "queued", !.next = NoTime, !.finished = FALSE,
                !.code = "", !.fails = 0]

\* Control: refused while an earlier control is unanswered; from says which
\* statuses the action is for.
ControlWith(j, from, row) ==
    /\ job[j].intr = NoIntent
    /\ job[j].status \in from
    /\ Write(j, row)
    /\ UniqueActive(job')
    /\ UNCHANGED <<policy, gate>>

Pause(j)  == ControlWith(j, {"queued", "running", "retry_wait"},
                         PauseRow(j, job[j]))
Resume(j) == ControlWith(j, {"paused"}, ResumeRow(job[j]))
Cancel(j) == ControlWith(j, Status \ {"absent", "completed", "cancelled"},
                         CancelRow(j, job[j]))
Retry(j)  == ControlWith(j, {"failed"}, RetryRow(job[j]))

\* drainLibraryRetirementJobTx on a job the retirement froze.
RetireRow(row) ==
    IF row.status = "running" THEN IntendRow(row, "cancelled")
    ELSE [row EXCEPT !.status = "cancelled", !.intr = NoIntent, !.asked = TRUE,
                     !.next = NoTime, !.left = 0, !.finished = TRUE]

Retire(j) ==
    /\ j \in Retirable
    /\ Exists(j)
    /\ ~(job[j].status \in Terminal /\ job[j].finished /\ job[j].intr = NoIntent)
    /\ ~(job[j].status = "running" /\ job[j].intr = "cancelled" /\ job[j].asked)
    /\ job[j].status # "running" => job[j].lease = NoToken
    /\ Write(j, RetireRow(job[j]))
    /\ UNCHANGED <<policy, gate>>

\* cancelPipeline: the download is cancelled whatever its state, a later stage
\* unless it is completed.  The provider was told first, outside the transaction.
CancelPipelineRow(row) ==
    CloseAttempt(ReleaseLease(
        [row EXCEPT !.status = "cancelled", !.intr = NoIntent, !.asked = TRUE,
                    !.next = NoTime, !.finished = TRUE, !.asking = FALSE]), "")

\* Mutant: a completed later stage is cancelled too.
InPipelineCompletedToo(d, k) ==
    /\ k \in {d} \cup Stages[d]
    /\ job[k].status \notin {"absent", "cancelled"}

InPipeline(d, k) ==
    /\ k \in {d} \cup Stages[d]
    /\ job[k].status \notin {"absent", "cancelled"}
    /\ k # d => job[k].status # "completed"

CancelPipeline(d) ==
    /\ d \in Downloads
    /\ Exists(d)
    /\ job' = [k \in Jobs |-> IF InPipeline(d, k)
                                THEN CancelPipelineRow(job[k]) ELSE job[k]]
    /\ UNCHANGED <<policy, gate>>

\* SeedingService.finish, called by Stop: a stopped seeding job is completed on
\* the spot; its interrupt_status is not looked at.
FinishSeedingRow(row) ==
    [row EXCEPT !.status = "completed", !.next = NoTime, !.code = "",
                !.finished = TRUE]

FinishSeeding(j) ==
    /\ j \in Seeding
    /\ job[j].status \in {"queued", "retry_wait", "paused"}
    /\ Write(j, FinishSeedingRow(job[j]))
    /\ UNCHANGED <<policy, gate>>

\* Respond: the version in the request is that of the open action request.
RespondRow(row) == [row EXCEPT !.status = "queued", !.asking = FALSE]

Respond(j) ==
    /\ job[j].status = "waiting_user_action"
    /\ job[j].asking
    /\ Write(j, RespondRow(job[j]))
    /\ UNCHANGED <<policy, gate>>

\* Reorder: positions 1..n in the order the user chose, over exactly the
\* queued jobs of one lane (a stale view conflicts and changes nothing).
QueuedLane(j) == {k \in Lane(j) : job[k].status = "queued"}

Reorder(j) ==
    /\ job[j].status = "queued"
    /\ \E order \in [QueuedLane(j) -> 1..Cardinality(QueuedLane(j))] :
          /\ \A k, l \in QueuedLane(j) : k # l => order[k] # order[l]
          /\ job' = [k \in Jobs |->
                        IF k \in QueuedLane(j)
                          THEN [job[k] EXCEPT !.pos = order[k]] ELSE job[k]]
    /\ UNCHANGED <<policy, gate>>

\* UpdatePolicy
UpdatePolicy(ty) ==
    /\ \E p \in Policies : policy' = [policy EXCEPT ![ty] = p]
    /\ UNCHANGED <<job, gate>>

-----------------------------------------------------------------------------
\* Claiming

Live(row) == row.status = "running" /\ row.left > 0

LiveOfType(ty) == {j \in Jobs : JobType[j] = ty /\ Live(job[j])}

LiveOnResource(r) == {j \in Jobs : Resource[j] = r /\ Live(job[j])}

\* Mutant: the limits are off by one.
ClaimableOneMore(j) ==
    /\ job[j].status = "queued"
    /\ job[j].next \in {NoTime, 0}
    /\ Cardinality(LiveOfType(JobType[j])) <= PolicyOf(j).concurrency
    /\ j \notin gate

Claimable(j) ==
    /\ job[j].status = "queued"
    /\ job[j].next \in {NoTime, 0}
    /\ Cardinality(LiveOfType(JobType[j])) < PolicyOf(j).concurrency
    /\ j \notin gate
    /\ (PolicyOf(j).resourceConcurrency > 0 /\ Resource[j] # NoResource)
          => Cardinality(LiveOnResource(Resource[j]))
                < PolicyOf(j).resourceConcurrency

\* ORDER BY policies.job_type, then priority DESC, lane_position, created_at
Precedes(j, k) ==
    \/ TypeRank[JobType[j]] < TypeRank[JobType[k]]
    \/ /\ TypeRank[JobType[j]] = TypeRank[JobType[k]]
       /\ \/ Priority[j] > Priority[k]
          \/ /\ Priority[j] = Priority[k]
             /\ \/ job[j].pos < job[k].pos
                \/ /\ job[j].pos = job[k].pos
                   /\ job[j].born < job[k].born

ClaimRow(j, row, t) ==
    [row EXCEPT !.status = "running", !.lease = t,
                !.left = PolicyOf(j).leaseTicks,
                !.behind = FALSE, !.open = TRUE]

\* Claim with a token nobody holds a lease by.
Claim(j, t) ==
    /\ Claimable(j)
    /\ \A k \in Jobs \ {j} : Claimable(k) => Precedes(j, k)
    /\ \A k \in Jobs : job[k].lease # t
    /\ Write(j, ClaimRow(j, job[j], t))
    /\ UNCHANGED <<policy, gate>>

-----------------------------------------------------------------------------
\* What the holder of a lease may do.  verifyLease guards each of them.

HoldsLease(j, t) == /\ job[j].status = "running"
                    /\ job[j].lease = t
                    /\ job[j].left > 0

Leased(j, t, row) ==
    /\ HoldsLease(j, t)
    /\ Write(j, row)
    /\ UNCHANGED <<policy, gate>>

\* heartbeat and renewLease
Renew(j, t) == Leased(j, t, [job[j] EXCEPT !.left = PolicyOf(j).leaseTicks])

\* SaveCheckpoint replaces the whole checkpoint by the worker's own.
SaveCheckpoint(j, t) == Leased(j, t, [job[j] EXCEPT !.origin = ""])

\* Wait, with an action request of a fresh version.
WaitRow(row) ==
    CloseAttempt(ReleaseLease(
        [row EXCEPT !.status = "waiting_user_action", !.asking = TRUE,
                    !.origin = ""]), "")

Wait(j, t) == Leased(j, t, WaitRow(job[j]))

\* Mutant: the intent is read back after it was cleared.
AcknowledgeRowAfterClear(row) ==
    CloseAttempt(ReleaseLease(
        [row EXCEPT !.status = NoIntent, !.intr = NoIntent, !.asked = FALSE,
                    !.origin = "", !.code = ""]), "")

\* acknowledgeInterruptTx
AcknowledgeRow(row) ==
    CloseAttempt(ReleaseLease(
        [row EXCEPT !.status = row.intr, !.intr = NoIntent, !.asked = FALSE,
                    !.origin = "", !.code = "",
                    !.finished = IF row.intr = "cancelled"
                                   THEN TRUE ELSE row.finished]), "")

\* AcknowledgeInterrupt: nothing to do without an intent.
AcknowledgeInterrupt(j, t) ==
    Leased(j, t, IF job[j].intr \in Intents THEN AcknowledgeRow(job[j])
                 ELSE job[j])

\* Mutant: the restored job keeps its lease and its attempt.
RejectRowKeepsLease(row) ==
    [row EXCEPT !.intr = NoIntent, !.asked = FALSE, !.origin = "",
                !.code = "control_failed",
                !.status = IF row.origin \in {"paused", "failed"}
                             THEN row.origin ELSE row.status]

\* RejectInterrupt: a job that was paused or failed before the control goes
\* back there; any other one keeps its lease and runs on.
RejectRow(row) ==
    LET cleared == [row EXCEPT !.intr = NoIntent, !.asked = FALSE,
                               !.origin = "", !.code = "control_failed"]
    IN  IF row.origin \in {"paused", "failed"}
          THEN CloseAttempt(ReleaseLease(
                 [cleared EXCEPT !.status = row.origin,
                                 !.finished = IF row.origin = "failed"
                                                THEN TRUE ELSE row.finished]),
                 "control_failed")
          ELSE cleared

RejectInterrupt(j, t, intent) ==
    Leased(j, t, IF job[j].intr = intent THEN RejectRow(job[j]) ELSE job[j])

\* Mutant: the generation is not compared.
CompleteRowDropsGeneration(row) ==
    CloseAttempt(ReleaseLease(
        [row EXCEPT !.status = "completed", !.finished = TRUE,
                    !.code = "", !.next = NoTime]), "")

\* finishLease.  An unanswered intent is acknowledged instead of the result.
CompleteRow(row) ==
    CloseAttempt(ReleaseLease(
        [row EXCEPT !.status = IF row.behind THEN "queued" ELSE "completed",
                    !.finished = ~row.behind,
                    !.fails = IF row.behind THEN 0 ELSE row.fails,
                    !.code = "", !.next = NoTime]), "")

FailRow(row) ==
    CloseAttempt(ReleaseLease(
        [row EXCEPT !.status = "failed", !.finished = TRUE,
                    !.code = "failure", !.next = NoTime]), "failure")

RetryLaterRow(j, row, code, delay) ==
    LET fails     == IF ConsumesFailureBudget(code) THEN Bump(row.fails)
                     ELSE row.fails
        exhausted == /\ ConsumesFailureBudget(code)
                     /\ fails >= PolicyOf(j).maxAttempts
    IN  CloseAttempt(ReleaseLease(
            [row EXCEPT !.status = IF exhausted THEN "failed" ELSE "retry_wait",
                        !.finished = exhausted, !.fails = fails, !.code = code,
                        !.next = IF exhausted THEN NoTime ELSE delay]), code)

\* Mutant: the result wins over the intent and clears it.
FinishRowDropsIntent(row, result) ==
    [result EXCEPT !.intr = NoIntent, !.asked = FALSE, !.origin = ""]

\* Mutant: the result is stored beside the intent.
FinishRowKeepsIntent(row, result) == result

FinishRow(row, result) ==
    IF row.intr # NoIntent THEN AcknowledgeRow(row) ELSE result

Complete(j, t) == Leased(j, t, FinishRow(job[j], CompleteRow(job[j])))

Fail(j, t) == Leased(j, t, FinishRow(job[j], FailRow(job[j])))

RetryLater(j, t, code, delay) ==
    Leased(j, t, FinishRow(job[j], RetryLaterRow(j, job[j], code, delay)))

-----------------------------------------------------------------------------
\* Maintenance by the scheduler loop

Due(row) == row.status = "retry_wait" /\ row.next = 0

\* PromoteDueRetries
PromoteDueRetries ==
    /\ \E j \in Jobs : Due(job[j])
    /\ job' = [j \in Jobs |->
                  IF Due(job[j])
                    THEN [job[j] EXCEPT !.status = "queued", !.next = NoTime]
                    ELSE job[j]]
    /\ UNCHANGED <<policy, gate>>

Expired(row) == row.status = "running" /\ row.left = 0

\* Mutant: a pending intent is treated like any lost worker.
RecoverRowParksIntent(j, row) ==
    CloseAttempt(ReleaseLease(
        [row EXCEPT !.status = "retry_wait", !.next = 0,
                    !.code = "worker_lease_expired"]), "worker_lease_expired")

\* Mutant: no time is stored for the retry.
RecoverRowForgetsTime(j, row) ==
    CloseAttempt(ReleaseLease(
        [row EXCEPT !.status = "retry_wait", !.next = NoTime,
                    !.code = "worker_lease_expired",
                    !.intr = NoIntent, !.asked = FALSE]),
        "worker_lease_expired")

RecoverRow(j, row) ==
    IF row.intr \in Intents
      THEN CloseAttempt(ReleaseLease(
             [row EXCEPT !.status = "queued", !.next = NoTime,
                         !.code = "worker_interrupt_recovered"]),
             "worker_interrupt_recovered")
      ELSE LET exhausted == row.streak + 1 >= PolicyOf(j).maxAttempts
           IN  CloseAttempt(ReleaseLease(
                 [row EXCEPT !.status = IF exhausted THEN "failed"
                                        ELSE "retry_wait",
                             !.next = IF exhausted THEN NoTime ELSE 0,
                             !.code = "worker_lease_expired",
                             !.intr = NoIntent, !.asked = FALSE]),
                 "worker_lease_expired")

\* A job that failed for lost leases, fewer of them than the present policy
\* allows.
FalseTerminal(j, row) ==
    /\ row.status = "failed"
    /\ row.code = "worker_lease_expired"
    /\ row.streak # 0
    /\ row.streak < PolicyOf(j).maxAttempts

ReopenRow(row) ==
    ReleaseLease([row EXCEPT !.status = "queued", !.next = NoTime,
                             !.finished = FALSE])

\* RecoverExpiredLeases: one transaction over the whole table, first the
\* expired leases, then the failed jobs to reopen.  The unique index may roll
\* all of it back.
Recovered ==
    LET recover(j) == IF Expired(job[j]) THEN RecoverRow(j, job[j]) ELSE job[j]
    IN  [j \in Jobs |-> IF FalseTerminal(j, recover(j))
                          THEN ReopenRow(recover(j)) ELSE recover(j)]

RecoverExpiredLeases ==
    /\ UniqueActive(Recovered)
    /\ job' = Recovered
    /\ UNCHANGED <<policy, gate>>

-----------------------------------------------------------------------------
\* The environment

\* libraryJobBlocked reads readiness that other components change.
SetGate ==
    /\ gate' \in SUBSET Gated
    /\ UNCHANGED <<job, policy>>

Sooner(n) == IF n > 0 THEN n - 1 ELSE n

\* One tick of time passes.
Tick ==
    /\ job' = [j \in Jobs |-> [job[j] EXCEPT !.left = Sooner(job[j].left),
                                             !.next = Sooner(job[j].next)]]
    /\ UNCHANGED <<policy, gate>>

-----------------------------------------------------------------------------

QueueInit ==
    /\ job = [j \in Jobs |-> AbsentRow]
    /\ policy = InitPolicy
    /\ gate = {}

UserStep(j) ==
    \/ Enqueue(j)
    \/ Coalesce(j)
    \/ Pause(j)
    \/ Resume(j)
    \/ Cancel(j)
    \/ Retry(j)
    \/ Retire(j)
    \/ CancelPipeline(j)
    \/ FinishSeeding(j)
    \/ Respond(j)
    \/ Reorder(j)

HolderStep(j, t) ==
    \/ Renew(j, t)
    \/ SaveCheckpoint(j, t)
    \/ Wait(j, t)
    \/ AcknowledgeInterrupt(j, t)
    \/ \E intent \in Intents : RejectInterrupt(j, t, intent)
    \/ Complete(j, t)
    \/ Fail(j, t)
    \/ \E code \in {"", "failure", "credentials_required"}, d \in 0..MaxDelay :
          RetryLater(j, t, code, d)

QueueNext ==
    \/ \E j \in Jobs : UserStep(j)
    \/ \E j \in Jobs, t \in Tokens : Claim(j, t) \/ HolderStep(j, t)
    \/ \E ty \in Types : UpdatePolicy(ty)
    \/ PromoteDueRetries
    \/ RecoverExpiredLeases
    \/ SetGate
    \/ Tick

QueueSpec == QueueInit /\ [][QueueNext]_queueVars

\* Time passes and the scheduler loop keeps ticking; nobody has to call
\* anything else.
QueueFairSpec ==
    /\ QueueSpec
    /\ WF_queueVars(Tick)
    /\ WF_queueVars(PromoteDueRetries)
    /\ WF_queueVars(RecoverExpiredLeases)

-----------------------------------------------------------------------------
(* Properties *)

\* Every column stays in its type.
TypeOK ==
    /\ job \in [Jobs -> Row]
    /\ policy \in [Types -> Policies]
    /\ gate \subseteq Gated

LeaseRow(r) ==
    /\ r.lease # NoToken <=> r.status = "running"
    /\ r.open <=> r.status = "running"
    /\ r.status # "running" => r.left = 0

\* A row carries a lease exactly while it is running, exactly then its newest
\* attempt is open, and no two rows carry the same lease: whatever path a job
\* leaves running by (result, wait, acknowledged or refused control, recovery),
\* releaseLease and closeAttempt both happened.
LeaseMatchesRunning ==
    /\ \A j \in Jobs : LeaseRow(job[j])
    /\ \A j, k \in Jobs :
          (j # k /\ job[j].lease = job[k].lease) => job[j].lease = NoToken

IntentRow(j, r) ==
    /\ r.intr # NoIntent =>
          /\ r.asked
          /\ \/ r.status \in {"queued", "running", "waiting_user_action"}
             \/ r.status = "completed" /\ j \in Seeding
    /\ (r.asked /\ r.intr = NoIntent) => r.status = "cancelled"
    /\ r.origin # "" => r.intr # NoIntent \/ r.status = "cancelled"

\* An unanswered control intent stays where a worker can still answer it:
\* cancellation_asked goes with it, and the status is never one that no claim
\* leads out of.  The one exception is a seeding job that Stop completed over
\* the intent.  The remembered origin status never outlives the intent, except
\* on a cancelled job.
IntentIsAnswerable == \A j \in Jobs : IntentRow(j, job[j])

ParkedRow(r) ==
    /\ r.status = "retry_wait" => r.next # NoTime
    /\ r.status \in {"queued", "running", "waiting_user_action"}
          => r.next = NoTime
    /\ r.status = "waiting_user_action" => r.asking
    /\ r.asking => r.status \in {"waiting_user_action", "cancelled"}

\* No job is parked where nothing can move it: a job in retry_wait has a time
\* for PromoteDueRetries to find (NULL never compares), a claimable or claimed
\* one has no time left over that would hide it from Claim, and a job that
\* waits for a user has an open request that Respond accepts.
NoStrandedJob == \A j \in Jobs : ParkedRow(job[j])

FinishedRow(r) ==
    /\ r.finished => r.status \in Terminal
    /\ r.status \in {"completed", "cancelled"} => r.finished
    /\ (r.status = "failed" /\ ~r.finished) => r.code = "worker_lease_expired"

\* finished_at is set on completed and cancelled jobs and on no job that may
\* still run.  A failed job has it too unless its leases ran out:
\* RecoverExpiredLeases fails a job without setting it.
FinishedMeansTerminal == \A j \in Jobs : FinishedRow(job[j])

ServedRow(j, r) == (r.status = "completed" /\ Key[j] # NoKey) => ~r.behind

\* A completed job has served the newest generation that was coalesced into it:
\* a request that arrived while the worker ran is never swallowed by Complete.
CompletedServesLatest == \A j \in Jobs : ServedRow(j, job[j])

\* A job is given up for lost workers only when its newest attempts, as many as
\* the policy allows in a row, all ended with a lost lease: the two counts of
\* RecoverExpiredLeases (attempts before this one, and this one) agree, and one
\* good attempt in between starts the count again.
GivenUpAfterEnoughLosses ==
    [][\A j \in Jobs :
          (Expired(job[j]) /\ job'[j].status = "failed")
              => job'[j].streak >= PolicyOf(j).maxAttempts]_queueVars

\* While a control intent is unanswered the job produces no result of its own
\* (a seeding job may be completed by Stop), and the intent ends only by being
\* carried out, by being refused, or by a cancellation that overtakes it.
IntentIsHonoured ==
    [][\A j \in Jobs : job[j].intr # NoIntent =>
          /\ job'[j].status # "retry_wait"
          /\ job'[j].status = "completed" => j \in Seeding
          /\ job'[j].intr = NoIntent =>
                \/ job'[j].status \in {job[j].intr, "cancelled"}
                \/ job'[j].code = "control_failed"]_queueVars

\* cancelled is final, and completed is final but for a download, which the
\* cancellation of its pipeline turns into cancelled history: no operation,
\* recovery or late worker brings a finished job back.
TerminalStays ==
    [][\A j \in Jobs :
          /\ job[j].status = "cancelled" => job'[j].status = "cancelled"
          /\ job[j].status = "completed" =>
                \/ job'[j].status = "completed"
                \/ job'[j].status = "cancelled" /\ j \in Downloads]_queueVars

\* No step takes the live leases of a type, or of a resource, above the limit
\* in force for the job it starts; an expired lease never becomes live again
\* beside the one that replaced it.
CapacityRespected ==
    [][\A j \in Jobs : (Live(job[j])' /\ ~Live(job[j])) =>
          /\ Cardinality(LiveOfType(JobType[j])') <= PolicyOf(j).concurrency
          /\ (PolicyOf(j).resourceConcurrency > 0 /\ Resource[j] # NoResource)
                => Cardinality(LiveOnResource(Resource[j])')
                      <= PolicyOf(j).resourceConcurrency]_queueVars

\* A job whose worker was lost gets going again (or is given up) without
\* anybody's help: its lease is recovered and its retry is promoted.
LostWorkerResumes ==
    \A j \in Jobs :
        Expired(job[j]) ~> job[j].status \in {"queued", "paused"} \cup Terminal

=============================================================================
