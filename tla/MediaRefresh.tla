---------------------------- MODULE MediaRefresh ----------------------------
(***************************************************************************)
(* From a change of a media library to the refresh of the media servers    *)
(* that serve it. A change is recorded in the transaction that changes the *)
(* catalogue, pending while its artifacts are still to be written; once    *)
(* ready it is told to the players through a cursor, and a durable marker  *)
(* carries its revision to the refresh targets of the library. A target    *)
(* that is behind gets a queue job; the worker of the job asks the media   *)
(* server to rescan and stores what the call covered.                      *)
(*                                                                         *)
(* One library, its targets and one player. Every action is one            *)
(* transaction, one query, or the return of the external call; the         *)
(* dispatcher goroutine and a web request (the callers) create a job and   *)
(* link it to its target in two transactions.                              *)
(***************************************************************************)
EXTENDS Naturals, FiniteSets, FiniteSetsExt

CONSTANTS Targets,     \* target ids, in the order they are created
          Kinds,       \* catalog, metadata, removal
          Batch,       \* mediaChangeDispatchBatch
          MaxAttempts, \* QueuePolicy.MaxAttempts of media_server_refresh
          Tokens,      \* lease tokens, one for each goroutine there may be at a time
          Budgets      \* bounds of the instances: a behaviour has one of them to spend

ASSUME TargetsAssumption == Targets \subseteq Nat \ {0} /\ IsFiniteSet(Targets)
ASSUME BatchAssumption == Batch \in Nat \ {0}
ASSUME AttemptsAssumption == MaxAttempts \in Nat \ {0}
ASSUME TokensAssumption == Tokens \subseteq Nat \ {0} /\ IsFiniteSet(Tokens)

Budget == [targets : SUBSET Targets, \* the targets there are at first
           kinds : SUBSET Kinds,     \* the kinds of change there may be
           changes : Nat, scans : Nat, polls : Nat, prunes : Nat,
           requests : Nat,           \* what users ask for
           faults : Nat]             \* crashes, and leases a living process loses

ASSUME BudgetsAssumption == Budgets # {} /\ IsFiniteSet(Budgets) /\ Budgets \subseteq Budget

VARIABLES lib,      \* the library: revision, artifact generation, last sequence
          rows,     \* media_library_changes
          cleanup,  \* media_change_pending_cleanups of the library
          dispatch, \* media_change_dispatches of the library
          target,   \* media_server_refresh_targets
          job,      \* the newest queue job of each target
          work,     \* the goroutine of each claim
          caller,   \* the two kinds of caller of enqueue
          player,   \* the cursor of a player, its poll and what it was told
          left,     \* what is left of the budget
          ready,    \* history: the order in which revisions became ready
          reached,  \* history: how many of them an accepted refresh came after
          stood     \* history: the newest revision published for a whole generation

vars == <<lib, rows, cleanup, dispatch, target, job, work, caller, player, left,
          ready, reached, stood>>

\* What only the change feed itself writes.
feed == <<lib, rows, cleanup, ready, stood>>

MaxRev == Max({b.changes : b \in Budgets})
MaxGen == 1 + Max({b.scans : b \in Budgets})
MaxAsked == Max({b.requests : b \in Budgets})
Revs == 1..MaxRev
Seqs == 1..(2 * MaxRev)

NoMarker == [rev |-> 0, after |-> 0]
NoCleanup == [gen |-> 0, max |-> 0, after |-> 0]
Idle == [target |-> 0, pc |-> "off", desired |-> 0, manual |-> 0, saw |-> 0]
Nobody == [todo |-> {}, linking |-> 0, newest |-> FALSE]
Callers == {"dispatcher", "request"}
NoJob == [status |-> "none", lease |-> 0, attempts |-> 0, behind |-> FALSE]

\* "linked": last_job_id names the newest job.
Unborn == [state |-> "unborn", enabled |-> FALSE, desired |-> 0, success |-> 0,
           manual |-> 0, manualOk |-> 0, status |-> "idle", linked |-> FALSE]

Live == {"queued", "running", "retry_wait"}

Present(t) == target[t].state = "present"
Enabled(t) == Present(t) /\ target[t].enabled

\* What recovery, Update, Retry and the worker all ask of a target.
Behind(t) == \/ target[t].desired > target[t].success
             \/ target[t].manual > target[t].manualOk

Largest(S) == Max(S \cup {0})
Smaller(m, n) == IF m < n THEN m ELSE n
Larger(m, n) == IF m < n THEN n ELSE m

Pending == {c \in rows : c.state = "pending"}
Ready == {c \in rows : c.state = "ready"}
Newest == Largest({c.seq : c \in Ready})

\* latestReadyMediaRevision
LatestReady == Largest({c.rev : c \in Ready})

\* How many changes became ready so far.
Readied == Cardinality({r \in Revs : ready[r] # 0})

Init ==
    /\ left \in Budgets
    /\ lib = [rev |-> 0, gen |-> 1, seq |-> 0]
    /\ rows = {}
    /\ cleanup = NoCleanup
    /\ dispatch = NoMarker
    /\ target = [t \in Targets |-> IF t \in left.targets
                   THEN [Unborn EXCEPT !.state = "present", !.enabled = TRUE] ELSE Unborn]
    /\ job = [t \in Targets |-> NoJob]
    /\ work = [k \in Tokens |-> Idle]
    /\ caller = [c \in Callers |-> Nobody]
    /\ player = [cursor |-> 0, pc |-> "idle", latest |-> 0, told |-> {}]
    /\ ready = [r \in Revs |-> 0]
    /\ reached = [t \in Targets |-> 0]
    /\ stood = 0

\* One of the things a budget bounds happens.
Spend(what) == left[what] > 0 /\ left' = [left EXCEPT ![what] = @ - 1]

-----------------------------------------------------------------------------
(* The change feed                                                           *)

\* Mutant: a marker that is overtaken keeps its place.
AdvancedKeepsPlace(rev) ==
    IF dispatch.rev < rev THEN [dispatch EXCEPT !.rev = rev] ELSE dispatch

\* advanceTargetsTx
Advanced(rev) == IF dispatch.rev < rev THEN [rev |-> rev, after |-> 0] ELSE dispatch

\* Mutant: all changes of a transaction are numbered alike.
RankAlike(S, c) == 1

Rank(S, c) == Cardinality({d \in S : d.rev <= c.rev})

\* Mutant: a late change keeps the sequence it was recorded under.
PublishedInPlace(S) ==
    {[c EXCEPT !.state = "ready", !.seq = IF @ = 0 THEN lib.seq + 1 ELSE @] : c \in S}

\* The changes S, now ready, under sequences of their own, in revision order.
Published(S) == {[c EXCEPT !.state = "ready", !.seq = lib.seq + Rank(S, c)] : c \in S}

\* The part all three ways to readiness share: S becomes ready in one transaction.
Announce(S) ==
    /\ rows' = (rows \ S) \cup Published(S)
    /\ dispatch' = Advanced(Largest({c.rev : c \in S}))
    /\ ready' = [r \in Revs |-> IF \E c \in S : c.rev = r
                                  THEN Readied + Rank(S, CHOOSE c \in S : c.rev = r)
                                  ELSE ready[r]]
    /\ UNCHANGED <<target, job, work, caller, player, reached>>

\* RecordTx, not ready: the scan opened generation g, or g is the open one.
RecordPending(kind, g) ==
    /\ left.changes > 0
    /\ left' = [left EXCEPT !.changes = @ - 1, !.scans = @ - (g - lib.gen)]
    /\ lib' = [rev |-> lib.rev + 1, gen |-> g, seq |-> lib.seq + 1]
    /\ rows' = rows \cup {[seq |-> lib.seq + 1, rev |-> lib.rev + 1, gen |-> g,
                           kind |-> kind, state |-> "pending"]}
    /\ UNCHANGED <<cleanup, dispatch, target, job, work, caller, player, ready, reached, stood>>

\* RecordTx, ready at once: nothing is to be written for this change.
RecordReady(kind) ==
    /\ Spend("changes")
    /\ lib' = [lib EXCEPT !.rev = @ + 1, !.seq = @ + 1]
    /\ Announce({[seq |-> 0, rev |-> lib.rev + 1, gen |-> lib.gen, kind |-> kind,
                  state |-> "pending"]})
    /\ UNCHANGED <<cleanup, stood>>

Record(kind) ==
    \/ \E g \in lib.gen..(lib.gen + left.scans) : g <= lib.gen + 1 /\ RecordPending(kind, g)
    \/ RecordReady(kind)

\* A scan that found nothing to change opens a generation without a change of its own.
EmptyScan ==
    /\ Spend("scans")
    /\ lib' = [lib EXCEPT !.gen = @ + 1]
    /\ UNCHANGED <<rows, cleanup, dispatch, target, job, work, caller, player, ready, reached, stood>>

\* The pending changes the cleanup marker has not already written off.
Standing == {c \in Pending : ~(c.gen <= cleanup.gen /\ c.seq <= cleanup.max)}

OfGeneration == {c \in Standing : c.gen = lib.gen}

NewestOfKind(kind) ==
    {c \in OfGeneration : c.kind = kind /\ \A d \in OfGeneration : d.kind = kind => d.rev <= c.rev}

\* Nothing in the generation itself: the newest older change stands for its artifacts.
Carried ==
    {c \in Standing : c.gen < lib.gen /\ \A d \in Standing : d.gen < lib.gen => d.rev <= c.rev}

Completed == IF OfGeneration # {} THEN UNION {NewestOfKind(kind) : kind \in Kinds} ELSE Carried

\* MarkGenerationReadyTx: the artifacts of the current generation are written.
MarkGenerationReady ==
    /\ Completed # {}
    /\ Announce(Completed)
    /\ lib' = [lib EXCEPT !.seq = @ + Cardinality(Completed)]
    /\ cleanup' = [gen |-> Larger(cleanup.gen, lib.gen),
                   max |-> Larger(cleanup.max, Largest({c.seq : c \in Completed})),
                   after |-> 0]
    /\ stood' = Larger(stood, Largest({c.rev : c \in Completed}))
    /\ UNCHANGED left

\* markBatchChangesReadyTx: one batch of artifacts is written; it stands for
\* the changes of the generation that were recorded when it was frozen.
MarkBatchReady ==
    \E r \in Revs :
        LET frozen == {c \in Pending : c.gen = lib.gen /\ c.rev <= r} IN
        /\ frozen # {}
        /\ Announce(frozen)
        /\ lib' = [lib EXCEPT !.seq = @ + Cardinality(frozen)]
        /\ UNCHANGED <<cleanup, left, stood>>

\* The first n of S in ascending order.
FirstOf(S, n) == {s \in S : Cardinality({u \in S : u <= s}) <= n}

DispatcherFree == caller["dispatcher"] = Nobody

\* Mutant: the cutoff is the generation alone.
WrittenOffGeneration == {c \in Pending : c.gen <= cleanup.gen}

\* What CleanupPendingBatch may still delete.
WrittenOff == {c \in Pending : /\ c.gen <= cleanup.gen
                               /\ c.seq > cleanup.after
                               /\ c.seq <= cleanup.max}

\* CleanupPendingBatch
CleanupPending ==
    /\ DispatcherFree
    /\ cleanup # NoCleanup
    /\ LET batch == FirstOf({c.seq : c \in WrittenOff}, Batch) IN
       IF batch = {}
       THEN cleanup' = NoCleanup /\ UNCHANGED rows
       ELSE /\ rows' = {c \in rows : ~(c \in Pending /\ c.seq \in batch)}
            /\ cleanup' = [cleanup EXCEPT !.after = Largest(batch)]
    /\ UNCHANGED <<lib, dispatch, target, job, work, caller, player, left, ready, reached, stood>>

\* prune: the changes of all libraries share the retention, so the cutoff may
\* fall anywhere; the newest ready change of the library stays.
Prune ==
    /\ Spend("prunes")
    /\ DispatcherFree
    /\ \E cutoff \in Seqs :
          LET old == {c \in Ready : c.seq <= cutoff /\ c.seq # Newest} IN
          old # {} /\ rows' = rows \ old
    /\ UNCHANGED <<lib, cleanup, dispatch, target, job, work, caller, player, ready, reached, stood>>

-----------------------------------------------------------------------------
(* A player's poll                                                           *)

\* ReadyAfter, its first queries: the bounds of the feed, and whether the
\* player's cursor was crossed by retention.
PollReads ==
    /\ Spend("polls")
    /\ player.pc = "idle"
    /\ LET crossed == /\ player.cursor > 0
                      /\ \/ player.cursor > Newest
                         \/ /\ player.cursor < Newest
                            /\ \A c \in Ready : c.seq # player.cursor IN
       player' = IF crossed
                 THEN [player EXCEPT !.cursor = Newest,
                                     !.told = @ \cup {c.seq : c \in Ready}]
                 ELSE [player EXCEPT !.pc = "finding", !.latest = Newest]
    /\ UNCHANGED <<feed, dispatch, target, job, work, caller, reached>>

\* ReadyAfter, its last query, and the cursor PlayerMediaChanges answers with;
\* the changes of other libraries may take part of the page.
PollFinds ==
    /\ player.pc = "finding"
    /\ LET found == {c.seq : c \in {d \in Ready : d.seq > player.cursor}} IN
       IF found = {}
       THEN player' = [player EXCEPT !.pc = "idle", !.cursor = player.latest]
       ELSE \E n \in 1..Cardinality(found) :
               LET page == FirstOf(found, n) IN
               player' = [player EXCEPT !.pc = "idle", !.cursor = Largest(page),
                                        !.told = @ \cup page]
    /\ UNCHANGED <<feed, dispatch, target, job, work, caller, left, reached>>

-----------------------------------------------------------------------------
(* From the marker to the jobs                                               *)

\* Mutant: the job a target names counts as live whatever became of it.
RecoverableUnlinked ==
    {t \in Targets : Enabled(t) /\ Behind(t) /\ target[t].status # "failed" /\ ~target[t].linked}

\* What recoverPendingTargets selects: a target that is behind, that did not
\* fail for good, and that no live job serves.
Recoverable ==
    {t \in Targets : /\ Enabled(t) /\ Behind(t)
                     /\ target[t].status # "failed"
                     /\ ~(target[t].linked /\ job[t].status \in Live)}

\* DispatchBatch: a batch of targets advances together with the marker. The
\* last one deletes the marker; then, after the commit, comes EnqueueLibrary.
DispatchBatch ==
    /\ DispatcherFree
    /\ dispatch # NoMarker
    /\ LET batch == FirstOf({t \in Targets : /\ t > dispatch.after /\ Enabled(t)
                                             /\ target[t].desired < dispatch.rev}, Batch) IN
       IF batch = {}
       THEN /\ dispatch' = NoMarker
            /\ UNCHANGED target
       ELSE /\ target' = [t \in Targets |-> IF t \in batch
                            THEN [target[t] EXCEPT !.desired = dispatch.rev] ELSE target[t]]
            /\ dispatch' = [dispatch EXCEPT !.after = Largest(batch)]
    /\ UNCHANGED <<feed, job, work, caller, player, left, reached>>

\* recoverPendingTargets, its query: EnqueueLibrary once a marker is gone, the
\* ticker every five seconds, and the start of the process.
Recover ==
    /\ DispatcherFree
    /\ Recoverable # {}
    /\ caller' = [caller EXCEPT !["dispatcher"].todo = Recoverable]
    /\ UNCHANGED <<feed, dispatch, target, job, work, player, left, reached>>

\* enqueue, first transaction: a live job takes the request in, else there is a
\* new job, and what another caller is about to link is not the newest any more.
Insert(c, t) ==
    /\ caller[c].linking = 0
    /\ t \in FirstOf(caller[c].todo, 1)
    /\ IF job[t].status \in Live
       THEN /\ job' = [job EXCEPT ![t].behind = TRUE]
            /\ caller' = [caller EXCEPT ![c].linking = t, ![c].newest = TRUE]
            /\ UNCHANGED target
       ELSE /\ job' = [job EXCEPT ![t] = [NoJob EXCEPT !.status = "queued"]]
            /\ caller' = [d \in Callers |->
                  IF d = c THEN [caller[c] EXCEPT !.linking = t, !.newest = TRUE]
                  ELSE IF caller[d].linking = t THEN [caller[d] EXCEPT !.newest = FALSE]
                  ELSE caller[d]]
            /\ target' = [target EXCEPT ![t].linked = FALSE]
    /\ UNCHANGED <<feed, dispatch, work, player, left, reached>>

\* enqueue, second transaction: last_job_id and "queued". A target that is gone
\* ends the caller with an error.
Link(c) ==
    /\ caller[c].linking # 0
    /\ LET t == caller[c].linking IN
       IF Present(t)
       THEN /\ target' = [target EXCEPT ![t].linked = caller[c].newest, ![t].status = "queued"]
            /\ caller' = [caller EXCEPT ![c] = [Nobody EXCEPT !.todo = caller[c].todo \ {t}]]
       ELSE /\ caller' = [caller EXCEPT ![c] = Nobody]
            /\ UNCHANGED target
    /\ UNCHANGED <<feed, dispatch, job, work, player, left, reached>>

-----------------------------------------------------------------------------
(* What users do with a target                                               *)

\* The request goes on to enqueue when the target is behind after the edit.
AskedToEnqueue(t, wanted) ==
    caller' = IF wanted THEN [caller EXCEPT !["request"] = [Nobody EXCEPT !.todo = {t}]]
                        ELSE caller

Untouched == UNCHANGED <<feed, dispatch, job, work, player, reached>>

\* Create: a new target is behind whatever is ready already.
Create(t) ==
    /\ Spend("requests")
    /\ caller["request"] = Nobody
    /\ target[t].state = "unborn"
    /\ \A s \in Targets : s < t => target[s].state # "unborn"
    /\ \A s \in Targets : s > t => target[s].state = "unborn"
    /\ \E on \in BOOLEAN :
          /\ target' = [target EXCEPT ![t] = [Unborn EXCEPT !.state = "present",
                            !.enabled = on, !.desired = LatestReady]]
          /\ AskedToEnqueue(t, on /\ LatestReady > 0)
    /\ Untouched

\* The revision an update asks of a target it enables.
AskedFor(t) == Larger(target[t].desired, LatestReady)

\* Update, on the revision of the target the user saw.
Update(t, on) ==
    /\ Spend("requests")
    /\ caller["request"] = Nobody
    /\ Present(t)
    /\ target' = [target EXCEPT ![t].enabled = on,
                                ![t].desired = IF on THEN AskedFor(t) ELSE @]
    /\ AskedToEnqueue(t, (Enabled(t) /\ Behind(t))')
    /\ Untouched

Delete(t) ==
    /\ Spend("requests")
    /\ Present(t)
    /\ target' = [target EXCEPT ![t] = [Unborn EXCEPT !.state = "gone"]]
    /\ UNCHANGED caller /\ Untouched

ManualRefresh(t) ==
    /\ Spend("requests")
    /\ caller["request"] = Nobody
    /\ Enabled(t)
    /\ target' = [target EXCEPT ![t].manual = @ + 1]
    /\ AskedToEnqueue(t, TRUE)
    /\ Untouched

\* Retry, of a refresh that failed for good.
Retry(t) ==
    /\ Spend("requests")
    /\ caller["request"] = Nobody
    /\ Enabled(t) /\ Behind(t) /\ target[t].status = "failed"
    /\ AskedToEnqueue(t, TRUE)
    /\ UNCHANGED target /\ Untouched

\* QueueService.Cancel, of a job no worker holds.
CancelJob(t) ==
    /\ Spend("requests")
    /\ job[t].status \in {"queued", "retry_wait"}
    /\ job' = [job EXCEPT ![t].status = "cancelled"]
    /\ UNCHANGED <<feed, dispatch, target, work, caller, player, reached>>

UserStep(t) ==
    \/ Create(t) \/ Delete(t) \/ ManualRefresh(t) \/ Retry(t) \/ CancelJob(t)
    \/ \E on \in BOOLEAN : Update(t, on)

-----------------------------------------------------------------------------
(* The worker of a refresh job                                               *)

\* Leases are fresh uuids: any token nobody uses stands for one.
Free == {k \in Tokens : work[k].pc = "off" /\ \A t \in Targets : job[t].lease # k}

\* Attempts count up to what the policy compares them with.
Claim(t) ==
    /\ job[t].status \in {"queued", "retry_wait"}
    /\ \E k \in FirstOf(Free, 1) :
          /\ job' = [job EXCEPT ![t] = [status |-> "running", lease |-> k, behind |-> FALSE,
                                        attempts |-> Smaller(@.attempts + 1, MaxAttempts)]]
          /\ work' = [work EXCEPT ![k] = [Idle EXCEPT !.target = t, !.pc = "claimed"]]
    /\ UNCHANGED <<feed, dispatch, target, caller, player, left, reached>>

At(k, pc) == work[k].pc = pc

Goto(k, pc) == work' = [work EXCEPT ![k].pc = pc]

\* Run, its first query: the target as it is now, or nothing to do.
ReadTarget(k) ==
    /\ At(k, "claimed")
    /\ LET t == work[k].target IN
       IF Enabled(t) /\ Behind(t)
       THEN work' = [work EXCEPT ![k].pc = "read", ![k].desired = target[t].desired,
                                 ![k].manual = target[t].manual]
       ELSE Goto(k, "done")
    /\ UNCHANGED <<feed, dispatch, target, job, caller, player, left, reached>>

\* Run, the transaction before the call. Its run row needs the target.
StartCall(k) ==
    /\ At(k, "read")
    /\ LET t == work[k].target IN
       IF Present(t)
       THEN /\ target' = [target EXCEPT ![t].status = "running"]
            /\ work' = [work EXCEPT ![k].pc = "calling", ![k].saw = Readied]
       ELSE Goto(k, "failed") /\ UNCHANGED target
    /\ UNCHANGED <<feed, dispatch, job, caller, player, left, reached>>

\* RefreshLibrary was accepted by the media server.
Accepted(k) ==
    /\ At(k, "calling")
    /\ Goto(k, "accepted")
    /\ reached' = [reached EXCEPT ![work[k].target] = Larger(@, work[k].saw)]
    /\ UNCHANGED <<feed, dispatch, target, job, caller, player, left>>

\* RefreshLibrary was refused, or timed out: another attempt, or none.
Refused(k) ==
    /\ At(k, "calling")
    /\ \E again \in BOOLEAN :
          LET t == work[k].target IN
          /\ again => job[t].attempts < MaxAttempts
          /\ Goto(k, IF again THEN "again" ELSE "failed")
          /\ target' = IF Present(t)
                       THEN [target EXCEPT ![t].status = IF again THEN "retry_wait" ELSE "failed"]
                       ELSE target
    /\ UNCHANGED <<feed, dispatch, job, caller, player, left, reached>>

\* Mutant: what is asked of the target by now counts as refreshed.
CoveredNow(k) ==
    LET row == target[work[k].target] IN
    [row EXCEPT !.success = row.desired, !.manualOk = row.manual, !.status = "completed"]

\* What an accepted call covered: never less than an older call did.
Covered(k) ==
    LET row == target[work[k].target] IN
    [row EXCEPT !.success = Larger(@, work[k].desired),
                !.manualOk = Larger(@, work[k].manual), !.status = "completed"]

\* Run, the transaction after the call.
StoreResult(k) ==
    /\ At(k, "accepted")
    /\ LET t == work[k].target IN
       IF Present(t)
       THEN Goto(k, "done") /\ target' = [target EXCEPT ![t] = Covered(k)]
       ELSE Goto(k, "failed") /\ UNCHANGED target
    /\ UNCHANGED <<feed, dispatch, job, caller, player, left, reached>>

Holds(k) == job[work[k].target].status = "running" /\ job[work[k].target].lease = k

\* The status finishLease gives the job; a request taken in meanwhile queues a
\* completed job again, and no other.
Finished(k) ==
    CASE At(k, "again")  -> "retry_wait"
      [] At(k, "failed") -> "failed"
      [] OTHER           -> IF job[work[k].target].behind THEN "queued" ELSE "completed"

\* The scheduler stores the result of Run, if the lease is still its own.
Finish(k) ==
    /\ work[k].pc \in {"done", "failed", "again"}
    /\ work' = [work EXCEPT ![k] = Idle]
    /\ job' = IF Holds(k)
              THEN [job EXCEPT ![work[k].target].status = Finished(k),
                               ![work[k].target].lease = 0]
              ELSE job
    /\ UNCHANGED <<feed, dispatch, target, caller, player, left, reached>>

WorkerStep(k) ==
    \/ ReadTarget(k) \/ StartCall(k) \/ Accepted(k) \/ Refused(k)
    \/ StoreResult(k) \/ Finish(k)

-----------------------------------------------------------------------------
(* Faults                                                                    *)

\* The process ends, and starts again with nothing in memory.
Crash ==
    /\ Spend("faults")
    /\ work' = [k \in Tokens |-> Idle]
    /\ caller' = [c \in Callers |-> Nobody]
    /\ player' = [player EXCEPT !.pc = "idle"]
    /\ UNCHANGED <<feed, dispatch, target, job, reached>>

\* RecoverExpiredLeases: nobody renewed the lease; the job waits for its next
\* claim, or has lost too many leases.
ExpireLease(t) ==
    /\ \E status \in {"retry_wait", "failed"} :
          job' = [job EXCEPT ![t].status = status, ![t].lease = 0]
    /\ UNCHANGED <<feed, dispatch, target, work, caller, player, reached>>

\* The goroutine that held the lease is gone.
OrphanExpires(t) ==
    /\ job[t].status = "running" /\ At(job[t].lease, "off")
    /\ ExpireLease(t)
    /\ UNCHANGED left

\* It is not: it failed to renew, and goes on.
KeepaliveMissed(t) ==
    /\ job[t].status = "running" /\ ~At(job[t].lease, "off")
    /\ ExpireLease(t)
    /\ Spend("faults")

-----------------------------------------------------------------------------

Next ==
    \/ \E kind \in left.kinds : Record(kind)
    \/ EmptyScan \/ MarkGenerationReady \/ MarkBatchReady
    \/ CleanupPending \/ Prune
    \/ PollReads \/ PollFinds
    \/ DispatchBatch \/ Recover
    \/ \E c \in Callers, t \in Targets : Insert(c, t)
    \/ \E c \in Callers : Link(c)
    \/ \E t \in Targets : UserStep(t) \/ Claim(t) \/ OrphanExpires(t) \/ KeepaliveMissed(t)
    \/ \E k \in Tokens : WorkerStep(k)
    \/ Crash

Spec == Init /\ [][Next]_vars

\* The dispatcher loops until it is stopped and looks for a marker before each
\* recovery, which may keep it busy; the scheduler claims what is due
\* and its recovery loop looks at every lease, a request is answered, and the
\* call has a timeout of 20 seconds.
FairSpec ==
    /\ Spec
    /\ SF_vars(DispatchBatch) /\ WF_vars(Recover)
    /\ \A c \in Callers : WF_vars(Link(c)) /\ WF_vars(\E t \in Targets : Insert(c, t))
    /\ \A t \in Targets : WF_vars(Claim(t)) /\ WF_vars(OrphanExpires(t))
    /\ \A k \in Tokens : WF_vars(WorkerStep(k))

-----------------------------------------------------------------------------
(* Properties                                                                *)

\* The rows, the jobs and the memory of the goroutines hold values of their types,
\* and no two changes share a sequence or a revision.
TypeOK ==
    /\ lib \in [rev : 0..MaxRev, gen : 1..MaxGen, seq : 0..(2 * MaxRev)]
    /\ rows \subseteq [seq : Seqs, rev : Revs, gen : 1..MaxGen, kind : Kinds,
                       state : {"pending", "ready"}]
    \* The unique keys of the table: RecordTx and both ways to readiness keep them.
    /\ \A c, d \in rows : c = d \/ (c.seq # d.seq /\ c.rev # d.rev)
    /\ cleanup \in [gen : 0..MaxGen, max : 0..(2 * MaxRev), after : 0..(2 * MaxRev)]
    /\ dispatch \in [rev : 0..MaxRev, after : Targets \cup {0}]
    /\ target \in [Targets -> [state : {"unborn", "present", "gone"}, enabled : BOOLEAN,
          desired : 0..MaxRev, success : 0..MaxRev, manual : 0..MaxAsked,
          manualOk : 0..MaxAsked, linked : BOOLEAN,
          status : {"idle", "queued", "running", "retry_wait", "failed", "completed"}]]
    /\ job \in [Targets -> [lease : Tokens \cup {0}, attempts : 0..MaxAttempts, behind : BOOLEAN,
          status : Live \cup {"none", "completed", "failed", "cancelled"}]]
    /\ work \in [Tokens -> [target : Targets \cup {0}, desired : 0..MaxRev,
          manual : 0..MaxAsked, saw : 0..MaxRev,
          pc : {"off", "claimed", "read", "calling", "accepted", "done", "failed", "again"}]]
    /\ caller \in [Callers -> [todo : SUBSET Targets, linking : Targets \cup {0}, newest : BOOLEAN]]
    /\ player \in [cursor : 0..(2 * MaxRev), latest : 0..(2 * MaxRev), told : SUBSET Seqs,
          pc : {"idle", "finding"}]
    /\ left \in Budget
    /\ ready \in [Revs -> 0..MaxRev]
    /\ reached \in [Targets -> 0..MaxRev]
    /\ stood \in 0..MaxRev

\* What a player was told is all there is up to its cursor: a change that gets
\* ready late, out of the order it was recorded in, never appears behind a
\* cursor that was handed out, and retention that crosses a cursor is noticed.
FeedTellsEverything ==
    \A c \in Ready : c.seq <= player.cursor => c.seq \in player.told

\* Retention, which goes by sequence, has not deleted the newest revision.
NewestRetained == \A r \in Revs : ready[r] # 0 => r <= LatestReady

\* The newest ready revision is asked of every enabled target, or the marker is
\* still on its way to it, whatever overtook the marker or interrupted it, and
\* for as long as the feed holds that revision: latestReadyMediaRevision, which a
\* target starts from when it is created or enabled, reads the feed.
NewestReachesTargets ==
    NewestRetained =>
        \A t \in Targets : Enabled(t) =>
            \/ target[t].desired >= LatestReady
            \/ dispatch.rev >= LatestReady /\ dispatch.after < t

\* A target says it was refreshed up to a revision only when the media server
\* accepted a call that began after this revision was ready: neither the
\* revisions that came during the call nor those of a slower call count.
RefreshedIsTrue ==
    \A t \in Targets : target[t].success > 0 =>
        ready[target[t].success] \in 1..reached[t]

\* A pending change is deleted only when a newer change, published since for
\* the artifacts of a whole generation, stands for it; a batch stands for none.
NothingVanishes ==
    [][\A c \in Pending : (\A d \in rows' : d.rev # c.rev) => c.rev < stood]_vars

\* What is ready is refreshed at every enabled target, unless the media server
\* refuses for good or the target is taken away: through the marker, the lost
\* jobs, the leases and the restarts. A user may also pause a refresh job for as
\* long as he likes; controls of these jobs are not in this module.
ReadyIsRefreshed ==
    \A t \in Targets :
        (Enabled(t) /\ LatestReady > target[t].success)
            ~> (\/ target[t].success >= LatestReady
                \/ target[t].status = "failed" \/ ~Enabled(t))

\* "ready changes advance the desired revision of every enabled target": no
\* change that became ready is left without a refresh that began after it.
NoReadyChangeForgotten ==
    \A t \in Targets :
        (Enabled(t) /\ reached[t] < Readied /\ target[t].status # "failed") =>
            \/ dispatch # NoMarker
            \/ Behind(t)
            \/ \E k \in Tokens : work[k].target = t /\ work[k].saw = Readied
=============================================================================
