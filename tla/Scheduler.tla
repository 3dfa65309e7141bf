----------------------------- MODULE Scheduler -----------------------------
(***************************************************************************)
(* The scheduler of internal/services/scheduler.go on top of the job       *)
(* queue: the loop that claims jobs, one goroutine per claimed job, the    *)
(* keepalive of its lease, the map of running work through which a control *)
(* reaches the worker, and the calls that carry it to a provider.          *)
(*                                                                         *)
(* A goroutine is named by the lease token of its claim.  The queue's      *)
(* operations are the actions of JobQueue; every action here is one step   *)
(* between two points where another goroutine may get in.  What a worker's *)
(* Run does is left open: it may return whatever it likes whenever it      *)
(* likes.                                                                  *)
(***************************************************************************)
EXTENDS JobQueue

CONSTANTS
    NoJob,          \* the job of a goroutine that does not exist
    Interruptible,  \* jobs whose worker is an InterruptibleWorker
    Punctual,       \* TRUE: no live goroutine is starved past its lease
    MaxFaults,      \* bound on stops, crashes and storage errors
    MaxCalls        \* bound on controls on their way to a worker

ASSUME SchedulerAssumption ==
    /\ NoJob \notin Jobs
    /\ Interruptible \subseteq Jobs
    /\ Punctual \in BOOLEAN
    /\ MaxFaults \in Nat
    /\ MaxCalls \in Nat

VARIABLES
    work,      \* the goroutines that dispatch started, by token
    running,   \* Scheduler.running: the token registered for a job
    calls,     \* controls that are committed, their interrupt call still to come
    asyncs,    \* the goroutines that interrupt started
    loop,      \* what Scheduler.loop is doing
    stopping,  \* Close cancelled the scheduler's context
    faults     \* stops, crashes and storage errors so far

schedVars == <<work, running, calls, asyncs, loop, stopping, faults>>

vars == <<job, policy, gate, work, running, calls, asyncs, loop, stopping,
          faults>>

PCs == {"none", "claimed", "started", "interrupting", "rejecting", "run",
        "acking", "finishing", "exiting"}

\* lost is history: the controls whose refusal was not stored (AsyncRefusalLost).
Work ==
    [pc : PCs, job : Jobs \cup {NoJob}, cancelled : BOOLEAN,
     keep : {"off", "on", "failed"}, intent : {NoIntent} \cup Intents,
     release : BOOLEAN, lost : SUBSET [job : Jobs, action : Intents]]

NoWork == [pc |-> "none", job |-> NoJob, cancelled |-> FALSE, keep |-> "off",
           intent |-> NoIntent, release |-> FALSE, lost |-> {}]

\* "local" is interruptLocally's cancel_pipeline, which never asks a provider.
CallActions == Intents \cup {"local"}

Alive(t) == work[t].pc # "none"

At(t, pc) == work[t].pc = pc

Holds(t) == Alive(t) /\ HoldsLease(work[t].job, t)

Becomes(t, w) == work' = [work EXCEPT ![t] = w]

Goto(t, pc) == Becomes(t, [work[t] EXCEPT !.pc = pc])

Up == loop # "down"

\* main shuts the HTTP server down before it closes the scheduler.
Serving == Up /\ ~stopping

\* One of the bounded failures happens.
Fault == faults < MaxFaults /\ faults' = faults + 1

-----------------------------------------------------------------------------
\* Users and other components.  A control of a running job commits first and
\* calls Scheduler.interrupt afterwards.

Room == Cardinality(calls) + Cardinality(asyncs) < MaxCalls

Call(j, action) ==
    calls' = IF job[j].status = "running"
               THEN calls \cup {[job |-> j, action |-> action]} ELSE calls

UserControl(j) ==
    /\ Serving
    /\ Room
    /\ \/ Pause(j) /\ Call(j, "paused")
       \/ Cancel(j) /\ Call(j, "cancelled")
       \/ Retire(j) /\ Call(j, "local")
    /\ UNCHANGED <<work, running, asyncs, loop, stopping, faults>>

UserCancelPipeline(d) ==
    /\ Serving
    /\ Room
    /\ CancelPipeline(d)
    /\ calls' = calls \cup
          {[job |-> k, action |-> "local"] :
              k \in {k \in Jobs : InPipeline(d, k) /\ job[k].status = "running"}}
    /\ UNCHANGED <<work, running, asyncs, loop, stopping, faults>>

UserQuiet(j) ==
    /\ Serving
    /\ \/ Enqueue(j)
       \/ Coalesce(j)
       \/ Resume(j)
       \/ Retry(j)
       \/ FinishSeeding(j)
       \/ Respond(j)
    /\ UNCHANGED schedVars

\* A control that needs no provider.
StopsAtOnce(c) == c.action = "local" \/ c.job \notin Interruptible

\* Scheduler.interrupt: look the job up, then stop it or ask its worker.
Notify(c) ==
    /\ c \in calls
    /\ calls' = calls \ {c}
    /\ LET t == running[c.job]
       IN  \/ t = NoToken /\ UNCHANGED <<work, asyncs>>
           \/ /\ t # NoToken
              /\ StopsAtOnce(c)
              /\ Becomes(t, [work[t] EXCEPT !.cancelled = TRUE])
              /\ UNCHANGED asyncs
           \/ /\ t # NoToken
              /\ ~StopsAtOnce(c)
              /\ asyncs' = asyncs \cup
                     {[token |-> t, job |-> c.job, action |-> c.action]}
              /\ Becomes(t, [work[t] EXCEPT !.lost = @ \ {c}])
    /\ UNCHANGED <<queueVars, running, loop, stopping, faults>>

\* The goroutine of interrupt, the worker's Interrupt succeeded: stop Run.
AsyncSucceeds(a) ==
    /\ a \in asyncs
    /\ asyncs' = asyncs \ {a}
    /\ IF Alive(a.token)
         THEN Becomes(a.token, [work[a.token] EXCEPT !.cancelled = TRUE])
         ELSE UNCHANGED work
    /\ UNCHANGED <<queueVars, running, calls, loop, stopping, faults>>

\* The worker's Interrupt failed: refuse the control, if the lease still holds.
AsyncFails(a) ==
    /\ a \in asyncs
    /\ asyncs' = asyncs \ {a}
    /\ \/ RejectInterrupt(a.job, a.token, a.action)
       \/ ~HoldsLease(a.job, a.token) /\ UNCHANGED queueVars
    /\ UNCHANGED <<work, running, calls, loop, stopping, faults>>

\* The worker's Interrupt failed and the database did not take the refusal.
\* interrupt discards the error: the worker runs on, the control stays pending.
AsyncRefusalLost(a) ==
    /\ a \in asyncs
    /\ HoldsLease(a.job, a.token)
    /\ Fault
    /\ asyncs' = asyncs \ {a}
    /\ IF Alive(a.token)
         THEN Becomes(a.token, [work[a.token] EXCEPT
                        !.lost = @ \cup {[job |-> a.job, action |-> a.action]}])
         ELSE UNCHANGED work
    /\ UNCHANGED <<queueVars, running, calls, loop, stopping>>

-----------------------------------------------------------------------------
\* The goroutine of a claimed job

\* dispatch: Claim, then register.  The context is a child of the loop's.
Dispatch(j, t) ==
    /\ loop = "dispatching"
    /\ \A u \in Tokens : ~At(u, "claimed")
    /\ ~Alive(t)
    /\ \A a \in asyncs : a.token # t
    /\ Claim(j, t)
    /\ Becomes(t, [NoWork EXCEPT !.pc = "claimed", !.job = j,
                                 !.cancelled = stopping])
    /\ UNCHANGED <<running, calls, asyncs, loop, stopping, faults>>

Register(t) ==
    /\ At(t, "claimed")
    /\ running' = [running EXCEPT ![work[t].job] = t]
    /\ Becomes(t, [work[t] EXCEPT !.pc = "started", !.keep = "on"])
    /\ UNCHANGED <<queueVars, calls, asyncs, loop, stopping, faults>>

Restores(row) == row.origin \in {"paused", "failed"}

\* Mutant: the intent is taken from the claim, which knew of none.
AfterRefreshStale(w, row) == [w EXCEPT !.pc = "run"]

\* What the durable intent, read again after registration, leads to.
AfterRefresh(w, row) ==
    IF row.intr = NoIntent THEN [w EXCEPT !.pc = "run"]
    ELSE IF w.job \in Interruptible
      THEN [w EXCEPT !.pc = "interrupting", !.intent = row.intr,
                     !.release = Restores(row)]
    ELSE IF w.job \notin ProviderControlled
      THEN [w EXCEPT !.pc = IF w.keep = "failed" THEN "exiting" ELSE "acking",
                     !.keep = "off"]
    ELSE IF Restores(row) /\ w.keep = "failed" THEN [w EXCEPT !.pc = "exiting"]
    ELSE [w EXCEPT !.pc = "rejecting", !.intent = row.intr,
                   !.release = Restores(row),
                   !.keep = IF Restores(row) THEN "off" ELSE w.keep]

Refresh(t) ==
    /\ At(t, "started")
    /\ Holds(t)
    /\ Becomes(t, AfterRefresh(work[t], job[work[t].job]))
    /\ UNCHANGED <<queueVars, running, calls, asyncs, loop, stopping, faults>>

InterruptSucceeds(t) ==
    /\ At(t, "interrupting")
    /\ Becomes(t, [work[t] EXCEPT
                     !.pc = IF work[t].keep = "failed" THEN "exiting"
                            ELSE "acking",
                     !.keep = "off"])
    /\ UNCHANGED <<queueVars, running, calls, asyncs, loop, stopping, faults>>

InterruptFails(t) ==
    /\ At(t, "interrupting")
    /\ LET w == work[t]
       IN  Becomes(t, [w EXCEPT
             !.pc = IF w.cancelled \/ (w.release /\ w.keep = "failed")
                      THEN "exiting" ELSE "rejecting",
             !.keep = IF w.release /\ ~w.cancelled THEN "off" ELSE w.keep])
    /\ UNCHANGED <<queueVars, running, calls, asyncs, loop, stopping, faults>>

Reject(t) ==
    /\ At(t, "rejecting")
    /\ RejectInterrupt(work[t].job, t, work[t].intent)
    /\ Goto(t, IF work[t].release THEN "exiting" ELSE "run")
    /\ UNCHANGED <<running, calls, asyncs, loop, stopping, faults>>

\* Run returned; the keepalive is stopped before anything is stored.
RunReturns(t) ==
    /\ At(t, "run")
    /\ Becomes(t, [work[t] EXCEPT
                     !.pc = IF work[t].keep = "failed" THEN "exiting"
                            ELSE IF work[t].cancelled THEN "acking"
                            ELSE "finishing",
                     !.keep = "off"])
    /\ UNCHANGED <<queueVars, running, calls, asyncs, loop, stopping, faults>>

Ack(t) ==
    /\ At(t, "acking")
    /\ AcknowledgeInterrupt(work[t].job, t)
    /\ Goto(t, "exiting")
    /\ UNCHANGED <<running, calls, asyncs, loop, stopping, faults>>

\* Mutant: the result is saved without checking the lease.
FinishBlindly(t) ==
    /\ At(t, "finishing")
    /\ Write(work[t].job, CompleteRow(job[work[t].job]))
    /\ Goto(t, "exiting")
    /\ UNCHANGED <<policy, gate, running, calls, asyncs, loop, stopping, faults>>

\* Wait, RetryLater, Fail or Complete, as Run's result says.
Finish(t) ==
    /\ At(t, "finishing")
    /\ LET j == work[t].job
       IN  \/ Wait(j, t)
           \/ \E code \in {"", "failure", "credentials_required"},
                 d \in 0..MaxDelay : RetryLater(j, t, code, d)
           \/ Fail(j, t)
           \/ Complete(j, t)
    /\ Goto(t, "exiting")
    /\ UNCHANGED <<running, calls, asyncs, loop, stopping, faults>>

\* A queue operation of the goroutine fails: it logs and returns, whether the
\* lease is lost or the database is at fault.
Abandon(t) ==
    /\ work[t].pc \in {"started", "rejecting", "acking", "finishing"}
    /\ IF Holds(t) THEN Fault ELSE UNCHANGED faults
    /\ Goto(t, "exiting")
    /\ UNCHANGED <<queueVars, running, calls, asyncs, loop, stopping>>

\* The deferred delete goes by the job, not by the claim.
Exit(t) ==
    /\ At(t, "exiting")
    /\ running' = [running EXCEPT ![work[t].job] = NoToken]
    /\ Becomes(t, NoWork)
    /\ UNCHANGED <<queueVars, calls, asyncs, loop, stopping, faults>>

\* startLeaseKeepalive: renew, or stop the worker.
KeepaliveRenews(t) ==
    /\ work[t].keep = "on"
    /\ Renew(work[t].job, t)
    /\ UNCHANGED schedVars

\* Mutant: the error is only recorded, the worker runs on.
KeepaliveFailsSilently(t) ==
    /\ work[t].keep = "on"
    /\ IF Holds(t) THEN Fault ELSE UNCHANGED faults
    /\ Becomes(t, [work[t] EXCEPT !.keep = "failed"])
    /\ UNCHANGED <<queueVars, running, calls, asyncs, loop, stopping>>

KeepaliveFails(t) ==
    /\ work[t].keep = "on"
    /\ IF Holds(t) THEN Fault ELSE UNCHANGED faults
    /\ Becomes(t, [work[t] EXCEPT !.keep = "failed", !.cancelled = TRUE])
    /\ UNCHANGED <<queueVars, running, calls, asyncs, loop, stopping>>

\* workerRuntime: what Run itself writes.
WorkerSaves(t) ==
    /\ At(t, "run")
    /\ Renew(work[t].job, t) \/ SaveCheckpoint(work[t].job, t)
    /\ UNCHANGED schedVars

-----------------------------------------------------------------------------
\* The loop and the process

\* A wakeup.  Go's select may still take it, or a tick, after Close.
BeginDispatch ==
    /\ loop = "idle"
    /\ loop' = "dispatching"
    /\ UNCHANGED <<queueVars, work, running, calls, asyncs, stopping, faults>>

\* A tick: promote what is due, recover the expired leases, then dispatch.
TickPromotes ==
    /\ loop = "idle"
    /\ \/ PromoteDueRetries
       \/ (\A j \in Jobs : ~Due(job[j])) /\ UNCHANGED queueVars
    /\ loop' = "recovering"
    /\ UNCHANGED <<work, running, calls, asyncs, stopping, faults>>

TickRecovers ==
    /\ loop = "recovering"
    /\ \/ RecoverExpiredLeases
       \/ ~UniqueActive(Recovered) /\ UNCHANGED queueVars
    /\ loop' = "dispatching"
    /\ UNCHANGED <<work, running, calls, asyncs, stopping, faults>>

\* Claim returned nothing (or the model has no token left for it).
EndDispatch ==
    /\ loop = "dispatching"
    /\ \A t \in Tokens : ~At(t, "claimed")
    /\ \/ \A j \in Jobs : ~Claimable(j)
       \/ \A t \in Tokens : Alive(t) \/ \E a \in asyncs : a.token = t
    /\ loop' = "idle"
    /\ UNCHANGED <<queueVars, work, running, calls, asyncs, stopping, faults>>

\* A storage error in one of these transactions only ends that one.
LoopCallFails ==
    /\ Fault
    /\ \/ loop = "idle" /\ loop' = "recovering"
       \/ loop = "recovering" /\ loop' = "dispatching"
       \/ /\ loop = "dispatching"
          /\ \A t \in Tokens : ~At(t, "claimed")
          /\ loop' = "idle"
    /\ UNCHANGED <<queueVars, work, running, calls, asyncs, stopping>>

\* Mutant: the workers' contexts are not derived from the loop's.
CloseForgetsWorkers ==
    /\ Up
    /\ ~stopping
    /\ Fault
    /\ stopping' = TRUE
    /\ UNCHANGED <<queueVars, work, running, calls, asyncs, loop>>

\* Close: every worker's context is cancelled with the loop's.
Close ==
    /\ Up
    /\ ~stopping
    /\ Fault
    /\ stopping' = TRUE
    /\ work' = [t \in Tokens |-> IF Alive(t)
                                   THEN [work[t] EXCEPT !.cancelled = TRUE]
                                   ELSE work[t]]
    /\ UNCHANGED <<queueVars, running, calls, asyncs, loop>>

LoopReturns ==
    /\ loop = "idle"
    /\ stopping
    /\ loop' = "returned"
    /\ UNCHANGED <<queueVars, work, running, calls, asyncs, stopping, faults>>

\* What a process keeps in memory is gone with it.
ProcessEnds ==
    /\ loop' = "down"
    /\ stopping' = FALSE
    /\ work' = [t \in Tokens |-> NoWork]
    /\ running' = [j \in Jobs |-> NoToken]
    /\ calls' = {}
    /\ asyncs' = {}
    /\ UNCHANGED queueVars

\* Close returns once the loop and the goroutines of dispatch are done; the
\* goroutines of interrupt are not waited for.
Closed ==
    /\ loop = "returned"
    /\ \A t \in Tokens : ~Alive(t)
    /\ ProcessEnds
    /\ UNCHANGED faults

Crash ==
    /\ Up
    /\ Fault
    /\ ProcessEnds

Start ==
    /\ loop = "down"
    /\ RecoverExpiredLeases
    /\ loop' = "idle"
    /\ UNCHANGED <<work, running, calls, asyncs, stopping, faults>>

\* Time passes.  A punctual process renews, or gets through the step it is at,
\* before the lease of a goroutine runs out.
TimePasses ==
    /\ Punctual => \A t \in Tokens : Holds(t) => job[work[t].job].left > 1
    /\ Tick
    /\ UNCHANGED schedVars

-----------------------------------------------------------------------------

SchedInit ==
    /\ QueueInit
    /\ work = [t \in Tokens |-> NoWork]
    /\ running = [j \in Jobs |-> NoToken]
    /\ calls = {}
    /\ asyncs = {}
    /\ loop = "down"
    /\ stopping = FALSE
    /\ faults = 0

\* The steps of a goroutine but for Run, which takes the time it takes.
GoroutineStep(t) ==
    \/ Register(t)
    \/ Refresh(t)
    \/ InterruptSucceeds(t)
    \/ InterruptFails(t)
    \/ Reject(t)
    \/ Ack(t)
    \/ Finish(t)
    \/ Abandon(t)
    \/ Exit(t)

SchedNext ==
    \/ \E j \in Jobs : UserControl(j) \/ UserCancelPipeline(j) \/ UserQuiet(j)
    \/ \E c \in calls : Notify(c)
    \/ \E a \in asyncs : AsyncSucceeds(a) \/ AsyncFails(a) \/ AsyncRefusalLost(a)
    \/ \E j \in Jobs, t \in Tokens : Dispatch(j, t)
    \/ \E t \in Tokens :
          \/ GoroutineStep(t)
          \/ RunReturns(t)
          \/ KeepaliveRenews(t)
          \/ KeepaliveFails(t)
          \/ WorkerSaves(t)
    \/ BeginDispatch
    \/ TickPromotes
    \/ TickRecovers
    \/ EndDispatch
    \/ LoopCallFails
    \/ Close
    \/ LoopReturns
    \/ Closed
    \/ Crash
    \/ Start
    \/ TimePasses

SchedSpec == SchedInit /\ [][SchedNext]_vars

\* The keepalive's timer fires, and what it does without a fault.
KeepaliveStep(t) == KeepaliveRenews(t) \/ (~Holds(t) /\ KeepaliveFails(t))

\* The runtime schedules every goroutine that can go on; a provider call returns
\* (it has a timeout); the loop keeps ticking, and its select does not overlook
\* a closed context for ever; a process that is down is started.
Fairness ==
    /\ \A t \in Tokens : WF_vars(KeepaliveStep(t))
    /\ WF_vars(\E c \in calls : Notify(c))
    /\ WF_vars(\E a \in asyncs : AsyncSucceeds(a) \/ AsyncFails(a))
    /\ WF_vars(TickRecovers \/ EndDispatch
                  \/ \E j \in Jobs, t \in Tokens : Dispatch(j, t))
    /\ SF_vars(TickPromotes)
    /\ SF_vars(LoopReturns)
    /\ WF_vars(Closed \/ Start)
    /\ WF_vars(TimePasses)

\* A Run whose context is cancelled returns.
SchedFairSpec ==
    /\ SchedSpec
    /\ Fairness
    /\ \A t \in Tokens :
          WF_vars(GoroutineStep(t) \/ (work[t].cancelled /\ RunReturns(t)))

\* Every Run returns some day even if nobody stops it.
SchedFiniteSpec ==
    /\ SchedSpec
    /\ Fairness
    /\ \A t \in Tokens : WF_vars(GoroutineStep(t) \/ RunReturns(t))

-----------------------------------------------------------------------------
(* Properties *)

\* Every variable of the scheduler stays in its type.
SchedTypeOK ==
    /\ TypeOK
    /\ work \in [Tokens -> Work]
    /\ running \in [Jobs -> Tokens \cup {NoToken}]
    /\ calls \subseteq [job : Jobs, action : CallActions]
    /\ asyncs \subseteq [token : Tokens, job : Jobs, action : Intents]
    /\ loop \in {"down", "idle", "recovering", "dispatching", "returned"}
    /\ stopping \in BOOLEAN
    /\ faults \in 0..MaxFaults

\* Whatever the scheduler's goroutines, keepalives, calls and restarts do to the
\* table are operations of the queue, each by the holder of the lease: what holds
\* of the queue under any caller holds of it under the scheduler.
ImplementsQueue == QueueSpec

\* A control is pending for a goroutine in Run that nothing will stop, although its
\* refusal was not lost in a storage error.
Unheard(t) ==
    LET j == work[t].job
    IN  /\ At(t, "run")
        /\ Holds(t)
        /\ job[j].intr # NoIntent
        /\ [job |-> j, action |-> job[j].intr] \notin work[t].lost
        /\ ~work[t].cancelled
        /\ \A c \in calls : c.job # j
        /\ \A a \in asyncs : a.token # t

\* A control of a registered job is never lost between Claim, registration and
\* the refresh: if its worker is in Run, then the worker is being stopped, or a
\* call that will stop it or refuse the control is on its way. One thing does lose
\* a control: interrupt discards the error of RejectInterrupt, so that a provider's
\* refusal which meets a storage error leaves it pending until Run ends. A later
\* control with the same action is heard again.
RegisteredHearsControl ==
    \A t \in Tokens : (Alive(t) /\ running[work[t].job] = t) => ~Unheard(t)

\* A worker in Run keeps its lease until Run returns: no control, retirement or
\* crash of the scheduler gives its work to another worker. Only time takes the
\* lease away, and cancelPipeline, which does not wait for the worker.
RunKeepsLease ==
    [][\A t \in Tokens :
          LET j == work[t].job
          IN  (At(t, "run") /\ Holds(t) /\ At(t, "run")') =>
                  \/ Holds(t)'
                  \/ Expired(job'[j])
                  \/ (\E d \in Downloads : InPipeline(d, j)) /\ job'[j].status = "cancelled"]_vars

\* A worker that lost its lease does not run on: the keepalive finds out and
\* stops it, so that two runs of a job overlap for a bounded time only.
LostRunStops ==
    \A t \in Tokens : (At(t, "run") /\ ~Holds(t)) ~> ~At(t, "run")

\* Close returns, whatever the workers were doing.
CloseReturns == stopping ~> ~Up

\* Every control is answered in the end, unless the worker asked the user a
\* question in between or Stop completed a seeding job over it.
ControlAnswered ==
    \A j \in Jobs :
        job[j].intr # NoIntent ~>
            \/ job[j].intr = NoIntent
            \/ job[j].status \in {"waiting_user_action", "completed"}

=============================================================================
