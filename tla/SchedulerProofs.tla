-------------------------- MODULE SchedulerProofs --------------------------
(***************************************************************************)
(* The scheduler implements the job queue: for every set of jobs, tokens   *)
(* and policies, however its goroutines, keepalives, calls, stops and      *)
(* crashes interleave, what they do to the jobs table are operations of    *)
(* QueueNext.  With it every theorem of JobQueueProofs holds under the     *)
(* scheduler as well.                                                      *)
(*                                                                         *)
(* A step of a goroutine is an operation of the queue only if the          *)
(* goroutine is at work on a job, and a refusal only if it refuses an      *)
(* intent; that is what SInv adds to the types.                            *)
(***************************************************************************)
EXTENDS Scheduler, JobQueueProofs

\* What a goroutine, or the place of one that does not exist, looks like.
Placed(w) ==
    /\ w \in Work
    /\ w.pc # "none" => w.job \in Jobs
    /\ w.pc = "none" => w.keep = "off"
    /\ w.pc \in {"interrupting", "rejecting"} => w.intent \in Intents

WorkInv == work \in [Tokens -> Work] /\ \A t \in Tokens : Placed(work[t])

\* The scheduler's own variables, apart from its goroutines.
RestInv ==
    /\ running \in [Jobs -> Tokens \cup {NoToken}]
    /\ calls \subseteq [job : Jobs, action : CallActions]
    /\ asyncs \subseteq [token : Tokens, job : Jobs, action : Intents]
    /\ loop \in {"down", "idle", "recovering", "dispatching", "returned"}
    /\ stopping \in BOOLEAN
    /\ faults \in 0..MaxFaults

SInv == WorkInv /\ RestInv

-----------------------------------------------------------------------------
(* Goroutines *)

\* The place of no goroutine is in order.
LEMMA NoWorkPlaced == Placed(NoWork)
BY DEF Placed, NoWork, Work, PCs, Intents, NoIntent

\* Nothing else than one goroutine changes.
LEMMA BecomesKeeps ==
    ASSUME WorkInv, NEW t \in Tokens, NEW w, Placed(w), Becomes(t, w)
    PROVE  WorkInv'
BY DEF WorkInv, Becomes, Placed

\* A goroutine stays in order when it is cancelled.
LEMMA CancelledPlaced ==
    ASSUME NEW w, Placed(w)
    PROVE  Placed([w EXCEPT !.cancelled = TRUE])
BY DEF Placed, Work

\* A goroutine stays in order when a refusal of its control is lost, or forgotten
\* because the control came again.
LEMMA LostPlaced ==
    ASSUME NEW w, Placed(w), NEW L \in SUBSET [job : Jobs, action : Intents]
    PROVE  Placed([w EXCEPT !.lost = L])
BY DEF Placed, Work

\* A goroutine that goes on to a step where it needs no intent stays in order,
\* whatever becomes of its keepalive.
LEMMA MovedPlaced ==
    ASSUME NEW w, Placed(w), w.pc # "none",
           NEW pc \in PCs \ {"none", "interrupting", "rejecting"},
           NEW keep \in {"off", "on", "failed"}
    PROVE  Placed([w EXCEPT !.pc = pc, !.keep = keep])
BY DEF Placed, Work

\* A goroutine that goes to refuse an intent it knows of stays in order.
LEMMA RefusingPlaced ==
    ASSUME NEW w, Placed(w), w.pc # "none", w.intent \in Intents,
           NEW pc \in PCs \ {"none"},
           NEW keep \in {"off", "on", "failed"}
    PROVE  Placed([w EXCEPT !.pc = pc, !.keep = keep])
BY DEF Placed, Work

\* The same of a goroutine that only goes on.
LEMMA GotoPlaced ==
    ASSUME NEW w, Placed(w), w.pc # "none",
           NEW pc \in PCs \ {"none", "interrupting", "rejecting"}
    PROVE  Placed([w EXCEPT !.pc = pc])
BY DEF Placed, Work

\* What the refresh of the durable intent leads to is in order.
LEMMA AfterRefreshPlaced ==
    ASSUME NEW w, Placed(w), w.pc # "none", NEW r \in Row
    PROVE  Placed(AfterRefresh(w, r))
<1>1. r.intr \in {NoIntent} \cup Intents
  BY DEF Row
<1>2. CASE r.intr = NoIntent
  <2>1. AfterRefresh(w, r) = [w EXCEPT !.pc = "run"]
    BY <1>2 DEF AfterRefresh
  <2> QED BY <2>1, GotoPlaced DEF PCs
<1>3. CASE r.intr # NoIntent /\ w.job \in Interruptible
  <2> DEFINE rel == Restores(r)
  <2>0. rel \in BOOLEAN
    BY DEF Restores
  <2>1. AfterRefresh(w, r) = [w EXCEPT !.pc = "interrupting", !.intent = r.intr,
                                       !.release = rel]
    BY <1>3 DEF AfterRefresh
  <2> HIDE DEF rel
  <2>2. r.intr \in Intents
    BY <1>1, <1>3
  <2> QED BY <2>0, <2>1, <2>2 DEF Placed, Work, PCs
<1>4. CASE /\ r.intr # NoIntent /\ w.job \notin Interruptible
           /\ w.job \notin ProviderControlled
  <2> DEFINE pc == IF w.keep = "failed" THEN "exiting" ELSE "acking"
  <2>1. AfterRefresh(w, r) = [w EXCEPT !.pc = pc, !.keep = "off"]
    BY <1>4 DEF AfterRefresh
  <2>2. pc \in PCs \ {"none", "interrupting", "rejecting"}
    BY DEF PCs
  <2>3. "off" \in {"off", "on", "failed"}
    OBVIOUS
  <2> HIDE DEF pc
  <2>4. Placed([w EXCEPT !.pc = pc, !.keep = "off"])
    BY <2>2, <2>3, MovedPlaced
  <2> QED BY <2>1, <2>4
<1>5. CASE /\ r.intr # NoIntent /\ w.job \notin Interruptible
           /\ w.job \in ProviderControlled /\ Restores(r) /\ w.keep = "failed"
  <2>1. AfterRefresh(w, r) = [w EXCEPT !.pc = "exiting"]
    BY <1>5 DEF AfterRefresh
  <2> QED BY <2>1, GotoPlaced DEF PCs
<1>6. CASE /\ r.intr # NoIntent /\ w.job \notin Interruptible
           /\ w.job \in ProviderControlled /\ ~(Restores(r) /\ w.keep = "failed")
  <2> DEFINE rel == Restores(r)
             keep == IF rel THEN "off" ELSE w.keep
  <2>0. rel \in BOOLEAN /\ keep \in {"off", "on", "failed"}
    BY DEF Restores, Placed, Work
  <2>1. AfterRefresh(w, r) = [w EXCEPT !.pc = "rejecting", !.intent = r.intr,
                                       !.release = rel, !.keep = keep]
    BY <1>6 DEF AfterRefresh
  <2> HIDE DEF rel, keep
  <2>2. r.intr \in Intents
    BY <1>1, <1>6
  <2> QED BY <2>0, <2>1, <2>2 DEF Placed, Work, PCs
<1> QED BY <1>2, <1>3, <1>4, <1>5, <1>6

-----------------------------------------------------------------------------
(* Every step is a step of the queue *)

\* What a goroutine at work does with its own lease is an operation of the queue.
LEMMA OwnStepMaps ==
    ASSUME WorkInv, NEW t \in Tokens,
           work[t].pc # "none" \/ work[t].keep # "off",
           HolderStep(work[t].job, t)
    PROVE  QueueNext
<1>1. work[t].job \in Jobs
  BY DEF WorkInv, Placed
<1> QED BY <1>1 DEF QueueNext

\* Every step of the scheduler is a step of the queue or leaves it alone.
LEMMA StepMaps ==
    ASSUME SInv, [SchedNext]_vars
    PROVE  [QueueNext]_queueVars
<1> USE DEF SInv
<1>1. ASSUME NEW j \in Jobs,
             UserControl(j) \/ UserCancelPipeline(j) \/ UserQuiet(j)
      PROVE  QueueNext
  <2>1. UserStep(j)
    BY <1>1 DEF UserControl, UserCancelPipeline, UserQuiet, UserStep
  <2> QED BY <2>1 DEF QueueNext
<1>2. ASSUME NEW c \in calls, Notify(c) PROVE UNCHANGED queueVars
  BY <1>2 DEF Notify
<1>3. ASSUME NEW a \in asyncs, AsyncSucceeds(a) \/ AsyncFails(a) \/ AsyncRefusalLost(a)
      PROVE  [QueueNext]_queueVars
  <2>1. a.token \in Tokens /\ a.job \in Jobs /\ a.action \in Intents
    BY DEF RestInv
  <2>2. CASE RejectInterrupt(a.job, a.token, a.action)
    BY <2>1, <2>2 DEF QueueNext, HolderStep
  <2> QED BY <1>3, <2>2 DEF AsyncSucceeds, AsyncFails, AsyncRefusalLost
<1>4. ASSUME NEW j \in Jobs, NEW t \in Tokens, Dispatch(j, t) PROVE QueueNext
  BY <1>4 DEF Dispatch, QueueNext
<1>5. ASSUME NEW t \in Tokens, GoroutineStep(t) PROVE [QueueNext]_queueVars
  <2>1. CASE \/ Register(t) \/ Refresh(t) \/ InterruptSucceeds(t)
             \/ InterruptFails(t) \/ Abandon(t) \/ Exit(t)
    BY <2>1 DEF Register, Refresh, InterruptSucceeds, InterruptFails, Abandon,
                Exit
  <2>2. CASE Reject(t)
    <3>1. work[t].pc # "none" /\ work[t].intent \in Intents
      BY <2>2 DEF Reject, At, WorkInv, Placed
    <3>2. HolderStep(work[t].job, t)
      BY <2>2, <3>1 DEF Reject, HolderStep
    <3> QED BY <3>1, <3>2, OwnStepMaps
  <2>3. CASE Ack(t)
    <3>1. work[t].pc # "none" /\ HolderStep(work[t].job, t)
      BY <2>3 DEF Ack, At, HolderStep
    <3> QED BY <3>1, OwnStepMaps
  <2>4. CASE Finish(t)
    <3>1. work[t].pc # "none" /\ HolderStep(work[t].job, t)
      BY <2>4 DEF Finish, At, HolderStep
    <3> QED BY <3>1, OwnStepMaps
  <2> QED BY <1>5, <2>1, <2>2, <2>3, <2>4 DEF GoroutineStep
<1>6. ASSUME NEW t \in Tokens, RunReturns(t) \/ KeepaliveFails(t)
      PROVE  UNCHANGED queueVars
  BY <1>6 DEF RunReturns, KeepaliveFails
<1>7. ASSUME NEW t \in Tokens, KeepaliveRenews(t) \/ WorkerSaves(t)
      PROVE  QueueNext
  <2>1. work[t].pc # "none" \/ work[t].keep # "off"
    BY <1>7 DEF KeepaliveRenews, WorkerSaves, At
  <2>2. HolderStep(work[t].job, t)
    BY <1>7 DEF KeepaliveRenews, WorkerSaves, HolderStep
  <2> QED BY <2>1, <2>2, OwnStepMaps
<1>8. CASE TickPromotes \/ TickRecovers \/ Start \/ TimePasses
  BY <1>8 DEF TickPromotes, TickRecovers, Start, TimePasses, QueueNext
<1>9. CASE \/ BeginDispatch \/ EndDispatch \/ LoopCallFails \/ Close
           \/ LoopReturns \/ Closed \/ Crash \/ UNCHANGED vars
  BY <1>9 DEF BeginDispatch, EndDispatch, LoopCallFails, Close, LoopReturns,
              Closed, Crash, ProcessEnds, vars, queueVars
<1> QED BY <1>1, <1>2, <1>3, <1>4, <1>5, <1>6, <1>7, <1>8, <1>9 DEF SchedNext

-----------------------------------------------------------------------------
(* Every step keeps SInv *)

\* One more failure stays within the bound.
LEMMA FaultCounts ==
    ASSUME faults \in 0..MaxFaults, Fault
    PROVE  faults' \in 0..MaxFaults
BY SchedulerAssumption DEF SchedulerAssumption, Fault

\* What users and other components do keeps SInv.
LEMMA UserKeepsSInv ==
    ASSUME SInv, NEW j \in Jobs,
           UserControl(j) \/ UserCancelPipeline(j) \/ UserQuiet(j)
    PROVE  SInv'
<1>1. UNCHANGED <<work, running, asyncs, loop, stopping, faults>>
  BY DEF UserControl, UserCancelPipeline, UserQuiet, schedVars
<1>2. calls' \subseteq [job : Jobs, action : CallActions]
  <2>1. CASE UserControl(j)
    <3>1. PICK action \in CallActions : Call(j, action)
      BY <2>1 DEF UserControl, CallActions, Intents
    <3> QED BY <3>1 DEF Call, SInv, RestInv
  <2>2. CASE UserCancelPipeline(j)
    BY <2>2 DEF UserCancelPipeline, SInv, RestInv, CallActions
  <2>3. CASE UserQuiet(j)
    BY <2>3 DEF UserQuiet, schedVars, SInv, RestInv
  <2> QED BY <2>1, <2>2, <2>3
<1> QED BY <1>1, <1>2 DEF SInv, RestInv, WorkInv

\* A control on its way keeps SInv.
LEMMA NotifyKeepsSInv ==
    ASSUME SInv, NEW c \in calls, Notify(c)
    PROVE  SInv'
<1> DEFINE t == running[c.job]
<1>1. c.job \in Jobs /\ c.action \in CallActions
  BY DEF SInv, RestInv
<1>2. t \in Tokens \cup {NoToken}
  BY <1>1 DEF SInv, RestInv
<1>3. /\ calls' = calls \ {c}
      /\ UNCHANGED <<running, loop, stopping, faults>>
  BY DEF Notify
<1>4. CASE t = NoToken /\ UNCHANGED <<work, asyncs>>
  BY <1>3, <1>4 DEF SInv, RestInv, WorkInv
<1>5. CASE t # NoToken /\ StopsAtOnce(c)
           /\ Becomes(t, [work[t] EXCEPT !.cancelled = TRUE])
           /\ UNCHANGED asyncs
  <2>1. WorkInv'
    BY <1>2, <1>5, CancelledPlaced, BecomesKeeps DEF SInv, WorkInv
  <2> QED BY <1>3, <1>5, <2>1 DEF SInv, RestInv
<1>6. CASE t # NoToken /\ ~StopsAtOnce(c)
           /\ asyncs' = asyncs \cup
                 {[token |-> t, job |-> c.job, action |-> c.action]}
           /\ Becomes(t, [work[t] EXCEPT !.lost = @ \ {c}])
  <2>1. c.action \in Intents
    BY <1>1, <1>6 DEF StopsAtOnce, CallActions
  <2>2. [token |-> t, job |-> c.job, action |-> c.action]
            \in [token : Tokens, job : Jobs, action : Intents]
    BY <1>1, <1>2, <1>6, <2>1
  <2>3. t \in Tokens /\ Placed(work[t])
    BY <1>2, <1>6 DEF SInv, WorkInv
  <2> DEFINE L == work[t].lost \ {c}
  <2>4. L \in SUBSET [job : Jobs, action : Intents]
    BY <2>3 DEF Placed, Work
  <2>5. Becomes(t, [work[t] EXCEPT !.lost = L])
    BY <1>6
  <2> HIDE DEF t, L
  <2>6. WorkInv'
    BY <2>3, <2>4, <2>5, LostPlaced, BecomesKeeps DEF SInv
  <2> QED BY <1>3, <1>6, <2>2, <2>6 DEF SInv, RestInv
<1> QED BY <1>4, <1>5, <1>6 DEF Notify

\* The answer of a provider keeps SInv.
LEMMA AsyncKeepsSInv ==
    ASSUME SInv, NEW a \in asyncs, AsyncSucceeds(a) \/ AsyncFails(a) \/ AsyncRefusalLost(a)
    PROVE  SInv'
<1>1. a.token \in Tokens /\ a.job \in Jobs /\ a.action \in Intents
  BY DEF SInv, RestInv
<1>2. RestInv'
  <2>1. faults' \in 0..MaxFaults
    BY SchedulerAssumption
       DEF AsyncSucceeds, AsyncFails, AsyncRefusalLost, Fault, SInv, RestInv, SchedulerAssumption
  <2> QED BY <2>1 DEF AsyncSucceeds, AsyncFails, AsyncRefusalLost, SInv, RestInv
<1>3. CASE UNCHANGED work
  BY <1>2, <1>3 DEF SInv, WorkInv
<1>4. CASE Becomes(a.token, [work[a.token] EXCEPT !.cancelled = TRUE])
  BY <1>1, <1>2, <1>4, CancelledPlaced, BecomesKeeps DEF SInv, WorkInv
<1>5. CASE Becomes(a.token, [work[a.token] EXCEPT
                      !.lost = @ \cup {[job |-> a.job, action |-> a.action]}])
  <2> DEFINE L == work[a.token].lost \cup {[job |-> a.job, action |-> a.action]}
  <2>1. Placed(work[a.token]) /\ WorkInv
    BY <1>1 DEF SInv, WorkInv
  <2>2. L \in SUBSET [job : Jobs, action : Intents]
    BY <1>1, <2>1 DEF Placed, Work
  <2>3. Becomes(a.token, [work[a.token] EXCEPT !.lost = L])
    BY <1>5
  <2> HIDE DEF L
  <2> QED BY <1>1, <1>2, <2>1, <2>2, <2>3, LostPlaced, BecomesKeeps DEF SInv
<1> QED BY <1>3, <1>4, <1>5 DEF AsyncSucceeds, AsyncFails, AsyncRefusalLost

\* A claim keeps SInv.
LEMMA DispatchKeepsSInv ==
    ASSUME SInv, NEW j \in Jobs, NEW t \in Tokens, Dispatch(j, t)
    PROVE  SInv'
<1> DEFINE w == [NoWork EXCEPT !.pc = "claimed", !.job = j,
                               !.cancelled = stopping]
<1>1. Placed(w)
  BY DEF SInv, RestInv, Placed, Work, NoWork, PCs
<1>2. Becomes(t, w) /\ UNCHANGED <<running, calls, asyncs, loop, stopping, faults>>
  BY DEF Dispatch
<1> HIDE DEF w
<1>3. WorkInv'
  BY <1>1, <1>2, BecomesKeeps DEF SInv
<1> QED BY <1>2, <1>3 DEF SInv, RestInv

\* The steps of a goroutine keep SInv.
LEMMA GoroutineKeepsSInv ==
    ASSUME QInv, SInv, NEW t \in Tokens, GoroutineStep(t) \/ RunReturns(t)
    PROVE  SInv'
<1> DEFINE w == work[t]
<1>0. Placed(w) /\ WorkInv /\ RestInv
  BY DEF SInv, WorkInv
<1>1. w.keep \in {"off", "on", "failed"}
  BY <1>0 DEF Placed, Work
<1>2. CASE Register(t)
  <2>1. w.pc # "none" /\ w.job \in Jobs
    BY <1>0, <1>2 DEF Register, At, Placed
  <2>2. Placed([w EXCEPT !.pc = "started", !.keep = "on"])
    BY <1>0, <2>1, MovedPlaced DEF PCs
  <2>3. WorkInv'
    BY <1>0, <1>2, <2>2, BecomesKeeps DEF Register
  <2>4. RestInv'
    BY <1>0, <1>2, <2>1 DEF Register, RestInv
  <2> QED BY <2>3, <2>4 DEF SInv
<1>3. CASE Exit(t)
  <2>1. WorkInv'
    BY <1>0, <1>3, NoWorkPlaced, BecomesKeeps DEF Exit
  <2>2. RestInv'
    BY <1>0, <1>3 DEF Exit, RestInv
  <2> QED BY <2>1, <2>2 DEF SInv
<1>4. CASE Abandon(t)
  <2>1. w.pc # "none" /\ Becomes(t, [w EXCEPT !.pc = "exiting"])
    BY <1>4 DEF Abandon, Goto
  <2>2. WorkInv'
    BY <1>0, <2>1, GotoPlaced, BecomesKeeps DEF PCs
  <2>3. faults' \in 0..MaxFaults
    BY <1>0, <1>4, FaultCounts DEF Abandon, RestInv
  <2>4. RestInv'
    BY <1>0, <1>4, <2>3 DEF Abandon, RestInv
  <2> QED BY <2>2, <2>4 DEF SInv
<1>5. ASSUME NEW v, Placed(v), Becomes(t, v),
             UNCHANGED <<running, calls, asyncs, loop, stopping, faults>>
      PROVE  SInv'
  <2>1. WorkInv'
    BY <1>0, <1>5, BecomesKeeps
  <2> QED BY <1>0, <1>5, <2>1 DEF SInv, RestInv
<1>6. CASE Refresh(t)
  <2>1. w.pc # "none" /\ w.job \in Jobs
    BY <1>0, <1>6 DEF Refresh, At, Placed
  <2>2. job[w.job] \in Row
    BY <2>1, RowOfTable
  <2>3. Placed(AfterRefresh(w, job[w.job]))
    BY <1>0, <2>1, <2>2, AfterRefreshPlaced
  <2> QED BY <1>5, <1>6, <2>3 DEF Refresh
<1>7. CASE InterruptSucceeds(t)
  <2> DEFINE pc == IF w.keep = "failed" THEN "exiting" ELSE "acking"
  <2>1. w.pc # "none" /\ Becomes(t, [w EXCEPT !.pc = pc, !.keep = "off"])
    BY <1>7 DEF InterruptSucceeds, At
  <2>2. pc \in PCs \ {"none", "interrupting", "rejecting"}
    BY DEF PCs
  <2>3. "off" \in {"off", "on", "failed"}
    OBVIOUS
  <2> HIDE DEF pc
  <2>4. Placed([w EXCEPT !.pc = pc, !.keep = "off"])
    BY <1>0, <2>1, <2>2, <2>3, MovedPlaced
  <2> QED BY <1>5, <1>7, <2>1, <2>4 DEF InterruptSucceeds
<1>8. CASE InterruptFails(t)
  <2> DEFINE pc == IF w.cancelled \/ (w.release /\ w.keep = "failed")
                     THEN "exiting" ELSE "rejecting"
             keep == IF w.release /\ ~w.cancelled THEN "off" ELSE w.keep
  <2>1. Becomes(t, [w EXCEPT !.pc = pc, !.keep = keep])
    BY <1>8 DEF InterruptFails
  <2>2. w.pc # "none" /\ w.intent \in Intents
    BY <1>0, <1>8 DEF InterruptFails, At, Placed
  <2>3. pc \in PCs \ {"none"}
    BY DEF PCs
  <2>4. keep \in {"off", "on", "failed"}
    BY <1>1
  <2> HIDE DEF pc, keep
  <2>5. Placed([w EXCEPT !.pc = pc, !.keep = keep])
    BY <1>0, <2>2, <2>3, <2>4, RefusingPlaced
  <2> QED BY <1>5, <1>8, <2>1, <2>5 DEF InterruptFails
<1>9. CASE Reject(t)
  <2> DEFINE pc == IF w.release THEN "exiting" ELSE "run"
  <2>1. w.pc # "none" /\ Becomes(t, [w EXCEPT !.pc = pc])
    BY <1>9 DEF Reject, At, Goto
  <2>2. pc \in PCs \ {"none", "interrupting", "rejecting"}
    BY DEF PCs
  <2> HIDE DEF pc
  <2>3. Placed([w EXCEPT !.pc = pc])
    BY <1>0, <2>1, <2>2, GotoPlaced
  <2> QED BY <1>5, <1>9, <2>1, <2>3 DEF Reject
<1>10. CASE Ack(t) \/ Finish(t)
  <2>1. w.pc # "none" /\ Becomes(t, [w EXCEPT !.pc = "exiting"])
    BY <1>10 DEF Ack, Finish, At, Goto
  <2>2. Placed([w EXCEPT !.pc = "exiting"])
    BY <1>0, <2>1, GotoPlaced DEF PCs
  <2> QED BY <1>5, <1>10, <2>1, <2>2 DEF Ack, Finish
<1>11. CASE RunReturns(t)
  <2> DEFINE pc == IF w.keep = "failed" THEN "exiting"
                   ELSE IF w.cancelled THEN "acking" ELSE "finishing"
  <2>1. w.pc # "none" /\ Becomes(t, [w EXCEPT !.pc = pc, !.keep = "off"])
    BY <1>11 DEF RunReturns, At
  <2>2. pc \in PCs \ {"none", "interrupting", "rejecting"}
    BY DEF PCs
  <2>3. "off" \in {"off", "on", "failed"}
    OBVIOUS
  <2> HIDE DEF pc
  <2>4. Placed([w EXCEPT !.pc = pc, !.keep = "off"])
    BY <1>0, <2>1, <2>2, <2>3, MovedPlaced
  <2> QED BY <1>5, <1>11, <2>1, <2>4 DEF RunReturns
<1> QED BY <1>2, <1>3, <1>4, <1>6, <1>7, <1>8, <1>9, <1>10, <1>11
        DEF GoroutineStep

\* A keepalive that fails keeps SInv.
LEMMA KeepaliveKeepsSInv ==
    ASSUME SInv, NEW t \in Tokens, KeepaliveFails(t)
    PROVE  SInv'
<1> DEFINE w == [work[t] EXCEPT !.keep = "failed", !.cancelled = TRUE]
<1>1. Placed(work[t]) /\ work[t].keep = "on"
  BY DEF SInv, WorkInv, KeepaliveFails
<1>2. Placed(w)
  BY <1>1 DEF Placed, Work
<1>3. Becomes(t, w) /\ UNCHANGED <<running, calls, asyncs, loop, stopping>>
  BY DEF KeepaliveFails
<1> HIDE DEF w
<1>4. WorkInv'
  BY <1>2, <1>3, BecomesKeeps DEF SInv
<1>5. faults' \in 0..MaxFaults
  BY FaultCounts DEF KeepaliveFails, SInv, RestInv
<1> QED BY <1>3, <1>4, <1>5 DEF SInv, RestInv

\* Stops, crashes and starts keep SInv.
LEMMA ProcessKeepsSInv ==
    ASSUME SInv,
           \/ BeginDispatch \/ TickPromotes \/ TickRecovers \/ EndDispatch
           \/ LoopCallFails \/ Close \/ LoopReturns \/ Closed \/ Crash \/ Start
    PROVE  SInv'
<1>1. CASE \/ BeginDispatch \/ TickPromotes \/ TickRecovers \/ EndDispatch
           \/ LoopReturns \/ Start
  BY <1>1 DEF BeginDispatch, TickPromotes, TickRecovers, EndDispatch,
              LoopReturns, Start, SInv, RestInv, WorkInv
<1>4. CASE LoopCallFails
  <2>1. faults' \in 0..MaxFaults
    BY <1>4, FaultCounts DEF LoopCallFails, SInv, RestInv
  <2> QED BY <1>4, <2>1 DEF LoopCallFails, SInv, RestInv, WorkInv
<1>2. CASE Close
  <2>1. ASSUME NEW t \in Tokens PROVE Placed(work'[t])
    <3>1. work'[t] \in {work[t], [work[t] EXCEPT !.cancelled = TRUE]}
      BY <1>2 DEF Close
    <3> QED BY <3>1, CancelledPlaced DEF SInv, WorkInv
  <2>2. work' = [t \in Tokens |-> work'[t]]
    BY <1>2 DEF Close
  <2>3. WorkInv'
    <3>1. \A t \in Tokens : work'[t] \in Work
      BY <2>1 DEF Placed
    <3> QED BY <2>1, <2>2, <3>1 DEF WorkInv
  <2>4. faults' \in 0..MaxFaults
    BY <1>2, FaultCounts DEF Close, SInv, RestInv
  <2>5. RestInv'
    BY <1>2, <2>4 DEF Close, SInv, RestInv
  <2> QED BY <2>3, <2>5 DEF SInv
<1>3. CASE Closed \/ Crash
  <2>1. ProcessEnds
    BY <1>3 DEF Closed, Crash
  <2>2. WorkInv'
    BY <2>1, NoWorkPlaced DEF ProcessEnds, WorkInv, Placed
  <2>3. faults' \in 0..MaxFaults
    BY <1>3, FaultCounts DEF Closed, Crash, SInv, RestInv
  <2>4. RestInv'
    BY <2>1, <2>3 DEF ProcessEnds, RestInv
  <2> QED BY <2>2, <2>4 DEF SInv
<1> QED BY <1>1, <1>2, <1>3, <1>4

\* Every step keeps SInv.
LEMMA NextSInv ==
    ASSUME QInv, SInv, [SchedNext]_vars
    PROVE  SInv'
<1>1. ASSUME UNCHANGED schedVars PROVE SInv'
  BY <1>1 DEF schedVars, SInv, RestInv, WorkInv
<1>2. ASSUME NEW t \in Tokens, KeepaliveRenews(t) \/ WorkerSaves(t) PROVE SInv'
  BY <1>1, <1>2 DEF KeepaliveRenews, WorkerSaves
<1>3. CASE TimePasses \/ UNCHANGED vars
  BY <1>1, <1>3 DEF TimePasses, vars, schedVars
<1> QED BY <1>2, <1>3, UserKeepsSInv, NotifyKeepsSInv, AsyncKeepsSInv,
           DispatchKeepsSInv, GoroutineKeepsSInv, KeepaliveKeepsSInv,
           ProcessKeepsSInv DEF SchedNext

\* A scheduler that was never started is in order.
LEMMA InitSInv == SchedInit => SInv
<1> SUFFICES ASSUME SchedInit PROVE SInv
  OBVIOUS
<1>1. WorkInv
  BY NoWorkPlaced DEF SchedInit, WorkInv, Placed
<1>2. 0 \in 0..MaxFaults
  BY SchedulerAssumption DEF SchedulerAssumption
<1>3. RestInv
  BY <1>2 DEF SchedInit, RestInv
<1> QED BY <1>1, <1>3 DEF SInv

-----------------------------------------------------------------------------
(* Theorems *)

\* The invariant of the queue and that of the goroutines hold together.
THEOREM SchedulerInvariant == SchedSpec => [](QInv /\ SInv)
<1>1. SchedInit => QInv /\ SInv
  BY InitQInv, InitSInv DEF SchedInit
<1>2. QInv /\ SInv /\ [SchedNext]_vars => (QInv /\ SInv)'
  BY StepMaps, NextQInv, NextSInv
<1> QED BY <1>1, <1>2, PTL DEF SchedSpec

\* Whatever the goroutines of dispatch, the keepalives, the interrupt calls, a
\* stop, a crash or a restart do to the jobs table is an operation of
\* QueueService, by the holder of the lease where it takes one.
THEOREM SchedulerImplementsQueue == SchedSpec => ImplementsQueue
<1>1. SchedInit => QueueInit
  BY DEF SchedInit
<1>2. SInv /\ [SchedNext]_vars => [QueueNext]_queueVars
  BY StepMaps
<1> QED BY <1>1, <1>2, SchedulerInvariant, PTL
        DEF SchedSpec, ImplementsQueue, QueueSpec

\* Every variable of the scheduler and of the queue stays in its type.
THEOREM SchedulerTypes == SchedSpec => []SchedTypeOK
<1>1. QInv /\ SInv => SchedTypeOK
  BY DEF QInv, SInv, WorkInv, RestInv, SchedTypeOK
<1> QED BY <1>1, SchedulerInvariant, PTL

-----------------------------------------------------------------------------
(* No control of a registered job is lost.  Unheard looks at Run only, and at *)
(* any call for the job.  The inductive form also covers the goroutine that   *)
(* is about to refuse an older control, and asks for a call that fits the     *)
(* intent in the table: a refusal of another intent changes nothing.  A        *)
(* refusal that was not stored is remembered until the same control comes     *)
(* again.                                                                     *)

\* A goroutine is registered, holds its lease, and is in Run, or on its way
\* there past another control, while a control is unanswered.
Waits(t) ==
    /\ work[t].pc \in {"interrupting", "rejecting", "run"}
    /\ running[work[t].job] = t
    /\ HoldsLease(work[t].job, t)
    /\ job[work[t].job].intr # NoIntent
    /\ work[t].pc # "run" => job[work[t].job].intr # work[t].intent

\* It is being stopped, a call with that very control is on its way, or the
\* refusal of that very control was lost in a storage error.
Heard(t) ==
    \/ work[t].cancelled
    \/ \E c \in calls : /\ c.job = work[t].job
                        /\ c.action \in {"local", job[work[t].job].intr}
    \/ \E a \in asyncs : /\ a.token = t
                         /\ a.job = work[t].job
                         /\ a.action = job[work[t].job].intr
    \/ [job |-> work[t].job, action |-> job[work[t].job].intr] \in work[t].lost

HInv == \A t \in Tokens : Waits(t) => Heard(t)

\* The lease of t on j is not new, its row has nothing new to go back to, and the
\* intent is the old one or is gone.
RowKeeps(j, t) ==
    (job'[j].status = "running" /\ job'[j].lease = t /\ job'[j].left > 0)
        => /\ HoldsLease(j, t)
           /\ Restores(job'[j]) => Restores(job[j])
           /\ job'[j].intr \in {job[j].intr, NoIntent}

\* A row that stays as it is.
LEMMA SameRowKeeps ==
    ASSUME NEW j, NEW t, job'[j] = job[j]
    PROVE  RowKeeps(j, t)
BY DEF RowKeeps, HoldsLease

\* A row that is not running afterwards.
LEMMA StoppedRowKeeps ==
    ASSUME NEW j, NEW t, job'[j].status # "running"
    PROVE  RowKeeps(j, t)
BY DEF RowKeeps, HoldsLease

\* Writing one row leaves the others alone.
LEMMA OtherRowKeeps ==
    ASSUME QInv, NEW j \in Jobs, NEW k \in Jobs, NEW t, NEW w,
           Write(k, w), j # k
    PROVE  RowKeeps(j, t)
<1>1. job'[j] = job[j]
  BY DEF QInv, TypeOK, Write
<1> QED BY <1>1, SameRowKeeps

\* The row that is written.
LEMMA WrittenRow ==
    ASSUME QInv, NEW j \in Jobs, NEW w, Write(j, w)
    PROVE  job'[j] = w
BY DEF QInv, TypeOK, Write

\* What users do apart from pause, cancel and retirement.
LEMMA QuietRowKeeps ==
    ASSUME QInv, NEW j \in Jobs, NEW k \in Jobs, NEW t \in Tokens,
           \/ Enqueue(k) \/ Coalesce(k) \/ Resume(k) \/ Retry(k)
           \/ CancelPipeline(k) \/ FinishSeeding(k) \/ Respond(k)
    PROVE  RowKeeps(j, t)
<1>1. job[j] \in Row /\ job[k] \in Row
  BY RowOfTable
<1>2. CASE CancelPipeline(k)
  <2>1. job'[j] \in {CancelPipelineRow(job[j]), job[j]}
    BY <1>2 DEF CancelPipeline
  <2>2. CancelPipelineRow(job[j]).status = "cancelled"
    BY <1>1 DEF Row, CancelPipelineRow, CloseAttempt, ReleaseLease
  <2> QED BY <2>1, <2>2, SameRowKeeps, StoppedRowKeeps
<1>3. CASE Coalesce(k)
  <2>1. Write(k, CoalesceRow(job[k]))
    BY <1>3 DEF Coalesce
  <2>2. CASE j = k
    <3>1. job'[j] = CoalesceRow(job[j])
      BY <2>1, <2>2, WrittenRow
    <3>2. /\ job'[j].status = job[j].status /\ job'[j].lease = job[j].lease
          /\ job'[j].left = job[j].left /\ job'[j].intr = job[j].intr
          /\ job'[j].origin = job[j].origin
      BY <1>1, <3>1 DEF Row, CoalesceRow
    <3> QED BY <3>2 DEF RowKeeps, HoldsLease, Restores
  <2> QED BY <2>1, <2>2, OtherRowKeeps
<1>4. CASE Enqueue(k) \/ Resume(k) \/ Retry(k) \/ FinishSeeding(k) \/ Respond(k)
  <2>1. PICK w : Write(k, w) /\ w.status # "running"
    <3>1. CASE Enqueue(k)
      <4>1. PICK p : Write(k, NewRow(p))
        BY <3>1 DEF Enqueue
      <4>2. NewRow(p).status = "queued"
        BY DEF NewRow, AbsentRow
      <4> QED BY <4>1, <4>2
    <3>2. ResumeRow(job[k]).status = "queued" /\ RetryRow(job[k]).status = "queued"
      BY <1>1 DEF Row, ResumeRow, RetryRow
    <3>3. /\ FinishSeedingRow(job[k]).status = "completed"
          /\ RespondRow(job[k]).status = "queued"
      BY <1>1 DEF Row, FinishSeedingRow, RespondRow
    <3> QED BY <1>4, <3>1, <3>2, <3>3
            DEF Resume, Retry, ControlWith, FinishSeeding, Respond
  <2>2. j = k => job'[j] = w
    BY <2>1, WrittenRow
  <2> QED BY <2>1, <2>2, OtherRowKeeps, StoppedRowKeeps
<1> QED BY <1>2, <1>3, <1>4

\* What the holder of a lease does.
LEMMA HolderRowKeeps ==
    ASSUME QInv, NEW j \in Jobs, NEW k \in Jobs, NEW t \in Tokens,
           NEW u \in Tokens, HolderStep(k, u)
    PROVE  RowKeeps(j, t)
<1> DEFINE r == job[k]
<1>1. r \in Row
  BY RowOfTable
<1>2. /\ r.status = "running" /\ r.left > 0 /\ r.lease = u
  BY DEF HolderStep, Renew, SaveCheckpoint, Wait, AcknowledgeInterrupt,
         RejectInterrupt, Complete, Fail, RetryLater, Leased, HoldsLease
<1>3. \E w : /\ Write(k, w)
             /\ \/ w.status # "running"
                \/ /\ w.lease = r.lease /\ w.intr \in {r.intr, NoIntent}
                   /\ Restores(w) => Restores(r)
  <2>1. CompleteRow(r).status # "running" /\ FailRow(r).status # "running"
    BY <1>1 DEF Row, CompleteRow, FailRow, CloseAttempt, ReleaseLease
  <2>2. \A code, d : RetryLaterRow(k, r, code, d).status # "running"
    BY <1>1 DEF Row, RetryLaterRow, CloseAttempt, ReleaseLease
  <2>3. r.intr # NoIntent => AcknowledgeRow(r).status # "running"
    BY <1>1 DEF Row, AcknowledgeRow, CloseAttempt, ReleaseLease, Intents
  <2>4. CASE Renew(k, u)
    <3> DEFINE w == [r EXCEPT !.left = PolicyOf(k).leaseTicks]
    <3>1. w.lease = r.lease /\ w.intr = r.intr /\ (Restores(w) => Restores(r))
      BY <1>1 DEF Row, Restores
    <3> QED BY <2>4, <3>1 DEF Renew, Leased
  <2>5. CASE SaveCheckpoint(k, u)
    <3> DEFINE w == [r EXCEPT !.origin = ""]
    <3>1. w.lease = r.lease /\ w.intr = r.intr /\ ~Restores(w)
      BY <1>1 DEF Row, Restores
    <3> QED BY <2>5, <3>1 DEF SaveCheckpoint, Leased
  <2>6. CASE Wait(k, u)
    <3>1. WaitRow(r).status # "running"
      BY <1>1 DEF Row, WaitRow, CloseAttempt, ReleaseLease
    <3> QED BY <2>6, <3>1 DEF Wait, Leased
  <2>7. CASE AcknowledgeInterrupt(k, u)
    BY <2>3, <2>7, IntentIsNotEmpty DEF AcknowledgeInterrupt, Leased
  <2>8. CASE \E intent \in Intents : RejectInterrupt(k, u, intent)
    <3>1. \/ Write(k, RejectRow(r))
          \/ Write(k, r)
      BY <2>8 DEF RejectInterrupt, Leased
    <3>2. \/ RejectRow(r).status # "running"
          \/ /\ RejectRow(r).lease = r.lease /\ RejectRow(r).intr = NoIntent
             /\ ~Restores(RejectRow(r))
      <4>1. CASE r.origin \in {"paused", "failed"}
        BY <1>1, <4>1 DEF Row, RejectRow, CloseAttempt, ReleaseLease
      <4>2. CASE r.origin \notin {"paused", "failed"}
        BY <1>1, <4>2 DEF Row, RejectRow, Restores
      <4> QED BY <4>1, <4>2
    <3> QED BY <3>1, <3>2
  <2>9. CASE \/ Complete(k, u)
             \/ Fail(k, u)
             \/ \E code \in {"", "failure", "credentials_required"},
                   d \in 0..MaxDelay : RetryLater(k, u, code, d)
    BY <2>1, <2>2, <2>3, <2>9 DEF Complete, Fail, RetryLater, Leased, FinishRow
  <2> QED BY <2>4, <2>5, <2>6, <2>7, <2>8, <2>9 DEF HolderStep
<1>4. PICK w : /\ Write(k, w)
               /\ \/ w.status # "running"
                  \/ /\ w.lease = r.lease /\ w.intr \in {r.intr, NoIntent}
                     /\ Restores(w) => Restores(r)
  BY <1>3
<1>5. CASE j # k
  BY <1>4, <1>5, OtherRowKeeps
<1>6. CASE j = k
  <2>1. job'[j] = w
    BY <1>4, <1>6, WrittenRow
  <2> QED BY <1>2, <1>4, <1>6, <2>1 DEF RowKeeps, HoldsLease
<1> QED BY <1>5, <1>6

\* What the loop and the clock do.
LEMMA LoopRowKeeps ==
    ASSUME QInv, NEW j \in Jobs, NEW t \in Tokens,
           PromoteDueRetries \/ RecoverExpiredLeases \/ Tick
    PROVE  RowKeeps(j, t)
<1> DEFINE r == job[j]
<1>1. r \in Row
  BY RowOfTable
<1>2. CASE PromoteDueRetries
  <2>1. job'[j] \in {[r EXCEPT !.status = "queued", !.next = NoTime], r}
    BY <1>2 DEF PromoteDueRetries
  <2>2. [r EXCEPT !.status = "queued", !.next = NoTime].status = "queued"
    BY <1>1 DEF Row
  <2> QED BY <2>1, <2>2, SameRowKeeps, StoppedRowKeeps
<1>3. CASE RecoverExpiredLeases
  <2> DEFINE v == IF Expired(r) THEN RecoverRow(j, r) ELSE r
  <2>1. job'[j] = IF FalseTerminal(j, v) THEN ReopenRow(v) ELSE v
    BY <1>3 DEF RecoverExpiredLeases, Recovered
  <2>2. CASE FalseTerminal(j, v)
    <3>1. v \in Row
      <4>1. RowInv(j, r) /\ r.intr \in {NoIntent} \cup Intents
        BY RowOfTable
      <4>2. CASE Expired(r) /\ r.intr \in Intents
        BY <1>1, <4>1, <4>2, RecoverIntentKept DEF Kept, Expired
      <4>3. CASE Expired(r) /\ r.intr \notin Intents
        BY <1>1, <4>1, <4>3, RecoverLostKept DEF Kept, Expired
      <4>4. CASE ~Expired(r)
        BY <1>1, <4>4
      <4> QED BY <4>2, <4>3, <4>4
    <3>2. ReopenRow(v).status = "queued"
      BY <3>1 DEF Row, ReopenRow, ReleaseLease
    <3> QED BY <2>1, <2>2, <3>2, StoppedRowKeeps
  <2>3. CASE ~FalseTerminal(j, v) /\ Expired(r)
    <3>1. RecoverRow(j, r).status # "running"
      BY <1>1 DEF Row, RecoverRow, CloseAttempt, ReleaseLease
    <3> QED BY <2>1, <2>3, <3>1, StoppedRowKeeps
  <2>4. CASE ~FalseTerminal(j, v) /\ ~Expired(r)
    BY <2>1, <2>4, SameRowKeeps
  <2> QED BY <2>2, <2>3, <2>4
<1>4. CASE Tick
  <2>1. job'[j] = [r EXCEPT !.left = Sooner(r.left), !.next = Sooner(r.next)]
    BY <1>4 DEF Tick
  <2>2. /\ job'[j].status = r.status /\ job'[j].lease = r.lease
        /\ job'[j].intr = r.intr /\ job'[j].left = Sooner(r.left)
        /\ job'[j].origin = r.origin
    BY <1>1, <2>1 DEF Row
  <2>3. r.left \in Nat
    BY <1>1 DEF Row
  <2>4. Sooner(r.left) > 0 => r.left > 0
    BY <2>3 DEF Sooner
  <2> QED BY <2>2, <2>4 DEF RowKeeps, HoldsLease, Restores
<1> QED BY <1>2, <1>3, <1>4

\* A goroutine goes on being heard while it stays where it is, nothing that was
\* on its way to it is taken away, and its row keeps its intent.
LEMMA Undisturbed ==
    ASSUME HInv, NEW t \in Tokens,
           work'[t].pc = work[t].pc, work'[t].job = work[t].job,
           work'[t].intent = work[t].intent,
           work[t].cancelled => work'[t].cancelled, work'[t].lost = work[t].lost,
           running'[work[t].job] = t => running[work[t].job] = t,
           calls \subseteq calls', asyncs \subseteq asyncs',
           work[t].pc # "none" => RowKeeps(work[t].job, t)
    PROVE  (Waits(t) => Heard(t))'
<1> SUFFICES ASSUME Waits(t)' PROVE Heard(t)'
  OBVIOUS
<1> DEFINE j == work[t].job
<1>1. /\ RowKeeps(j, t)
      /\ job'[j].status = "running" /\ job'[j].lease = t /\ job'[j].left > 0
      /\ job'[j].intr # NoIntent
  BY DEF Waits, HoldsLease
<1>2. HoldsLease(j, t) /\ job'[j].intr = job[j].intr
  BY <1>1 DEF RowKeeps
<1>3. Waits(t)
  BY <1>2 DEF Waits
<1>4. Heard(t)
  BY <1>3 DEF HInv
<1> QED BY <1>2, <1>4 DEF Heard

\* A goroutine that is not at one of those steps waits for nothing.
LEMMA Elsewhere ==
    ASSUME NEW t \in Tokens,
           work'[t].pc \notin {"interrupting", "rejecting", "run"}
    PROVE  (Waits(t) => Heard(t))'
BY DEF Waits

\* A goroutine that is being stopped is heard.
LEMMA Stopped ==
    ASSUME NEW t \in Tokens, work'[t].cancelled
    PROVE  (Waits(t) => Heard(t))'
BY DEF Heard

\* What becomes of one goroutine leaves the others as they are.
LEMMA BecomesOther ==
    ASSUME WorkInv, NEW t \in Tokens, NEW u \in Tokens, NEW w, Becomes(u, w)
    PROVE  (t # u => work'[t] = work[t]) /\ (t = u => work'[t] = w)
BY DEF WorkInv, Becomes

\* A goroutine is where it was, whatever it was told.
SameSpot(t) ==
    /\ work'[t].pc = work[t].pc
    /\ work'[t].job = work[t].job
    /\ work'[t].intent = work[t].intent
    /\ work'[t].release = work[t].release
    /\ work[t].cancelled => work'[t].cancelled

\* Scheduler.interrupt cancels a context, or takes back what it wrote down as lost,
\* and writes no row.
LEMMA NotifyMoves ==
    ASSUME SInv, NEW c \in calls, NEW t \in Tokens, Notify(c)
    PROVE  /\ SameSpot(t)
           /\ work[t].lost \ {c} \subseteq work'[t].lost
           /\ job' = job
<1> DEFINE u == running[c.job]
<1>1. /\ u \in Tokens \cup {NoToken} /\ WorkInv /\ work[t] \in Work
      /\ job' = job
  BY DEF SInv, RestInv, WorkInv, Notify, queueVars
<1>2. CASE UNCHANGED work
  BY <1>1, <1>2 DEF SameSpot
<1>3. CASE Becomes(u, [work[u] EXCEPT !.cancelled = TRUE]) /\ u # NoToken
  <2>1. work'[t] \in {work[t], [work[t] EXCEPT !.cancelled = TRUE]}
    BY <1>1, <1>3, BecomesOther
  <2> QED BY <1>1, <2>1 DEF SameSpot, Work
<1>4. CASE Becomes(u, [work[u] EXCEPT !.lost = @ \ {c}]) /\ u # NoToken
  <2>1. work'[t] \in {work[t], [work[t] EXCEPT !.lost = work[t].lost \ {c}]}
    BY <1>1, <1>4, BecomesOther
  <2> QED BY <1>1, <2>1 DEF SameSpot, Work
<1> QED BY <1>2, <1>3, <1>4 DEF Notify

\* A refusal that is lost is written down, and no row is written.
LEMMA LostMoves ==
    ASSUME SInv, NEW b \in asyncs, NEW t \in Tokens, AsyncRefusalLost(b)
    PROVE  /\ SameSpot(t)
           /\ work[t].lost \subseteq work'[t].lost
           /\ (t = b.token /\ work[t].pc # "none")
                 => [job |-> b.job, action |-> b.action] \in work'[t].lost
           /\ job' = job
<1> DEFINE L == work[t].lost \cup {[job |-> b.job, action |-> b.action]}
<1>1. /\ b.token \in Tokens /\ WorkInv /\ work[t] \in Work
      /\ job' = job
  BY DEF SInv, RestInv, WorkInv, AsyncRefusalLost, queueVars
<1>2. CASE t = b.token /\ work[t].pc # "none"
  <2>1. work'[t] = [work[t] EXCEPT !.lost = L]
    BY <1>1, <1>2, BecomesOther DEF AsyncRefusalLost, Alive
  <2> QED BY <1>1, <2>1 DEF SameSpot, Work
<1>3. CASE ~(t = b.token /\ work[t].pc # "none")
  <2>1. work'[t] = work[t]
    BY <1>1, <1>3, BecomesOther DEF AsyncRefusalLost, Alive
  <2> QED BY <1>1, <1>3, <2>1 DEF SameSpot
<1> QED BY <1>2, <1>3

\* Users.
LEMMA UserKeepsHInv ==
    ASSUME QInv, SInv, HInv, NEW k \in Jobs, NEW t \in Tokens,
           UserControl(k) \/ UserCancelPipeline(k) \/ UserQuiet(k)
    PROVE  (Waits(t) => Heard(t))'
<1> DEFINE j == work[t].job
<1>1. /\ UNCHANGED <<work, running, asyncs, loop, stopping, faults>>
      /\ calls \subseteq calls'
  BY DEF UserControl, UserCancelPipeline, UserQuiet, schedVars, Call
<1>2. work[t].pc # "none" => j \in Jobs
  BY DEF SInv, WorkInv, Placed
<1>3. CASE UserCancelPipeline(k) \/ UserQuiet(k)
  <2>1. work[t].pc # "none" => RowKeeps(j, t)
    BY <1>2, <1>3, QuietRowKeeps DEF UserCancelPipeline, UserQuiet
  <2> QED BY <1>1, <2>1, Undisturbed
<1>4. CASE UserControl(k)
  <2>1. PICK w : Write(k, w)
    BY <1>4 DEF UserControl, Pause, Cancel, Retire, ControlWith
  <2>2. CASE j # k
    <3>1. work[t].pc # "none" => RowKeeps(j, t)
      BY <1>2, <2>1, <2>2, OtherRowKeeps
    <3> QED BY <1>1, <3>1, Undisturbed
  <2>3. CASE j = k /\ job[k].status = "running"
    <3>1. job[k] \in Row
      BY RowOfTable
    <3>2. PICK action : /\ Call(k, action)
                        /\ action \in {"local", job'[k].intr}
      <4>1. CASE Pause(k) /\ Call(k, "paused")
        <5>1. Write(k, IntendRow(job[k], "paused"))
          BY <2>3, <4>1 DEF Pause, ControlWith, PauseRow
        <5>2. job'[k].intr = "paused"
          BY <3>1, <5>1, WrittenRow DEF IntendRow, Row
        <5> QED BY <4>1, <5>2
      <4>2. CASE Cancel(k) /\ Call(k, "cancelled")
        <5>1. Write(k, IntendRow(job[k], "cancelled"))
          BY <2>3, <4>2 DEF Cancel, ControlWith, CancelRow
        <5>2. job'[k].intr = "cancelled"
          BY <3>1, <5>1, WrittenRow DEF IntendRow, Row
        <5> QED BY <4>2, <5>2
      <4>3. CASE Retire(k) /\ Call(k, "local")
        BY <4>3
      <4> QED BY <1>4, <4>1, <4>2, <4>3 DEF UserControl
    <3>3. [job |-> k, action |-> action] \in calls'
      BY <2>3, <3>2 DEF Call
    <3> QED BY <1>1, <2>3, <3>2, <3>3 DEF Heard
  <2>4. CASE j = k /\ job[k].status # "running"
    <3>1. job[k] \in Row
      BY RowOfTable
    <3>2. \/ Write(k, PauseRow(k, job[k]))
          \/ Write(k, CancelRow(k, job[k]))
          \/ Write(k, RetireRow(job[k]))
      BY <1>4 DEF UserControl, Pause, Cancel, Retire, ControlWith
    <3>3. PauseRow(k, job[k]).status # "running"
      BY <2>4, <3>1 DEF Row, PauseRow, ProviderIntendRow, ReleaseLease
    <3>4. CancelRow(k, job[k]).status # "running"
      BY <2>4, <3>1 DEF Row, CancelRow, ProviderIntendRow, ReleaseLease
    <3>5. RetireRow(job[k]).status # "running"
      BY <2>4, <3>1 DEF Row, RetireRow
    <3>6. job'[k].status # "running"
      BY <3>2, <3>3, <3>4, <3>5, WrittenRow
    <3>7. RowKeeps(j, t)
      BY <2>4, <3>6, StoppedRowKeeps
    <3> QED BY <1>1, <3>7, Undisturbed
  <2> QED BY <2>2, <2>3, <2>4
<1> QED BY <1>3, <1>4

\* Scheduler.interrupt reaches the registered goroutine.
LEMMA NotifyKeepsHInv ==
    ASSUME QInv, SInv, HInv, NEW c \in calls, NEW t \in Tokens, Notify(c)
    PROVE  (Waits(t) => Heard(t))'
<1> DEFINE j == work[t].job
           u == running[c.job]
<1>1. /\ UNCHANGED queueVars /\ UNCHANGED running /\ calls' = calls \ {c}
      /\ job' = job
  BY DEF Notify, queueVars
<1>2. c.job \in Jobs /\ u \in Tokens \cup {NoToken} /\ WorkInv
  BY DEF SInv, RestInv
<1>3. asyncs \subseteq asyncs'
  BY DEF Notify
<1>4. /\ work'[t].pc = work[t].pc /\ work'[t].job = j
      /\ work'[t].intent = work[t].intent
      /\ work[t].cancelled => work'[t].cancelled
      /\ work[t].lost \ {c} \subseteq work'[t].lost
  BY NotifyMoves DEF SameSpot
<1> SUFFICES ASSUME Waits(t)' PROVE Heard(t)'
  OBVIOUS
<1>5. Waits(t)
  BY <1>1, <1>4 DEF Waits, HoldsLease
<1>6. Heard(t)
  BY <1>5 DEF HInv
<1>7. CASE c.job = j /\ c.action \in {"local", job[j].intr}
  <2>1. u = t /\ t # NoToken
    BY <1>5, <1>7, TokenAssumption DEF Waits, TokenAssumption
  <2>2. CASE Becomes(u, [work[u] EXCEPT !.cancelled = TRUE])
    <3>1. work'[t] = [work[t] EXCEPT !.cancelled = TRUE]
      BY <1>2, <2>1, <2>2, BecomesOther
    <3>2. work'[t].cancelled
      BY <3>1 DEF SInv, WorkInv, Work
    <3> QED BY <3>2 DEF Heard
  <2>3. CASE /\ ~StopsAtOnce(c)
             /\ asyncs' = asyncs \cup
                   {[token |-> u, job |-> c.job, action |-> c.action]}
    <3>1. c.action = job[j].intr
      BY <1>7, <2>3 DEF StopsAtOnce
    <3> DEFINE a == [token |-> t, job |-> j, action |-> job[j].intr]
    <3>2. a \in asyncs' /\ a.token = t /\ a.job = j /\ a.action = job[j].intr
      BY <1>7, <2>1, <2>3, <3>1
    <3> QED BY <1>1, <1>4, <3>2 DEF Heard
  <2> QED BY <2>1, <2>2, <2>3 DEF Notify
<1>8. CASE ~(c.job = j /\ c.action \in {"local", job[j].intr})
  BY <1>1, <1>3, <1>4, <1>6, <1>8 DEF Heard
<1> QED BY <1>7, <1>8

\* The answer of a provider.
LEMMA AsyncKeepsHInv ==
    ASSUME QInv, SInv, HInv, NEW b \in asyncs, NEW t \in Tokens,
           AsyncSucceeds(b) \/ AsyncFails(b) \/ AsyncRefusalLost(b)
    PROVE  (Waits(t) => Heard(t))'
<1> DEFINE j == work[t].job
<1>1. /\ b.token \in Tokens /\ b.job \in Jobs /\ b.action \in Intents
      /\ WorkInv
  BY DEF SInv, RestInv
<1>2. UNCHANGED <<running, calls>> /\ asyncs' = asyncs \ {b}
  BY DEF AsyncSucceeds, AsyncFails, AsyncRefusalLost
<1>3. CASE AsyncSucceeds(b)
  <2>0. job' = job
    BY <1>3 DEF AsyncSucceeds, queueVars
  <2>1. CASE work[t].pc = "none"
    <3>1. t # b.token \/ UNCHANGED work
      BY <1>3, <2>1 DEF AsyncSucceeds, Alive
    <3>2. work'[t] = work[t]
      BY <1>1, <1>3, <3>1, BecomesOther DEF AsyncSucceeds
    <3> QED BY <2>1, <3>2, Elsewhere
  <2>2. CASE work[t].pc # "none" /\ t = b.token
    <3>1. work'[t] = [work[t] EXCEPT !.cancelled = TRUE]
      BY <1>1, <1>3, <2>2, BecomesOther DEF AsyncSucceeds, Alive
    <3>2. work'[t].cancelled
      BY <3>1 DEF SInv, WorkInv, Work
    <3> QED BY <3>2, Stopped
  <2>3. CASE t # b.token
    <3>1. work'[t] = work[t]
      BY <1>1, <1>3, <2>3, BecomesOther DEF AsyncSucceeds
    <3> SUFFICES ASSUME Waits(t)' PROVE Heard(t)'
      OBVIOUS
    <3>2. Waits(t)
      BY <1>2, <2>0, <3>1 DEF Waits, HoldsLease
    <3> QED BY <1>2, <2>0, <2>3, <3>1, <3>2 DEF HInv, Heard
  <2> QED BY <2>1, <2>2, <2>3
<1>4. CASE AsyncFails(b)
  <2>1. work' = work
    BY <1>4 DEF AsyncFails
  <2> SUFFICES ASSUME Waits(t)' PROVE Heard(t)'
    OBVIOUS
  <2>2. j \in Jobs
    BY <2>1 DEF SInv, WorkInv, Placed, Waits
  <2>3. RowKeeps(j, t)
    <3>1. CASE RejectInterrupt(b.job, b.token, b.action)
      <4>1. HolderStep(b.job, b.token)
        BY <1>1, <3>1 DEF HolderStep
      <4> QED BY <1>1, <2>2, <4>1, HolderRowKeeps
    <3>2. CASE UNCHANGED queueVars
      BY <3>2, SameRowKeeps DEF queueVars
    <3> QED BY <1>4, <3>1, <3>2 DEF AsyncFails
  <2>4. HoldsLease(j, t) /\ job'[j].intr = job[j].intr
    BY <2>1, <2>3 DEF RowKeeps, Waits, HoldsLease
  <2>5. Waits(t)
    BY <1>2, <2>1, <2>4 DEF Waits
  <2>6. ~(b.token = t /\ b.job = j /\ b.action = job[j].intr)
    <3> SUFFICES ASSUME b.token = t, b.job = j, b.action = job[j].intr
                 PROVE  FALSE
      OBVIOUS
    <3>1. Write(j, RejectRow(job[j]))
      BY <1>4, <2>4 DEF AsyncFails, RejectInterrupt, Leased
    <3>2. job[j] \in Row
      BY <2>2, RowOfTable
    <3>3. RejectRow(job[j]).intr = NoIntent
      BY <3>2 DEF Row, RejectRow, CloseAttempt, ReleaseLease
    <3>4. job'[j].intr = NoIntent
      BY <2>2, <3>1, <3>3, WrittenRow
    <3> QED BY <2>4, <2>5, <3>4 DEF Waits
  <2> QED BY <1>2, <2>1, <2>4, <2>5, <2>6 DEF HInv, Heard
<1>5. CASE AsyncRefusalLost(b)
  <2> SUFFICES ASSUME Waits(t)' PROVE Heard(t)'
    OBVIOUS
  <2>1. /\ SameSpot(t) /\ work[t].lost \subseteq work'[t].lost /\ job' = job
        /\ (t = b.token /\ work[t].pc # "none")
              => [job |-> b.job, action |-> b.action] \in work'[t].lost
    BY <1>5, LostMoves
  <2>2. Waits(t)
    BY <1>2, <2>1 DEF Waits, HoldsLease, SameSpot
  <2>3. Heard(t)
    BY <2>2 DEF HInv
  <2>4. CASE b.token = t /\ b.job = j /\ b.action = job[j].intr
    BY <2>1, <2>2, <2>4 DEF Heard, SameSpot, Waits
  <2>5. CASE ~(b.token = t /\ b.job = j /\ b.action = job[j].intr)
    BY <1>2, <2>1, <2>3, <2>5 DEF Heard, SameSpot
  <2> QED BY <2>4, <2>5
<1> QED BY <1>3, <1>4, <1>5

\* A claim starts a goroutine of its own.
LEMMA DispatchKeepsHInv ==
    ASSUME QInv, SInv, HInv, NEW k \in Jobs, NEW u \in Tokens, NEW t \in Tokens,
           Dispatch(k, u)
    PROVE  (Waits(t) => Heard(t))'
<1> DEFINE j == work[t].job
           w == [NoWork EXCEPT !.pc = "claimed", !.job = k, !.cancelled = stopping]
<1>1. /\ Becomes(u, w) /\ UNCHANGED <<running, calls, asyncs>> /\ WorkInv
      /\ Write(k, ClaimRow(k, job[k], u))
  BY DEF Dispatch, Claim, SInv
<1>2. CASE t = u
  <2>1. work'[t] = w
    BY <1>1, <1>2, BecomesOther
  <2>2. work'[t].pc = "claimed"
    BY <2>1 DEF NoWork
  <2> QED BY <2>2, Elsewhere
<1>3. CASE t # u
  <2>1. work'[t] = work[t]
    BY <1>1, <1>3, BecomesOther
  <2>2. ASSUME work[t].pc # "none" PROVE RowKeeps(j, t)
    <3>1. j \in Jobs
      BY <2>2 DEF SInv, WorkInv, Placed
    <3>2. CASE j # k
      BY <1>1, <3>1, <3>2, OtherRowKeeps
    <3>3. CASE j = k
      <4>1. job[k] \in Row
        BY RowOfTable
      <4>2. job'[j].lease = u
        BY <1>1, <3>3, <4>1, WrittenRow, ZenonT(40) DEF ClaimRow, Row
      <4> QED BY <1>3, <4>2 DEF RowKeeps
    <3> QED BY <3>2, <3>3
  <2> QED BY <1>1, <2>1, <2>2, Undisturbed
<1> QED BY <1>2, <1>3

\* A goroutine writes the jobs table by operations of its own lease only.
LEMMA GoroutineWrites ==
    ASSUME SInv, NEW u \in Tokens,
           \/ GoroutineStep(u) \/ RunReturns(u) \/ KeepaliveFails(u)
           \/ KeepaliveRenews(u) \/ WorkerSaves(u)
    PROVE  job' = job \/ (work[u].job \in Jobs /\ HolderStep(work[u].job, u))
<1>1. Placed(work[u])
  BY DEF SInv, WorkInv
<1>2. CASE \/ Register(u) \/ Refresh(u) \/ InterruptSucceeds(u)
           \/ InterruptFails(u) \/ Abandon(u) \/ Exit(u) \/ RunReturns(u)
           \/ KeepaliveFails(u)
  <2>1. job' = job
    BY <1>2 DEF Register, Refresh, InterruptSucceeds, InterruptFails, Abandon, Exit,
                RunReturns, KeepaliveFails, queueVars
  <2> QED BY <2>1
<1>3. CASE Reject(u)
  BY <1>1, <1>3 DEF Reject, HolderStep, At, Placed
<1>4. CASE Ack(u)
  BY <1>1, <1>4 DEF Ack, HolderStep, At, Placed
<1>5. CASE Finish(u)
  BY <1>1, <1>5 DEF Finish, HolderStep, At, Placed
<1>6. CASE KeepaliveRenews(u) \/ WorkerSaves(u)
  BY <1>1, <1>6 DEF KeepaliveRenews, WorkerSaves, HolderStep, At, Placed
<1> QED BY <1>2, <1>3, <1>4, <1>5, <1>6 DEF GoroutineStep

\* What goroutine u does, seen by another one.
LEMMA OthersKeepHInv ==
    ASSUME QInv, SInv, HInv, NEW u \in Tokens, NEW t \in Tokens, t # u,
           \/ GoroutineStep(u) \/ RunReturns(u) \/ KeepaliveFails(u)
           \/ KeepaliveRenews(u) \/ WorkerSaves(u)
    PROVE  (Waits(t) => Heard(t))'
<1> DEFINE j == work[t].job
<1>1. WorkInv /\ running \in [Jobs -> Tokens \cup {NoToken}]
  BY DEF SInv, RestInv
<1>2. /\ (UNCHANGED work \/ \E w : Becomes(u, w))
      /\ UNCHANGED <<calls, asyncs>>
  BY DEF GoroutineStep, RunReturns, KeepaliveFails, KeepaliveRenews, WorkerSaves,
         Register, Refresh, InterruptSucceeds, InterruptFails, Reject, Ack,
         Finish, Abandon, Exit, Goto, schedVars
<1>3. work'[t] = work[t]
  BY <1>1, <1>2, BecomesOther
<1>4. running' = running \/ \E x \in {u, NoToken} :
                               running' = [running EXCEPT ![work[u].job] = x]
  BY DEF GoroutineStep, RunReturns, KeepaliveFails, KeepaliveRenews, WorkerSaves,
         Register, Refresh, InterruptSucceeds, InterruptFails, Reject, Ack,
         Finish, Abandon, Exit, schedVars
<1>5. ASSUME work[t].pc # "none" PROVE RowKeeps(j, t)
  <2>1. j \in Jobs
    BY <1>5 DEF SInv, WorkInv, Placed
  <2>2. job' = job \/ (work[u].job \in Jobs /\ HolderStep(work[u].job, u))
    BY GoroutineWrites
  <2> QED BY <2>1, <2>2, SameRowKeeps, HolderRowKeeps
<1>6. CASE work[t].pc = "none"
  BY <1>3, <1>6, Elsewhere
<1>7. CASE work[t].pc # "none"
  <2>1. j \in Jobs
    BY <1>7 DEF SInv, WorkInv, Placed
  <2>2. running'[j] = t => running[j] = t
    BY <1>1, <1>4, <2>1, TokenAssumption DEF TokenAssumption
  <2> QED BY <1>2, <1>3, <1>5, <1>7, <2>2, Undisturbed
<1> QED BY <1>6, <1>7

\* What a goroutine does, seen by itself.
LEMMA SelfKeepsHInv ==
    ASSUME QInv, SInv, HInv, NEW t \in Tokens,
           \/ GoroutineStep(t) \/ RunReturns(t) \/ KeepaliveFails(t)
           \/ KeepaliveRenews(t) \/ WorkerSaves(t)
    PROVE  (Waits(t) => Heard(t))'
<1> DEFINE w == work[t]
           j == w.job
<1>1. WorkInv /\ Placed(w) /\ w \in Work
  BY DEF SInv, WorkInv
<1>2. ASSUME NEW v, Becomes(t, v) PROVE work'[t] = v
  BY <1>1, <1>2, BecomesOther
<1>3. CASE \/ Register(t) \/ InterruptSucceeds(t) \/ Abandon(t) \/ Exit(t)
           \/ Ack(t) \/ Finish(t) \/ RunReturns(t)
  <2>1. CASE Exit(t)
    <3>1. work'[t] = NoWork
      BY <1>2, <2>1 DEF Exit
    <3> QED BY <3>1, Elsewhere DEF NoWork
  <2>2. CASE Abandon(t) \/ Ack(t) \/ Finish(t)
    <3>1. work'[t] = [w EXCEPT !.pc = "exiting"]
      BY <1>2, <2>2 DEF Abandon, Ack, Finish, Goto
    <3> QED BY <1>1, <3>1, Elsewhere DEF Work
  <2>3. CASE Register(t)
    <3>1. work'[t] = [w EXCEPT !.pc = "started", !.keep = "on"]
      BY <1>2, <2>3 DEF Register
    <3> QED BY <1>1, <3>1, Elsewhere DEF Work
  <2>4. CASE InterruptSucceeds(t) \/ RunReturns(t)
    <3> DEFINE pc == IF w.keep = "failed" THEN "exiting" ELSE "acking"
               qc == IF w.keep = "failed" THEN "exiting"
                     ELSE IF w.cancelled THEN "acking" ELSE "finishing"
    <3>1. \/ work'[t] = [w EXCEPT !.pc = pc, !.keep = "off"]
          \/ work'[t] = [w EXCEPT !.pc = qc, !.keep = "off"]
      BY <1>2, <2>4 DEF InterruptSucceeds, RunReturns
    <3>2. pc \in {"exiting", "acking"} /\ qc \in {"exiting", "acking", "finishing"}
      OBVIOUS
    <3> HIDE DEF pc, qc
    <3>3. work'[t].pc \in {"exiting", "acking", "finishing"}
      BY <1>1, <3>1, <3>2 DEF Work
    <3> QED BY <3>3, Elsewhere
  <2> QED BY <1>3, <2>1, <2>2, <2>3, <2>4
<1>4. CASE Refresh(t)
  <2> DEFINE r == job[j]
  <2>1. work'[t] = AfterRefresh(w, r) /\ job' = job
    BY <1>2, <1>4 DEF Refresh, queueVars
  <2>2. CASE r.intr = NoIntent
    <3>1. work'[t].job = j
      BY <1>1, <2>1, <2>2 DEF AfterRefresh, Work
    <3> QED BY <2>1, <2>2, <3>1 DEF Waits
  <2>3. CASE r.intr # NoIntent
    <3>1. /\ work'[t].job = j
          /\ \/ work'[t].pc \notin {"interrupting", "rejecting", "run"}
             \/ work'[t].pc # "run" /\ work'[t].intent = r.intr
      BY <1>1, <2>1, <2>3 DEF AfterRefresh, Work
    <3> QED BY <2>1, <3>1 DEF Waits
  <2> QED BY <2>2, <2>3
<1>5. CASE InterruptFails(t)
  <2>1. PICK pc, keep : /\ Becomes(t, [w EXCEPT !.pc = pc, !.keep = keep])
                        /\ pc \in {"exiting", "rejecting"}
    BY <1>5 DEF InterruptFails
  <2>2. /\ work'[t].pc = pc /\ work'[t].job = j /\ work'[t].intent = w.intent
        /\ work'[t].lost = w.lost
        /\ (work'[t].cancelled <=> w.cancelled) /\ w.pc = "interrupting"
    BY <1>1, <1>2, <1>5, <2>1 DEF InterruptFails, At, Work
  <2>3. UNCHANGED <<running, calls, asyncs>> /\ job' = job
    BY <1>5 DEF InterruptFails, queueVars
  <2> SUFFICES ASSUME Waits(t)' PROVE Heard(t)'
    OBVIOUS
  <2>4. Waits(t)
    BY <2>1, <2>2, <2>3 DEF Waits, HoldsLease
  <2> QED BY <2>2, <2>3, <2>4 DEF HInv, Heard
<1>6. CASE Reject(t)
  <2>1. PICK pc : Becomes(t, [w EXCEPT !.pc = pc])
    BY <1>6 DEF Reject, Goto
  <2>2. /\ work'[t].pc = pc /\ work'[t].job = j /\ work'[t].lost = w.lost
        /\ (work'[t].cancelled <=> w.cancelled) /\ w.pc = "rejecting"
    BY <1>1, <1>2, <1>6, <2>1 DEF Reject, At, Work
  <2>3. UNCHANGED <<running, calls, asyncs>> /\ j \in Jobs
    BY <1>1, <1>6 DEF Reject, At, Placed
  <2> SUFFICES ASSUME Waits(t)' PROVE Heard(t)'
    OBVIOUS
  <2>4. job[j] \in Row
    BY <2>3, RowOfTable
  <2>5. job[j].intr # w.intent
    <3> SUFFICES ASSUME job[j].intr = w.intent PROVE FALSE
      OBVIOUS
    <3>1. Write(j, RejectRow(job[j]))
      BY <1>6 DEF Reject, RejectInterrupt, Leased
    <3>2. RejectRow(job[j]).intr = NoIntent
      BY <2>4 DEF Row, RejectRow, CloseAttempt, ReleaseLease
    <3>3. job'[j].intr = NoIntent
      BY <2>3, <3>1, <3>2, WrittenRow
    <3> QED BY <2>2, <3>3 DEF Waits
  <2>6. job'[j] = job[j]
    BY <1>6, <2>3, <2>5, WrittenRow DEF Reject, RejectInterrupt, Leased
  <2>7. Waits(t)
    BY <2>2, <2>3, <2>5, <2>6 DEF Waits, HoldsLease
  <2> QED BY <2>2, <2>3, <2>6, <2>7 DEF HInv, Heard
<1>7. CASE KeepaliveFails(t)
  <2>1. work'[t] = [w EXCEPT !.keep = "failed", !.cancelled = TRUE]
    BY <1>2, <1>7 DEF KeepaliveFails
  <2>2. work'[t].cancelled
    BY <1>1, <2>1 DEF Work
  <2> QED BY <2>2, Stopped
<1>8. CASE KeepaliveRenews(t) \/ WorkerSaves(t)
  <2>1. j \in Jobs /\ HolderStep(j, t) /\ UNCHANGED schedVars
    BY <1>1, <1>8 DEF KeepaliveRenews, WorkerSaves, HolderStep, At, Placed
  <2>2. RowKeeps(j, t)
    BY <2>1, HolderRowKeeps
  <2> QED BY <2>1, <2>2, Undisturbed DEF schedVars
<1> QED BY <1>3, <1>4, <1>5, <1>6, <1>7, <1>8 DEF GoroutineStep

\* The loop, the clock, stops, crashes and starts.
LEMMA ProcessKeepsHInv ==
    ASSUME QInv, SInv, HInv, NEW t \in Tokens,
           \/ BeginDispatch \/ TickPromotes \/ TickRecovers \/ EndDispatch
           \/ LoopCallFails \/ Close \/ LoopReturns \/ Closed \/ Crash \/ Start
           \/ TimePasses \/ UNCHANGED vars
    PROVE  (Waits(t) => Heard(t))'
<1> DEFINE j == work[t].job
<1>1. CASE \/ BeginDispatch \/ TickPromotes \/ TickRecovers \/ EndDispatch
           \/ LoopCallFails \/ LoopReturns \/ Start \/ TimePasses
           \/ UNCHANGED vars
  <2>1. UNCHANGED <<work, running, calls, asyncs>>
    BY <1>1 DEF BeginDispatch, TickPromotes, TickRecovers, EndDispatch,
                LoopCallFails, LoopReturns, Start, TimePasses, vars, schedVars
  <2>2. ASSUME work[t].pc # "none" PROVE RowKeeps(j, t)
    <3>1. j \in Jobs
      BY <2>2 DEF SInv, WorkInv, Placed
    <3>2. \/ job' = job
          \/ PromoteDueRetries \/ RecoverExpiredLeases \/ Tick
      BY <1>1 DEF BeginDispatch, TickPromotes, TickRecovers, EndDispatch,
                  LoopCallFails, LoopReturns, Start, TimePasses, vars, queueVars
    <3> QED BY <3>1, <3>2, SameRowKeeps, LoopRowKeeps
  <2> QED BY <2>1, <2>2, Undisturbed
<1>2. CASE Close
  <2>1. CASE work[t].pc = "none"
    <3>1. work'[t] = work[t]
      BY <1>2, <2>1 DEF Close, Alive
    <3> QED BY <2>1, <3>1, Elsewhere
  <2>2. CASE work[t].pc # "none"
    <3>1. work'[t] = [work[t] EXCEPT !.cancelled = TRUE]
      BY <1>2, <2>2 DEF Close, Alive
    <3>2. work'[t].cancelled
      BY <3>1 DEF SInv, WorkInv, Work
    <3> QED BY <3>2, Stopped
  <2> QED BY <2>1, <2>2
<1>3. CASE Closed \/ Crash
  <2>1. work'[t] = NoWork
    BY <1>3 DEF Closed, Crash, ProcessEnds
  <2> QED BY <2>1, Elsewhere DEF NoWork
<1> QED BY <1>1, <1>2, <1>3

\* Every step keeps HInv.
LEMMA NextHInv ==
    ASSUME QInv, SInv, HInv, [SchedNext]_vars
    PROVE  HInv'
<1> SUFFICES ASSUME NEW t \in Tokens PROVE (Waits(t) => Heard(t))'
  BY DEF HInv
<1>1. ASSUME NEW u \in Tokens,
             \/ GoroutineStep(u) \/ RunReturns(u) \/ KeepaliveFails(u)
             \/ KeepaliveRenews(u) \/ WorkerSaves(u)
      PROVE  (Waits(t) => Heard(t))'
  <2>1. CASE t = u
    BY <1>1, <2>1, SelfKeepsHInv
  <2>2. CASE t # u
    BY <1>1, <2>2, OthersKeepHInv
  <2> QED BY <2>1, <2>2
<1> QED BY <1>1, UserKeepsHInv, NotifyKeepsHInv, AsyncKeepsHInv,
           DispatchKeepsHInv, ProcessKeepsHInv DEF SchedNext

\* A control of a job whose worker is registered never goes unheard: whatever
\* happens between Claim, registration, the refresh of the intent, the calls of
\* interrupt and their answers, a worker in Run is being stopped or a call that
\* stops it or refuses the control is on its way. The one exception is a refusal of
\* this very control that met a storage error, which interrupt discards.
THEOREM RegisteredAlwaysHears == SchedSpec => []RegisteredHearsControl
<1>1. SchedInit => HInv
  BY DEF SchedInit, NoWork, HInv, Waits
<1>2. QInv /\ SInv /\ HInv /\ [SchedNext]_vars => HInv'
  BY NextHInv
<1>3. HInv => RegisteredHearsControl
  <2> SUFFICES ASSUME HInv, NEW t \in Tokens, Alive(t),
                      running[work[t].job] = t, Unheard(t)
               PROVE  FALSE
    BY DEF RegisteredHearsControl
  <2>1. Waits(t)
    BY DEF Unheard, Waits, At, Holds
  <2>2. Heard(t)
    BY <2>1 DEF HInv
  <2> QED BY <2>2 DEF Heard, Unheard
<1> QED BY <1>1, <1>2, <1>3, SchedulerInvariant, PTL DEF SchedSpec

-----------------------------------------------------------------------------
(* A worker in Run keeps its lease.  A refused control takes the lease with it  *)
(* when the job goes back to where it was before the control, and a refusal may *)
(* come from a goroutine of interrupt while Run is at work.  So the row of a    *)
(* job in Run must have nothing to go back to: Refresh sees to it.              *)

\* The goroutine is in Run, or is on its way there past a control it refuses.
RunAhead(t) ==
    \/ work[t].pc = "run"
    \/ work[t].pc \in {"interrupting", "rejecting"} /\ ~work[t].release

\* Then its row remembers no status that a refusal would restore.
StaysPut(t) == (RunAhead(t) /\ HoldsLease(work[t].job, t)) => ~Restores(job[work[t].job])

RInv == \A t \in Tokens : StaysPut(t)

\* The lease of t on j is not new and its row has nothing new to go back to.
OriginKeeps(j, t) ==
    (job'[j].status = "running" /\ job'[j].lease = t /\ job'[j].left > 0)
        => HoldsLease(j, t) /\ (Restores(job'[j]) => Restores(job[j]))

\* The lease of t on j stays, but for the cancellation of a pipeline.
LeaseStays(j, t) ==
    HoldsLease(j, t) =>
        \/ job'[j].status = "running" /\ job'[j].lease = t
        \/ (\E d \in Downloads : InPipeline(d, j)) /\ job'[j].status = "cancelled"

\* A row that stays as it is keeps its lease.
LEMMA SameLease ==
    ASSUME NEW j, NEW t, job'[j] = job[j]
    PROVE  LeaseStays(j, t)
BY DEF LeaseStays, HoldsLease

\* Writing another row keeps the lease.
LEMMA OtherLease ==
    ASSUME QInv, NEW j \in Jobs, NEW k \in Jobs, NEW t, NEW w, Write(k, w), j # k
    PROVE  LeaseStays(j, t)
<1>1. job'[j] = job[j]
  BY DEF QInv, TypeOK, Write
<1> QED BY <1>1, SameLease

\* A control of a running job only marks its row.
LEMMA ControlKeeps ==
    ASSUME QInv, NEW j \in Jobs, NEW k \in Jobs, NEW t \in Tokens,
           Pause(k) \/ Cancel(k) \/ Retire(k)
    PROVE  OriginKeeps(j, t) /\ LeaseStays(j, t)
<1> DEFINE r == job[k]
<1>1. r \in Row
  BY RowOfTable
<1>2. PICK w : /\ Write(k, w)
               /\ w \in {PauseRow(k, r), CancelRow(k, r), RetireRow(r)}
  BY DEF Pause, Cancel, Retire, ControlWith
<1>3. CASE j # k
  BY <1>2, <1>3, OtherRowKeeps, OtherLease DEF OriginKeeps, RowKeeps
<1>4. CASE j = k
  <2>1. job'[j] = w
    BY <1>2, <1>4, WrittenRow
  <2>2. CASE r.status = "running"
    <3>1. w \in {IntendRow(r, "paused"), IntendRow(r, "cancelled")}
      BY <1>2, <2>2 DEF PauseRow, CancelRow, RetireRow
    <3>2. /\ w.status = r.status /\ w.lease = r.lease /\ w.left = r.left
          /\ w.origin = r.origin
      BY <1>1, <3>1 DEF Row, IntendRow
    <3> QED BY <1>4, <2>1, <3>2 DEF OriginKeeps, LeaseStays, HoldsLease, Restores
  <2>3. CASE r.status # "running"
    <3>1. w.status # "running"
      <4>1. PauseRow(k, r).status # "running"
        BY <1>1, <2>3 DEF Row, PauseRow, ProviderIntendRow, ReleaseLease
      <4>2. CancelRow(k, r).status # "running"
        BY <1>1, <2>3 DEF Row, CancelRow, ProviderIntendRow, ReleaseLease
      <4>3. RetireRow(r).status # "running"
        BY <1>1, <2>3 DEF Row, RetireRow
      <4> QED BY <1>2, <4>1, <4>2, <4>3
    <3> QED BY <1>4, <2>1, <2>3, <3>1 DEF OriginKeeps, LeaseStays, HoldsLease
  <2> QED BY <2>2, <2>3
<1> QED BY <1>3, <1>4

\* What users do apart from controls does not concern a running job, but for the
\* cancellation of its pipeline.
LEMMA QuietLease ==
    ASSUME QInv, NEW j \in Jobs, NEW k \in Jobs, NEW t \in Tokens,
           \/ Enqueue(k) \/ Coalesce(k) \/ Resume(k) \/ Retry(k)
           \/ CancelPipeline(k) \/ FinishSeeding(k) \/ Respond(k)
    PROVE  LeaseStays(j, t)
<1>1. job[j] \in Row /\ job[k] \in Row
  BY RowOfTable
<1>2. CASE CancelPipeline(k)
  <2>1. CASE InPipeline(k, j)
    <3>1. k \in Downloads /\ job'[j] = CancelPipelineRow(job[j])
      BY <1>2, <2>1 DEF CancelPipeline
    <3>2. job'[j].status = "cancelled"
      BY <1>1, <3>1 DEF Row, CancelPipelineRow, CloseAttempt, ReleaseLease
    <3> QED BY <2>1, <3>1, <3>2 DEF LeaseStays
  <2>2. CASE ~InPipeline(k, j)
    BY <1>2, <2>2, SameLease DEF CancelPipeline
  <2> QED BY <2>1, <2>2
<1>3. CASE Coalesce(k)
  <2>1. Write(k, CoalesceRow(job[k]))
    BY <1>3 DEF Coalesce
  <2>2. CASE j = k
    <3>1. job'[j] = CoalesceRow(job[j])
      BY <2>1, <2>2, WrittenRow
    <3>2. job'[j].status = job[j].status /\ job'[j].lease = job[j].lease
      BY <1>1, <3>1 DEF Row, CoalesceRow
    <3> QED BY <3>2 DEF LeaseStays, HoldsLease
  <2> QED BY <2>1, <2>2, OtherLease
<1>4. CASE Enqueue(k) \/ Resume(k) \/ Retry(k) \/ FinishSeeding(k) \/ Respond(k)
  <2>1. job[k].status # "running" /\ \E w : Write(k, w)
    BY <1>4 DEF Enqueue, Exists, Resume, Retry, ControlWith, FinishSeeding, Respond
  <2> QED BY <2>1, OtherLease DEF LeaseStays, HoldsLease
<1> QED BY <1>2, <1>3, <1>4

\* The loop and the clock leave a live lease to its holder.
LEMMA LoopLease ==
    ASSUME QInv, NEW j \in Jobs, NEW t \in Tokens,
           PromoteDueRetries \/ RecoverExpiredLeases \/ Tick
    PROVE  LeaseStays(j, t)
<1> SUFFICES ASSUME HoldsLease(j, t)
             PROVE  job'[j].status = "running" /\ job'[j].lease = t
  BY DEF LeaseStays
<1> DEFINE r == job[j]
<1>1. r \in Row /\ r.status = "running" /\ r.lease = t /\ r.left > 0 /\ r.left \in Nat
  BY RowOfTable DEF HoldsLease, Row
<1>2. ~Due(r) /\ ~Expired(r) /\ ~FalseTerminal(j, r)
  BY <1>1 DEF Due, Expired, FalseTerminal
<1>3. CASE PromoteDueRetries
  BY <1>1, <1>2, <1>3 DEF PromoteDueRetries
<1>4. CASE RecoverExpiredLeases
  BY <1>1, <1>2, <1>4 DEF RecoverExpiredLeases, Recovered
<1>5. CASE Tick
  <2>1. job'[j] = [r EXCEPT !.left = Sooner(r.left), !.next = Sooner(r.next)]
    BY <1>5 DEF Tick
  <2> QED BY <1>1, <2>1 DEF Row
<1> QED BY <1>3, <1>4, <1>5

\* The holder of one lease takes no other, and a claim takes none.
LEMMA OtherHolderLease ==
    ASSUME QInv, NEW j \in Jobs, NEW k \in Jobs, NEW t \in Tokens, NEW u \in Tokens,
           HolderStep(k, u) \/ Claim(k, u), t # u
    PROVE  LeaseStays(j, t)
<1>1. \E w : Write(k, w)
  BY DEF Claim, HolderStep, Renew, SaveCheckpoint, Wait, AcknowledgeInterrupt,
         RejectInterrupt, Complete, Fail, RetryLater, Leased
<1>2. job[k].lease = u \/ job[k].status = "queued"
  BY DEF Claim, Claimable, HolderStep, Renew, SaveCheckpoint, Wait,
         AcknowledgeInterrupt, RejectInterrupt, Complete, Fail, RetryLater,
         Leased, HoldsLease
<1> QED BY <1>1, <1>2, OtherLease DEF LeaseStays, HoldsLease

\* Renewing, saving, and refusing a control where there is nothing to go back to
\* keep the own lease.
LEMMA OwnLease ==
    ASSUME QInv, NEW j \in Jobs, NEW k \in Jobs, NEW t \in Tokens,
           \/ Renew(k, t) \/ SaveCheckpoint(k, t)
           \/ ~Restores(job[k]) /\ \E i \in Intents : RejectInterrupt(k, t, i)
    PROVE  LeaseStays(j, t)
<1> DEFINE r == job[k]
<1>1. r \in Row
  BY RowOfTable
<1>2. \E w : Write(k, w) /\ w.status = r.status /\ w.lease = r.lease
  <2>1. CASE Renew(k, t)
    <3> DEFINE w == [r EXCEPT !.left = PolicyOf(k).leaseTicks]
    <3>1. w.status = r.status /\ w.lease = r.lease
      BY <1>1 DEF Row
    <3> QED BY <2>1, <3>1 DEF Renew, Leased
  <2>2. CASE SaveCheckpoint(k, t)
    <3> DEFINE w == [r EXCEPT !.origin = ""]
    <3>1. w.status = r.status /\ w.lease = r.lease
      BY <1>1 DEF Row
    <3> QED BY <2>2, <3>1 DEF SaveCheckpoint, Leased
  <2>3. CASE ~Restores(r) /\ \E i \in Intents : RejectInterrupt(k, t, i)
    <3>1. Write(k, RejectRow(r)) \/ Write(k, r)
      BY <2>3 DEF RejectInterrupt, Leased
    <3>2. RejectRow(r).status = r.status /\ RejectRow(r).lease = r.lease
      BY <1>1, <2>3 DEF Row, RejectRow, Restores
    <3> QED BY <3>1, <3>2
  <2> QED BY <2>1, <2>2, <2>3
<1>3. PICK w : Write(k, w) /\ w.status = r.status /\ w.lease = r.lease
  BY <1>2
<1>4. j = k => job'[j] = w
  BY <1>3, WrittenRow
<1> QED BY <1>3, <1>4, OtherLease DEF LeaseStays, HoldsLease

\* A goroutine that stays where it is stays put while its row has nothing new to
\* go back to.
LEMMA PutUndisturbed ==
    ASSUME RInv, NEW t \in Tokens,
           work'[t].pc = work[t].pc, work'[t].job = work[t].job,
           work'[t].release = work[t].release,
           work[t].pc # "none" => OriginKeeps(work[t].job, t)
    PROVE  StaysPut(t)'
<1> SUFFICES ASSUME RunAhead(t)', HoldsLease(work[t].job, t)',
                    Restores(job[work[t].job])'
             PROVE  FALSE
  BY DEF StaysPut, HoldsLease, Restores
<1>1. RunAhead(t) /\ work[t].pc # "none"
  BY DEF RunAhead
<1>2. HoldsLease(work[t].job, t) /\ Restores(job[work[t].job])
  BY <1>1 DEF OriginKeeps, HoldsLease, Restores
<1> QED BY <1>1, <1>2 DEF RInv, StaysPut

\* A goroutine that is elsewhere stays put.
LEMMA PutElsewhere ==
    ASSUME NEW t \in Tokens, work'[t].pc \notin {"interrupting", "rejecting", "run"}
    PROVE  StaysPut(t)'
BY DEF StaysPut, RunAhead

\* What a goroutine does keeps it put: Refresh lets it pass only if its row has
\* nothing to go back to.
LEMMA SelfStaysPut ==
    ASSUME QInv, SInv, RInv, NEW t \in Tokens,
           \/ GoroutineStep(t) \/ RunReturns(t) \/ KeepaliveFails(t)
           \/ KeepaliveRenews(t) \/ WorkerSaves(t)
    PROVE  StaysPut(t)'
<1> DEFINE w == work[t]
           j == w.job
<1>1. WorkInv /\ Placed(w) /\ w \in Work
  BY DEF SInv, WorkInv
<1>2. ASSUME NEW v, Becomes(t, v) PROVE work'[t] = v
  BY <1>1, <1>2, BecomesOther
<1>3. CASE Exit(t)
  <2>1. work'[t] = NoWork
    BY <1>2, <1>3 DEF Exit
  <2> QED BY <2>1, PutElsewhere DEF NoWork
<1>4. CASE Abandon(t) \/ Ack(t) \/ Finish(t)
  <2>1. work'[t] = [w EXCEPT !.pc = "exiting"]
    BY <1>2, <1>4 DEF Abandon, Ack, Finish, Goto
  <2> QED BY <1>1, <2>1, PutElsewhere DEF Work
<1>5. CASE Register(t)
  <2>1. work'[t] = [w EXCEPT !.pc = "started", !.keep = "on"]
    BY <1>2, <1>5 DEF Register
  <2> QED BY <1>1, <2>1, PutElsewhere DEF Work
<1>6. CASE InterruptSucceeds(t) \/ RunReturns(t)
  <2>1. PICK pc : /\ work'[t] = [w EXCEPT !.pc = pc, !.keep = "off"]
                  /\ pc \in {"exiting", "acking", "finishing"}
    BY <1>2, <1>6 DEF InterruptSucceeds, RunReturns
  <2> QED BY <1>1, <2>1, PutElsewhere DEF Work
<1>7. CASE Refresh(t)
  <2> DEFINE r == job[j]
  <2>1. /\ work'[t] = AfterRefresh(w, r) /\ job' = job
        /\ j \in Jobs /\ r.status = "running"
    BY <1>1, <1>2, <1>7 DEF Refresh, queueVars, Holds, HoldsLease, At, Placed
  <2>2. CASE r.intr = NoIntent
    <3>1. r.origin = ""
      <4>1. RowInv(j, r)
        BY <2>1, RowOfTable
      <4> QED BY <2>1, <2>2, <4>1 DEF RowInv, IntentRow
    <3>2. ~Restores(r)
      BY <3>1 DEF Restores
    <3>3. work'[t].job = j
      BY <1>1, <2>1, <2>2 DEF AfterRefresh, Work
    <3> QED BY <2>1, <3>2, <3>3 DEF StaysPut, Restores
  <2>3. CASE r.intr # NoIntent
    <3>1. /\ work'[t].job = j
          /\ \/ work'[t].pc \notin {"interrupting", "rejecting", "run"}
             \/ work'[t].pc # "run" /\ work'[t].release = Restores(r)
      <4> DEFINE rel == Restores(r)
      <4>1. CASE j \in Interruptible
        <5>1. work'[t] = [w EXCEPT !.pc = "interrupting", !.intent = r.intr,
                                   !.release = rel]
          BY <2>1, <2>3, <4>1 DEF AfterRefresh
        <5> HIDE DEF rel
        <5>2. work'[t].pc = "interrupting" /\ work'[t].job = j /\ work'[t].release = rel
          BY <1>1, <5>1 DEF Work
        <5> QED BY <5>2 DEF rel
      <4>2. CASE j \notin Interruptible
        <5>1. PICK pc, keep, i :
                 \/ /\ work'[t] = [w EXCEPT !.pc = pc, !.keep = keep]
                    /\ pc \in {"exiting", "acking"}
                 \/ work'[t] = [w EXCEPT !.pc = "exiting"]
                 \/ work'[t] = [w EXCEPT !.pc = "rejecting", !.intent = i,
                                         !.release = rel, !.keep = keep]
          BY <2>1, <2>3, <4>2, Zenon DEF AfterRefresh
        <5> HIDE DEF rel
        <5>2. /\ work'[t].job = j
              /\ \/ work'[t].pc \in {"exiting", "acking"}
                 \/ work'[t].pc = "rejecting" /\ work'[t].release = rel
          BY <1>1, <5>1 DEF Work
        <5> QED BY <5>2 DEF rel
      <4> QED BY <4>1, <4>2
    <3> QED BY <2>1, <3>1 DEF StaysPut, RunAhead, Restores
  <2> QED BY <2>2, <2>3
<1>8. CASE InterruptFails(t)
  <2>1. PICK pc, keep : /\ Becomes(t, [w EXCEPT !.pc = pc, !.keep = keep])
                        /\ pc \in {"exiting", "rejecting"}
    BY <1>8 DEF InterruptFails
  <2>2. /\ work'[t].pc = pc /\ work'[t].job = j
        /\ (work'[t].release <=> w.release) /\ w.pc = "interrupting"
    BY <1>1, <1>2, <1>8, <2>1 DEF InterruptFails, At, Work
  <2>3. job' = job
    BY <1>8 DEF InterruptFails, queueVars
  <2>4. RunAhead(t)' => RunAhead(t)
    BY <2>1, <2>2 DEF RunAhead
  <2> QED BY <2>2, <2>3, <2>4 DEF RInv, StaysPut, HoldsLease, Restores
<1>9. CASE Reject(t)
  <2> DEFINE pc == IF w.release THEN "exiting" ELSE "run"
  <2>1. Becomes(t, [w EXCEPT !.pc = pc])
    BY <1>9 DEF Reject, Goto
  <2>2. /\ work'[t].pc = pc /\ work'[t].job = j
        /\ w.pc = "rejecting"
    BY <1>1, <1>2, <1>9, <2>1 DEF Reject, At, Work
  <2>3. j \in Jobs /\ w.intent \in Intents
    BY <1>1, <2>2 DEF Placed
  <2>4. HolderStep(j, t)
    BY <1>9, <2>3 DEF Reject, HolderStep
  <2>5. RowKeeps(j, t)
    BY <2>3, <2>4, HolderRowKeeps
  <2>6. CASE w.release
    BY <2>2, <2>6, PutElsewhere
  <2>7. CASE ~w.release
    <3>1. RunAhead(t)
      BY <2>2, <2>7 DEF RunAhead
    <3> SUFFICES ASSUME job'[j].status = "running", job'[j].lease = t,
                        job'[j].left > 0, Restores(job'[j])
                 PROVE  FALSE
      BY <2>2 DEF StaysPut, HoldsLease, Restores
    <3>2. HoldsLease(j, t) /\ Restores(job[j])
      BY <2>5 DEF RowKeeps
    <3> QED BY <3>1, <3>2 DEF RInv, StaysPut
  <2> QED BY <2>6, <2>7
<1>10. CASE KeepaliveFails(t)
  <2>1. work'[t] = [w EXCEPT !.keep = "failed", !.cancelled = TRUE] /\ job' = job
    BY <1>2, <1>10 DEF KeepaliveFails, queueVars
  <2>2. work'[t].pc = w.pc /\ work'[t].job = j /\ work'[t].release = w.release
    BY <1>1, <2>1 DEF Work
  <2> QED BY <2>1, <2>2, PutUndisturbed, SameRowKeeps DEF OriginKeeps, RowKeeps
<1>11. CASE KeepaliveRenews(t) \/ WorkerSaves(t)
  <2>1. j \in Jobs /\ HolderStep(j, t) /\ UNCHANGED schedVars
    BY <1>1, <1>11 DEF KeepaliveRenews, WorkerSaves, HolderStep, At, Placed
  <2>2. RowKeeps(j, t)
    BY <2>1, HolderRowKeeps
  <2> QED BY <2>1, <2>2, PutUndisturbed DEF schedVars, OriginKeeps, RowKeeps
<1> QED BY <1>3, <1>4, <1>5, <1>6, <1>7, <1>8, <1>9, <1>10, <1>11 DEF GoroutineStep

\* What anybody else does keeps a goroutine put.
LEMMA OthersStayPut ==
    ASSUME QInv, SInv, RInv, NEW t \in Tokens,
           \/ \E k \in Jobs : UserControl(k) \/ UserCancelPipeline(k) \/ UserQuiet(k)
           \/ \E c \in calls : Notify(c)
           \/ \E a \in asyncs : AsyncSucceeds(a) \/ AsyncFails(a) \/ AsyncRefusalLost(a)
           \/ \E u \in Tokens \ {t} :
                 \/ GoroutineStep(u) \/ RunReturns(u) \/ KeepaliveFails(u)
                 \/ KeepaliveRenews(u) \/ WorkerSaves(u)
    PROVE  StaysPut(t)'
<1> DEFINE j == work[t].job
<1>1. WorkInv /\ work[t] \in Work /\ (work[t].pc # "none" => j \in Jobs)
  BY DEF SInv, WorkInv, Placed
<1>2. ASSUME work'[t] \in {work[t], [work[t] EXCEPT !.cancelled = TRUE]},
             work[t].pc # "none" => OriginKeeps(j, t)
      PROVE  StaysPut(t)'
  <2>1. /\ work'[t].pc = work[t].pc /\ work'[t].job = j
        /\ work'[t].release = work[t].release
    BY <1>1, <1>2 DEF Work
  <2> QED BY <1>2, <2>1, PutUndisturbed
<1>3. ASSUME NEW k \in Jobs, UserControl(k) \/ UserCancelPipeline(k) \/ UserQuiet(k)
      PROVE  StaysPut(t)'
  <2>1. work' = work
    BY <1>3 DEF UserControl, UserCancelPipeline, UserQuiet, schedVars
  <2>2. work[t].pc # "none" => OriginKeeps(j, t)
    <3>1. CASE UserControl(k)
      BY <1>1, <3>1, ControlKeeps DEF UserControl
    <3>2. CASE UserCancelPipeline(k) \/ UserQuiet(k)
      <4>1. work[t].pc # "none" => RowKeeps(j, t)
        BY <1>1, <3>2, QuietRowKeeps DEF UserCancelPipeline, UserQuiet
      <4> QED BY <4>1 DEF OriginKeeps, RowKeeps
    <3> QED BY <1>3, <3>1, <3>2
  <2> QED BY <1>2, <2>1, <2>2
<1>4. ASSUME NEW c \in calls, Notify(c) PROVE StaysPut(t)'
  BY <1>4, NotifyMoves, PutUndisturbed, SameRowKeeps DEF SameSpot, OriginKeeps, RowKeeps
<1>5. ASSUME NEW a \in asyncs, AsyncSucceeds(a) PROVE StaysPut(t)'
  <2>1. a.token \in Tokens /\ job' = job
    BY <1>5 DEF SInv, RestInv, AsyncSucceeds, queueVars
  <2>2. work'[t] \in {work[t], [work[t] EXCEPT !.cancelled = TRUE]}
    BY <1>1, <1>5, <2>1, BecomesOther DEF AsyncSucceeds
  <2> QED BY <1>2, <2>1, <2>2, SameRowKeeps DEF OriginKeeps, RowKeeps
<1>6. ASSUME NEW a \in asyncs, AsyncFails(a) PROVE StaysPut(t)'
  <2>1. a.token \in Tokens /\ a.job \in Jobs /\ a.action \in Intents /\ work' = work
    BY <1>6 DEF SInv, RestInv, AsyncFails
  <2>2. HolderStep(a.job, a.token) \/ job' = job
    BY <1>6, <2>1 DEF AsyncFails, HolderStep, queueVars
  <2>3. work[t].pc # "none" => RowKeeps(j, t)
    BY <1>1, <2>1, <2>2, HolderRowKeeps, SameRowKeeps
  <2> QED BY <1>2, <2>1, <2>3 DEF OriginKeeps, RowKeeps
<1>7. ASSUME NEW a \in asyncs, AsyncRefusalLost(a) PROVE StaysPut(t)'
  BY <1>7, LostMoves, PutUndisturbed, SameRowKeeps DEF SameSpot, OriginKeeps, RowKeeps
<1>8. ASSUME NEW u \in Tokens \ {t},
             \/ GoroutineStep(u) \/ RunReturns(u) \/ KeepaliveFails(u)
             \/ KeepaliveRenews(u) \/ WorkerSaves(u)
      PROVE  StaysPut(t)'
  <2>1. UNCHANGED work \/ \E w : Becomes(u, w)
    BY <1>8 DEF GoroutineStep, RunReturns, KeepaliveFails, KeepaliveRenews,
       WorkerSaves, Register, Refresh, InterruptSucceeds, InterruptFails, Reject,
       Ack, Finish, Abandon, Exit, Goto, schedVars
  <2>2. work'[t] = work[t]
    BY <1>1, <2>1, BecomesOther
  <2>3. job' = job \/ (work[u].job \in Jobs /\ HolderStep(work[u].job, u))
    BY <1>8, GoroutineWrites
  <2>4. work[t].pc # "none" => RowKeeps(j, t)
    BY <1>1, <2>3, HolderRowKeeps, SameRowKeeps
  <2> QED BY <1>2, <2>2, <2>4 DEF OriginKeeps, RowKeeps
<1> QED BY <1>3, <1>4, <1>5, <1>6, <1>7, <1>8

\* The loop, the clock, claims, stops, crashes and starts keep a goroutine put.
LEMMA ProcessStaysPut ==
    ASSUME QInv, SInv, RInv, NEW t \in Tokens,
           \/ \E k \in Jobs, u \in Tokens : Dispatch(k, u)
           \/ BeginDispatch \/ TickPromotes \/ TickRecovers \/ EndDispatch
           \/ LoopCallFails \/ Close \/ LoopReturns \/ Closed \/ Crash \/ Start
           \/ TimePasses \/ UNCHANGED vars
    PROVE  StaysPut(t)'
<1> DEFINE j == work[t].job
<1>1. WorkInv /\ work[t] \in Work /\ (work[t].pc # "none" => j \in Jobs)
  BY DEF SInv, WorkInv, Placed
<1>2. CASE \/ BeginDispatch \/ TickPromotes \/ TickRecovers \/ EndDispatch
           \/ LoopCallFails \/ LoopReturns \/ Start \/ TimePasses
           \/ UNCHANGED vars
  <2>1. work' = work
    BY <1>2 DEF BeginDispatch, TickPromotes, TickRecovers, EndDispatch,
                LoopCallFails, LoopReturns, Start, TimePasses, vars, schedVars
  <2>2. \/ job' = job
        \/ PromoteDueRetries \/ RecoverExpiredLeases \/ Tick
    BY <1>2 DEF BeginDispatch, TickPromotes, TickRecovers, EndDispatch,
                LoopCallFails, LoopReturns, Start, TimePasses, vars, queueVars
  <2>3. work[t].pc # "none" => RowKeeps(j, t)
    BY <1>1, <2>2, SameRowKeeps, LoopRowKeeps
  <2> QED BY <2>1, <2>3, PutUndisturbed DEF OriginKeeps, RowKeeps
<1>3. CASE Close
  <2>1. work'[t] \in {work[t], [work[t] EXCEPT !.cancelled = TRUE]} /\ job' = job
    BY <1>3 DEF Close, queueVars
  <2>2. /\ work'[t].pc = work[t].pc /\ work'[t].job = j
        /\ work'[t].release = work[t].release
    BY <1>1, <2>1 DEF Work
  <2> QED BY <2>1, <2>2, PutUndisturbed, SameRowKeeps DEF OriginKeeps, RowKeeps
<1>4. CASE Closed \/ Crash
  <2>1. work'[t] = NoWork
    BY <1>4 DEF Closed, Crash, ProcessEnds
  <2> QED BY <2>1, PutElsewhere DEF NoWork
<1>5. ASSUME NEW k \in Jobs, NEW u \in Tokens, Dispatch(k, u) PROVE StaysPut(t)'
  <2> DEFINE w == [NoWork EXCEPT !.pc = "claimed", !.job = k, !.cancelled = stopping]
  <2>1. Becomes(u, w) /\ Write(k, ClaimRow(k, job[k], u)) /\ job[k] \in Row
    BY <1>5, RowOfTable DEF Dispatch, Claim
  <2>2. CASE t = u
    <3>1. work'[t] = w
      BY <1>1, <2>1, <2>2, BecomesOther
    <3> QED BY <3>1, PutElsewhere DEF NoWork
  <2>3. CASE t # u
    <3>1. work'[t] = work[t]
      BY <1>1, <2>1, <2>3, BecomesOther
    <3>2. ASSUME work[t].pc # "none" PROVE RowKeeps(j, t)
      <4>1. CASE j # k
        BY <1>1, <2>1, <3>2, <4>1, OtherRowKeeps
      <4>2. CASE j = k
        <5>1. job'[j].lease = u
          BY <2>1, <4>2, WrittenRow, ZenonT(40) DEF ClaimRow, Row
        <5> QED BY <2>3, <5>1 DEF RowKeeps
      <4> QED BY <4>1, <4>2
    <3> QED BY <3>1, <3>2, PutUndisturbed DEF OriginKeeps, RowKeeps
  <2> QED BY <2>2, <2>3
<1> QED BY <1>2, <1>3, <1>4, <1>5

\* Every step keeps RInv.
LEMMA NextRInv ==
    ASSUME QInv, SInv, RInv, [SchedNext]_vars
    PROVE  RInv'
<1> SUFFICES ASSUME NEW t \in Tokens PROVE StaysPut(t)'
  BY DEF RInv
<1>1. ASSUME NEW u \in Tokens,
             \/ GoroutineStep(u) \/ RunReturns(u) \/ KeepaliveFails(u)
             \/ KeepaliveRenews(u) \/ WorkerSaves(u)
      PROVE  StaysPut(t)'
  <2>1. CASE t = u
    BY <1>1, <2>1, SelfStaysPut
  <2>2. CASE t # u
    BY <1>1, <2>2, OthersStayPut
  <2> QED BY <2>1, <2>2
<1> QED BY <1>1, OthersStayPut, ProcessStaysPut DEF SchedNext

\* While a goroutine is in Run nothing but the cancellation of its pipeline takes
\* its row from it.
LEMMA RunStep ==
    ASSUME QInv, SInv, RInv, [SchedNext]_vars, NEW t \in Tokens,
           At(t, "run"), Holds(t), At(t, "run")'
    PROVE  work'[t].job = work[t].job /\ LeaseStays(work[t].job, t)
<1> DEFINE j == work[t].job
<1>1. /\ WorkInv /\ work[t] \in Work /\ work[t].pc = "run" /\ j \in Jobs
      /\ HoldsLease(j, t) /\ ~Restores(job[j])
  BY DEF SInv, WorkInv, Placed, At, Holds, RInv, StaysPut, RunAhead
<1>2. ASSUME NEW k \in Jobs, UserControl(k) \/ UserCancelPipeline(k) \/ UserQuiet(k)
      PROVE  work'[t].job = j /\ LeaseStays(j, t)
  <2>1. work' = work
    BY <1>2 DEF UserControl, UserCancelPipeline, UserQuiet, schedVars
  <2>2. CASE UserControl(k)
    BY <1>1, <2>1, <2>2, ControlKeeps DEF UserControl
  <2>3. CASE UserCancelPipeline(k) \/ UserQuiet(k)
    BY <1>1, <2>1, <2>3, QuietLease DEF UserCancelPipeline, UserQuiet
  <2> QED BY <1>2, <2>2, <2>3
<1>3. ASSUME NEW c \in calls, Notify(c) PROVE work'[t].job = j /\ LeaseStays(j, t)
  BY <1>3, NotifyMoves, SameLease DEF SameSpot
<1>4. ASSUME NEW a \in asyncs, AsyncSucceeds(a) PROVE work'[t].job = j /\ LeaseStays(j, t)
  <2>1. a.token \in Tokens /\ job' = job
    BY <1>4 DEF SInv, RestInv, AsyncSucceeds, queueVars
  <2>2. work'[t] \in {work[t], [work[t] EXCEPT !.cancelled = TRUE]}
    BY <1>1, <1>4, <2>1, BecomesOther DEF AsyncSucceeds
  <2>3. work'[t].job = j
    BY <1>1, <2>2 DEF Work
  <2> QED BY <2>1, <2>3, SameLease
<1>5. ASSUME NEW a \in asyncs, AsyncFails(a) PROVE work'[t].job = j /\ LeaseStays(j, t)
  <2>1. a.token \in Tokens /\ a.job \in Jobs /\ a.action \in Intents /\ work' = work
    BY <1>5 DEF SInv, RestInv, AsyncFails
  <2>2. CASE job' = job
    BY <2>1, <2>2, SameLease
  <2>3. CASE RejectInterrupt(a.job, a.token, a.action)
    <3>1. CASE a.token # t
      <4>1. HolderStep(a.job, a.token)
        BY <2>1, <2>3 DEF HolderStep
      <4> QED BY <1>1, <2>1, <3>1, <4>1, OtherHolderLease
    <3>2. CASE a.token = t /\ a.job = j
      BY <1>1, <2>1, <2>3, <3>2, OwnLease
    <3>3. CASE a.job # j
      <4>1. \E w : Write(a.job, w)
        BY <2>3 DEF RejectInterrupt, Leased
      <4> QED BY <1>1, <2>1, <3>3, <4>1, OtherLease
    <3> QED BY <3>1, <3>2, <3>3
  <2> QED BY <1>5, <2>2, <2>3 DEF AsyncFails, queueVars
<1>6. ASSUME NEW k \in Jobs, NEW u \in Tokens, Dispatch(k, u)
      PROVE  work'[t].job = j /\ LeaseStays(j, t)
  <2>1. t # u /\ Claim(k, u) /\ \E w : Becomes(u, w)
    BY <1>1, <1>6 DEF Dispatch, Alive
  <2>2. work'[t] = work[t]
    BY <1>1, <2>1, BecomesOther
  <2> QED BY <1>1, <2>1, <2>2, OtherHolderLease
<1>7. ASSUME NEW u \in Tokens \ {t},
             \/ GoroutineStep(u) \/ RunReturns(u) \/ KeepaliveFails(u)
             \/ KeepaliveRenews(u) \/ WorkerSaves(u)
      PROVE  work'[t].job = j /\ LeaseStays(j, t)
  <2>1. UNCHANGED work \/ \E w : Becomes(u, w)
    BY <1>7 DEF GoroutineStep, RunReturns, KeepaliveFails, KeepaliveRenews,
       WorkerSaves, Register, Refresh, InterruptSucceeds, InterruptFails, Reject,
       Ack, Finish, Abandon, Exit, Goto, schedVars
  <2>2. work'[t] = work[t]
    BY <1>1, <2>1, BecomesOther
  <2>3. job' = job \/ (work[u].job \in Jobs /\ HolderStep(work[u].job, u))
    BY <1>7, GoroutineWrites
  <2> QED BY <1>1, <2>2, <2>3, SameLease, OtherHolderLease
<1>8. CASE GoroutineStep(t)
  BY <1>1, <1>8 DEF GoroutineStep, Register, Refresh, InterruptSucceeds,
     InterruptFails, Reject, Ack, Finish, Abandon, Exit, At
<1>9. CASE RunReturns(t)
  <2> DEFINE pc == IF work[t].keep = "failed" THEN "exiting"
                   ELSE IF work[t].cancelled THEN "acking" ELSE "finishing"
  <2>1. work'[t] = [work[t] EXCEPT !.pc = pc, !.keep = "off"]
    BY <1>1, <1>9, BecomesOther DEF RunReturns
  <2>2. pc # "run"
    OBVIOUS
  <2> HIDE DEF pc
  <2>3. work'[t].pc = pc
    BY <1>1, <2>1 DEF Work
  <2> QED BY <2>2, <2>3 DEF At
<1>10. CASE KeepaliveFails(t)
  <2>1. work'[t] = [work[t] EXCEPT !.keep = "failed", !.cancelled = TRUE] /\ job' = job
    BY <1>1, <1>10, BecomesOther DEF KeepaliveFails, queueVars
  <2>2. work'[t].job = j
    BY <1>1, <2>1 DEF Work
  <2> QED BY <2>1, <2>2, SameLease
<1>11. CASE KeepaliveRenews(t) \/ WorkerSaves(t)
  <2>1. work' = work /\ (Renew(j, t) \/ SaveCheckpoint(j, t))
    BY <1>11 DEF KeepaliveRenews, WorkerSaves, schedVars
  <2> QED BY <1>1, <2>1, OwnLease
<1>12. CASE \/ BeginDispatch \/ TickPromotes \/ TickRecovers \/ EndDispatch
            \/ LoopCallFails \/ LoopReturns \/ Start \/ TimePasses
            \/ UNCHANGED vars
  <2>1. work' = work
    BY <1>12 DEF BeginDispatch, TickPromotes, TickRecovers, EndDispatch,
                 LoopCallFails, LoopReturns, Start, TimePasses, vars, schedVars
  <2>2. \/ job' = job
        \/ PromoteDueRetries \/ RecoverExpiredLeases \/ Tick
    BY <1>12 DEF BeginDispatch, TickPromotes, TickRecovers, EndDispatch,
                 LoopCallFails, LoopReturns, Start, TimePasses, vars, queueVars
  <2> QED BY <1>1, <2>1, <2>2, SameLease, LoopLease
<1>13. CASE Close
  <2>1. work'[t] \in {work[t], [work[t] EXCEPT !.cancelled = TRUE]} /\ job' = job
    BY <1>13 DEF Close, queueVars
  <2>2. work'[t].job = j
    BY <1>1, <2>1 DEF Work
  <2> QED BY <2>1, <2>2, SameLease
<1>14. CASE Closed \/ Crash
  <2>1. work'[t] = NoWork
    BY <1>14 DEF Closed, Crash, ProcessEnds
  <2> QED BY <2>1 DEF At, NoWork
<1>15. ASSUME NEW a \in asyncs, AsyncRefusalLost(a)
       PROVE  work'[t].job = j /\ LeaseStays(j, t)
  BY <1>15, LostMoves, SameLease DEF SameSpot
<1> QED BY <1>2, <1>3, <1>4, <1>5, <1>6, <1>7, <1>8, <1>9, <1>10, <1>11, <1>12,
           <1>13, <1>14, <1>15 DEF SchedNext

\* A worker in Run keeps its lease until Run returns: besides time only the
\* cancellation of its pipeline takes it away, whatever controls, refusals,
\* retirements and late goroutines do.
THEOREM LeaseOfRunStays == SchedSpec => RunKeepsLease
<1>1. SchedInit => RInv
  BY DEF SchedInit, NoWork, RInv, StaysPut, RunAhead
<1>2. QInv /\ SInv /\ RInv /\ [SchedNext]_vars => RInv'
  BY NextRInv
<1>3. QInv /\ QInv' /\ SInv /\ RInv /\ [SchedNext]_vars =>
       [\A t \in Tokens :
          LET j == work[t].job
          IN  (At(t, "run") /\ Holds(t) /\ At(t, "run")') =>
                  \/ Holds(t)'
                  \/ Expired(job'[j])
                  \/ (\E d \in Downloads : InPipeline(d, j)) /\ job'[j].status = "cancelled"]_vars
  <2> SUFFICES ASSUME QInv, QInv', SInv, RInv, [SchedNext]_vars, NEW t \in Tokens,
                      At(t, "run"), Holds(t), At(t, "run")',
                      ~(/\ \E d \in Downloads : InPipeline(d, work[t].job)
                        /\ job'[work[t].job].status = "cancelled")
               PROVE  Holds(t)' \/ Expired(job'[work[t].job])
    OBVIOUS
  <2> DEFINE j == work[t].job
  <2>1. work'[t].job = j /\ LeaseStays(j, t) /\ HoldsLease(j, t) /\ j \in Jobs
    BY RunStep DEF Holds, SInv, WorkInv, Placed, Alive
  <2>2. job'[j].status = "running" /\ job'[j].lease = t
    BY <2>1 DEF LeaseStays
  <2>3. job'[j] \in Row
    BY <2>1 DEF QInv, TypeOK
  <2>4. job'[j].left \in Nat
    BY <2>3 DEF Row
  <2>5. CASE job'[j].left = 0
    BY <2>2, <2>5 DEF Expired
  <2>6. CASE job'[j].left > 0
    BY <2>1, <2>2, <2>6 DEF Holds, Alive, HoldsLease, At
  <2> QED BY <2>4, <2>5, <2>6
<1> QED BY <1>1, <1>2, <1>3, SchedulerInvariant, PTL DEF SchedSpec, RunKeepsLease

=============================================================================
