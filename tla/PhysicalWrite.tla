--------------------------- MODULE PhysicalWrite ---------------------------
(***************************************************************************)
(* The ledger of physical writes of one media library, and the retirement  *)
(* of that library. A job that is about to move, rename or delete files at *)
(* a provider records its intent (entered) before the first call and       *)
(* settles it in the transaction that stores the verified result. In       *)
(* between the process may end, the lease of the job may be lost or the    *)
(* call may fail: what happened to the files is then unknown (quiescent)   *)
(* until the same owner has looked.                                        *)
(*                                                                         *)
(* Owners are the tasks (transfers, reorganizations) and the structure     *)
(* repairs of the library, each with a job of its own. Every action is one *)
(* transaction of the code, or the return of an external call.             *)
(***************************************************************************)
EXTENDS Naturals

CONSTANTS Owners,      \* ids of the owners, in the order they are created
          Repairs,     \* the owners that are structure repairs
          MaxClaims,   \* bound of the instances on claims, all jobs together
          MaxContexts, \* bound of the instances on configuration changes
          MaxRuntimes, \* bound of the instances on processes
          MaxRevs      \* bound of the instances on the revisions an observer makes

ASSUME OwnersAssumption == Owners \subseteq Nat \ {0} /\ Repairs \subseteq Owners
ASSUME BoundsAssumption ==
    MaxClaims \in Nat /\ MaxContexts \in Nat /\ MaxRuntimes \in Nat /\ MaxRevs \in Nat

VARIABLES ledger,   \* catalog_physical_writes, by owner
          job,      \* the job of each owner: what the ledger reads of it
          phase,    \* the phase of a repair
          lib,      \* the library: source epoch, configuration, retirement
          work,     \* the goroutine of each claim and the permit it holds
          claims,   \* how many claims were made; a claim's number is its lease
          observer, \* the revision an observer of a cancelled repair holds
          proc      \* the process: its runtime id, and whether workers run

vars == <<ledger, job, phase, lib, work, claims, observer, proc>>

Tokens == 1..MaxClaims

NoRow == [state |-> "none", rev |-> 0, lease |-> 0, runtime |-> 0, epoch |-> 0, config |-> 0]

\* "queued" stands for every status that waits without a lease; "expired" is a
\* job that RecoverExpiredLeases failed, without a finished_at.
NoJob == [status |-> "none", lease |-> 0, asked |-> FALSE]

Idle == [owner |-> 0, pc |-> "off", rev |-> 0]

Init ==
    /\ ledger = [o \in Owners |-> NoRow]
    /\ job = [o \in Owners |-> NoJob]
    /\ phase = [o \in Owners |-> "queued"]
    /\ lib = [epoch |-> 1, config |-> 1, retire |-> "no"]
    /\ work = [k \in Tokens |-> Idle]
    /\ claims = 0
    /\ observer = [o \in Owners |-> 0]
    /\ proc = [runtime |-> 1, up |-> TRUE]

-----------------------------------------------------------------------------
(* What the library is ready for                                             *)

Pending(o) == ledger[o].state \in {"entered", "quiescent"}

Busy == \E o \in Owners : Pending(o)

SameContext(o) == ledger[o].epoch = lib.epoch /\ ledger[o].config = lib.config

\* readinessRepairCancelledUnenteredSQL
CancelledUnentered(o) ==
    /\ ledger[o].state \in {"admitted", "settled"}
    /\ job[o].status = "cancelled"

\* readinessRepairCurrentSQL: nothing shows that the failed repair left nothing behind.
Unaccounted(o) ==
    ~ \/ ledger[o].state = "settled"
      \/ /\ ledger[o].state = "admitted"
         /\ \/ job[o].status \in {"cancelled", "failed", "expired"}
            \/ ledger[o].epoch # lib.epoch

\* readinessRepairActiveSQL, or failed and not accounted for: either way the
\* library is being repaired.
InRepair(o) ==
    /\ o \in Repairs
    /\ ledger[o].state # "none"
    /\ \/ phase[o] \in {"queued", "executing"} /\ ~CancelledUnentered(o)
       \/ phase[o] = "failed" /\ (job[o].status \in {"queued", "running"} \/ Unaccounted(o))

Repairing == \E o \in Owners : InRepair(o)

\* currentLibraryRepairOwner: the oldest of them.
CurrentRepair(o) == InRepair(o) /\ \A p \in Owners : InRepair(p) => o <= p

\* libraryJobBlocked: whom the claim gate turns away.
Blocked(o) ==
    IF o \in Repairs THEN ~CurrentRepair(o)
                     ELSE (Repairing \/ Busy) /\ ~Pending(o)

\* terminalLeaseFreeCatalogJob
Terminal(j) == j.status \in {"completed", "failed", "cancelled"} /\ j.lease = 0 /\ ~j.asked

\* Mutant: a terminal job also settles what its owner left unknown.
FinalizedWhateverState(o, j) ==
    IF Terminal(j) /\ ledger[o].state \in {"admitted", "quiescent"} /\ o \notin Repairs
    THEN [ledger[o] EXCEPT !.state = "settled"] ELSE ledger[o]

\* finalizeTerminalNoIOCatalogJobTx: an owner that was admitted, never entered
\* and whose job j is over has done nothing; a repair keeps its admission.
Finalized(o, j) ==
    IF Terminal(j) /\ ledger[o].state = "admitted" /\ o \notin Repairs
    THEN [ledger[o] EXCEPT !.state = "settled"] ELSE ledger[o]

SetJob(o, j) ==
    /\ job' = [job EXCEPT ![o] = j]
    /\ ledger' = [ledger EXCEPT ![o] = Finalized(o, j)]

-----------------------------------------------------------------------------
(* The job of an owner                                                       *)

\* RegisterCatalogPhysicalOwnerTx, in the transaction that enqueues the job.
Register(o) ==
    /\ proc.up
    /\ lib.retire = "no"
    /\ ~Busy /\ ~Repairing
    /\ ledger[o].state = "none"
    /\ \A p \in Owners : p < o => ledger[p].state # "none"
    /\ ledger' = [ledger EXCEPT ![o] =
          [state |-> "admitted", rev |-> 1, lease |-> 0, runtime |-> proc.runtime,
           epoch |-> lib.epoch, config |-> lib.config]]
    /\ job' = [job EXCEPT ![o] = [NoJob EXCEPT !.status = "queued"]]
    /\ UNCHANGED <<phase, lib, work, claims, observer, proc>>

Claim(o) ==
    /\ proc.up
    /\ job[o].status = "queued"
    /\ ~Blocked(o)
    /\ claims < MaxClaims
    /\ claims' = claims + 1
    /\ job' = [job EXCEPT ![o].status = "running", ![o].lease = claims + 1]
    /\ work' = [work EXCEPT ![claims + 1] = [owner |-> o, pc |-> "claimed", rev |-> 0]]
    /\ UNCHANGED <<ledger, phase, lib, observer, proc>>

\* RecoverExpiredLeases: the goroutine of the lost lease may still be running.
LeaseLost(o) ==
    /\ proc.up
    /\ job[o].status = "running"
    /\ \E status \in {"queued", "expired"} :
          /\ job[o].asked => status = "queued"
          /\ job' = [job EXCEPT ![o].status = status, ![o].lease = 0]
    /\ UNCHANGED <<ledger, phase, lib, work, claims, observer, proc>>

\* Control: cancel.
Cancel(o) ==
    /\ proc.up
    /\ ~job[o].asked
    /\ \/ /\ job[o].status = "running"
          /\ SetJob(o, [job[o] EXCEPT !.asked = TRUE])
       \/ /\ job[o].status \in {"queued", "failed", "expired"}
          /\ SetJob(o, [job[o] EXCEPT !.status = "cancelled"])
    /\ UNCHANGED <<phase, lib, work, claims, observer, proc>>

\* Control: retry.
Retry(o) ==
    /\ proc.up
    /\ job[o].status \in {"failed", "expired"}
    /\ SetJob(o, [job[o] EXCEPT !.status = "queued"])
    /\ UNCHANGED <<phase, lib, work, claims, observer, proc>>

-----------------------------------------------------------------------------
(* The goroutine of claim k                                                  *)

At(k, pc) == work[k].pc = pc

Goto(k, pc) == work' = [work EXCEPT ![k].pc = pc]

HasLease(k) == job[work[k].owner].status = "running" /\ job[work[k].owner].lease = k

\* catalogCheckJob
LiveLease(k) == HasLease(k) /\ ~job[work[k].owner].asked

\* A repair writes its phase without looking at its lease.
SetPhase(k, values) ==
    IF work[k].owner \in Repairs
    THEN \E v \in values : phase' = [phase EXCEPT ![work[k].owner] = v]
    ELSE UNCHANGED phase

Begin(k) ==
    /\ At(k, "claimed")
    /\ Goto(k, "begun")
    /\ SetPhase(k, {"executing"})
    /\ UNCHANGED <<ledger, job, lib, claims, observer, proc>>

\* Mutant: a failed repair does not count.
EntryAllowedAfterFailure(o) ==
    LET open == \E p \in Repairs : InRepair(p) /\ phase[p] # "failed"
    IN  /\ open => IF o \in Repairs THEN CurrentRepair(o) ELSE ledger[o].state = "quiescent"
        /\ Busy /\ ~Repairing =>
              /\ ledger[o].state = "quiescent"
              /\ \A p \in Owners : Pending(p) => p = o

\* The readiness conditions of EnterCatalogPhysicalWriteTx. While the library is
\* being repaired nobody asks what else is pending.
EntryAllowed(o) ==
    /\ Repairing => IF o \in Repairs THEN CurrentRepair(o) ELSE ledger[o].state = "quiescent"
    /\ Busy /\ ~Repairing =>
          /\ ledger[o].state = "quiescent"
          /\ \A p \in Owners : Pending(p) => p = o

\* Mutant: a goroutine that lost its lease may still enter.
EnterWithoutLease(k) ==
    LET o == work[k].owner
    IN  /\ At(k, "begun")
        /\ lib.retire = "no"
        /\ EntryAllowed(o)
        /\ ledger[o].state # "none"
        /\ ledger' = [ledger EXCEPT ![o] =
              [state |-> "entered", rev |-> ledger[o].rev + 1, lease |-> k,
               runtime |-> proc.runtime, epoch |-> lib.epoch, config |-> lib.config]]
        /\ work' = [work EXCEPT ![k].pc = "calling", ![k].rev = ledger[o].rev + 1]
        /\ UNCHANGED <<job, phase, lib, claims, observer, proc>>

\* EnterCatalogPhysicalWriteTx. The external calls follow at once.
Enter(k) ==
    LET o == work[k].owner
    IN  /\ At(k, "begun")
        /\ lib.retire = "no"
        /\ LiveLease(k)
        /\ EntryAllowed(o)
        /\ ledger[o].state \in {"admitted", "quiescent", "settled"}
        /\ ledger[o].state # "settled" => SameContext(o)
        /\ ledger' = [ledger EXCEPT ![o] =
              [state |-> "entered", rev |-> ledger[o].rev + 1, lease |-> k,
               runtime |-> proc.runtime, epoch |-> lib.epoch, config |-> lib.config]]
        /\ work' = [work EXCEPT ![k].pc = "calling", ![k].rev = ledger[o].rev + 1]
        /\ UNCHANGED <<job, phase, lib, claims, observer, proc>>

\* The entry is refused, or the worker finds out that it cannot start.
Refused(k) ==
    /\ At(k, "claimed") \/ At(k, "begun")
    /\ Goto(k, "done")
    /\ SetPhase(k, {"failed"})
    /\ UNCHANGED <<ledger, job, lib, claims, observer, proc>>

\* The ledger still shows the entry of this permit.
PermitHolds(k) ==
    LET o == work[k].owner
    IN  /\ ledger[o].state = "entered"
        /\ ledger[o].rev = work[k].rev
        /\ ledger[o].lease = k
        /\ ledger[o].runtime = proc.runtime

\* Mutant: a settled write gets a state that nobody reads.
SettleReleases(k) ==
    /\ At(k, "calling")
    /\ PermitHolds(k)
    /\ LiveLease(k)
    /\ ledger' = [ledger EXCEPT ![work[k].owner].state = "released"]
    /\ Goto(k, "settled")
    /\ SetPhase(k, {"completed", "failed"})
    /\ UNCHANGED <<job, lib, claims, observer, proc>>

\* SettleCatalogPhysicalWriteTx, in the transaction that stores the verified
\* result; a repair may settle with some of its items failed.
Settle(k) ==
    /\ At(k, "calling")
    /\ PermitHolds(k)
    /\ LiveLease(k)
    /\ ledger' = [ledger EXCEPT ![work[k].owner].state = "settled"]
    /\ Goto(k, "settled")
    /\ SetPhase(k, {"completed", "failed"})
    /\ UNCHANGED <<job, lib, claims, observer, proc>>

\* The calls returned, and nothing was settled: an error, a lost lease, a stop.
Return(k) ==
    /\ At(k, "calling")
    /\ Goto(k, "leaving")
    /\ SetPhase(k, {"failed", "queued"})
    /\ UNCHANGED <<ledger, job, lib, claims, observer, proc>>

\* quiesceCatalogPhysicalWrite with the permit alone, the lease may be gone. A
\* cancelled repair goes on to look at the files itself.
ExitAcknowledged(k) ==
    LET o == work[k].owner
    IN  /\ At(k, "leaving")
        /\ PermitHolds(k)
        /\ ledger' = [ledger EXCEPT ![o].state = "quiescent"]
        /\ observer' = IF o \in Repairs /\ (job[o].asked \/ job[o].status = "cancelled")
                       THEN [observer EXCEPT ![o] = work[k].rev] ELSE observer
        /\ Goto(k, "done")
        /\ UNCHANGED <<job, phase, lib, claims, proc>>

\* The acknowledgement is not written within its five seconds: the entry stays
\* until another process finds it.
ExitUnacknowledged(k) ==
    /\ At(k, "leaving")
    /\ Goto(k, "done")
    /\ UNCHANGED <<ledger, job, phase, lib, claims, observer, proc>>

\* The scheduler saves the result, if the lease still is its own.
Finish(k) ==
    LET o == work[k].owner
    IN  /\ At(k, "done") \/ At(k, "settled")
        /\ work' = [work EXCEPT ![k] = Idle]
        /\ IF HasLease(k)
           THEN \E status \in {"completed", "failed", "queued", "cancelled"} :
                  /\ status = "cancelled" <=> job[o].asked
                  /\ status = "completed" => At(k, "settled")
                  /\ status = "queued" => At(k, "done")
                  /\ SetJob(o, [status |-> status, lease |-> 0, asked |-> FALSE])
           ELSE UNCHANGED <<job, ledger>>
        /\ UNCHANGED <<phase, lib, claims, observer, proc>>

-----------------------------------------------------------------------------
(* The process                                                               *)

\* The process ends, whatever its goroutines were doing, and is started again.
Restart ==
    /\ proc.runtime < MaxRuntimes
    /\ proc' = [runtime |-> proc.runtime + 1, up |-> FALSE]
    /\ work' = [k \in Tokens |-> Idle]
    /\ observer' = [o \in Owners |-> 0]
    /\ UNCHANGED <<ledger, job, phase, lib, claims>>

Orphaned(o) == ledger[o].state = "entered" /\ ledger[o].runtime # proc.runtime

\* RecoverCatalogPhysicalRuntimeBatch, before any worker runs.
RecoverRuntime(o) ==
    /\ ~proc.up
    /\ Orphaned(o)
    /\ ledger' = [ledger EXCEPT ![o].state = "quiescent"]
    /\ UNCHANGED <<job, phase, lib, work, claims, observer, proc>>

\* Mutant: the workers start before the ledger is recovered.
StartAtOnce ==
    /\ ~proc.up
    /\ proc' = [proc EXCEPT !.up = TRUE]
    /\ UNCHANGED <<ledger, job, phase, lib, work, claims, observer>>

Start ==
    /\ ~proc.up
    /\ \A o \in Owners : ~Orphaned(o)
    /\ proc' = [proc EXCEPT !.up = TRUE]
    /\ UNCHANGED <<ledger, job, phase, lib, work, claims, observer>>

-----------------------------------------------------------------------------
(* Looking at what a cancelled repair did                                    *)

CancelledRepair(o) ==
    /\ o \in Repairs
    /\ ledger[o].state = "quiescent"
    /\ job[o].status = "cancelled" \/ job[o].asked
    /\ job[o].lease \in {0, ledger[o].lease}
    /\ SameContext(o)

\* recoverStoppedStructureRepair takes the entry over under a new revision.
AdoptStopped(o) ==
    /\ proc.up
    /\ CancelledRepair(o)
    /\ job[o].status = "cancelled"
    /\ observer[o] = 0
    /\ ledger[o].rev < MaxRevs
    /\ ledger' = [ledger EXCEPT ![o].rev = ledger[o].rev + 1, ![o].runtime = proc.runtime]
    /\ observer' = [observer EXCEPT ![o] = ledger[o].rev + 1]
    /\ UNCHANGED <<job, phase, lib, work, claims, proc>>

\* reconcileCancelledStructureRepair, when every file was accounted for.
SettleStopped(o) ==
    /\ observer[o] # 0
    /\ CancelledRepair(o)
    /\ ledger[o].rev = observer[o]
    /\ ledger' = [ledger EXCEPT ![o].state = "settled"]
    /\ phase' = [phase EXCEPT ![o] = "failed"]
    /\ observer' = [observer EXCEPT ![o] = 0]
    /\ UNCHANGED <<job, lib, work, claims, proc>>

\* Some file cannot be accounted for yet.
StopObserving(o) ==
    /\ observer[o] # 0
    /\ observer' = [observer EXCEPT ![o] = 0]
    /\ UNCHANGED <<ledger, job, phase, lib, work, claims, proc>>

-----------------------------------------------------------------------------
(* The library changes, or goes                                              *)

\* Mutant: only a call in flight keeps the library from changing.
DrainedOfCalls == \A o \in Owners : ledger[o].state # "entered"

\* assertCatalogPhysicalScopeDrainedTx, after it has finalized the owners that
\* did nothing.
Drained == \A o \in Owners : ~Pending(o)

\* The library, its storage, its connection or its profile is saved with another
\* configuration or another source.
ChangeContext(source) ==
    /\ proc.up
    /\ lib.retire = "no"
    /\ Drained
    /\ lib.epoch + lib.config < MaxContexts
    /\ lib' = IF source THEN [lib EXCEPT !.epoch = lib.epoch + 1]
                        ELSE [lib EXCEPT !.config = lib.config + 1]
    /\ ledger' = [o \in Owners |-> Finalized(o, job[o])]
    /\ UNCHANGED <<job, phase, work, claims, observer, proc>>

\* DeleteRequest freezes the jobs of the library, which are all jobs here since
\* no owner is registered any more, and disables it, which is another configuration.
DeleteRequest ==
    /\ proc.up
    /\ lib.retire = "no"
    /\ lib' = [lib EXCEPT !.retire = "queued", !.config = lib.config + 1]
    /\ UNCHANGED <<ledger, job, phase, work, claims, observer, proc>>

RetireTo(from, to) ==
    /\ proc.up
    /\ lib.retire = from
    /\ lib' = [lib EXCEPT !.retire = to]

RetireBegin ==
    /\ RetireTo("queued", "draining")
    /\ UNCHANGED <<ledger, job, phase, work, claims, observer, proc>>

Unfinished(o) == job[o].status # "none" /\ ~Terminal(job[o])

\* drainLibraryRetirementJobTx: one job at a time, the first that is not over.
RetireDrain ==
    /\ proc.up
    /\ lib.retire = "draining"
    /\ \E o \in Owners :
          /\ Unfinished(o)
          /\ \A p \in Owners : Unfinished(p) => o <= p
          /\ \/ /\ job[o].status = "running"
                /\ ~job[o].asked
                /\ job' = [job EXCEPT ![o].asked = TRUE]
             \/ /\ job[o].status # "running"
                /\ job' = [job EXCEPT ![o].status = "cancelled", ![o].asked = FALSE]
    /\ UNCHANGED <<ledger, phase, lib, work, claims, observer, proc>>

\* Mutant: the drain is over when the jobs are.
RetireDrainedOfJobs ==
    /\ RetireTo("draining", "cleaning")
    /\ \A o \in Owners : ~Unfinished(o)
    /\ UNCHANGED <<ledger, job, phase, work, claims, observer, proc>>

RetireDrained ==
    /\ RetireTo("draining", "cleaning")
    /\ \A o \in Owners : ~Unfinished(o) /\ ledger[o].state # "entered"
    /\ UNCHANGED <<ledger, job, phase, work, claims, observer, proc>>

\* The references, snapshots, derived rows and, last, the ledger are removed.
RetireRows ==
    /\ RetireTo("cleaning", "finalizing")
    /\ ledger' = [o \in Owners |-> NoRow]
    /\ UNCHANGED <<job, phase, work, claims, observer, proc>>

\* The jobs are removed, then the library.
RetireFinalize ==
    /\ RetireTo("finalizing", "completed")
    /\ job' = [o \in Owners |-> NoJob]
    /\ UNCHANGED <<ledger, phase, work, claims, observer, proc>>

-----------------------------------------------------------------------------
Jobs(o) == Register(o) \/ Claim(o) \/ LeaseLost(o) \/ Cancel(o) \/ Retry(o)

GoroutineStep(k) ==
    \/ Begin(k) \/ Enter(k) \/ Refused(k)
    \/ Settle(k) \/ Return(k)
    \/ ExitAcknowledged(k) \/ ExitUnacknowledged(k)
    \/ Finish(k)

Observing(o) == AdoptStopped(o) \/ SettleStopped(o) \/ StopObserving(o)

RetireStep == RetireBegin \/ RetireDrain \/ RetireDrained \/ RetireRows \/ RetireFinalize

Next ==
    \/ \E o \in Owners : Jobs(o) \/ Observing(o) \/ RecoverRuntime(o)
    \/ \E k \in Tokens : GoroutineStep(k)
    \/ Restart \/ Start
    \/ \E source \in BOOLEAN : ChangeContext(source)
    \/ DeleteRequest \/ RetireStep

Spec == Init /\ [][Next]_vars

\* A started process recovers the ledger and serves; a goroutine goes on, an
\* external call returns (it has a timeout) and a lost lease is noticed; the
\* retirement's job is retried until it is done.
FairSpec ==
    /\ Spec
    /\ WF_vars(\E o \in Owners : RecoverRuntime(o))
    /\ WF_vars(Start)
    /\ \A k \in Tokens : WF_vars(GoroutineStep(k))
    /\ \A o \in Owners : WF_vars(LeaseLost(o) /\ \A k \in Tokens : work[k].owner # o)
    /\ WF_vars(RetireStep)

-----------------------------------------------------------------------------
(* Properties                                                                *)

LedgerRow == [state : {"none", "admitted", "entered", "quiescent", "settled"},
              rev : Nat, lease : Nat, runtime : Nat, epoch : Nat, config : Nat]

JobRow == [status : {"none", "queued", "running", "completed", "failed", "expired",
                     "cancelled"},
           lease : Nat, asked : BOOLEAN]

Library == [epoch : Nat, config : Nat,
            retire : {"no", "queued", "draining", "cleaning", "finalizing", "completed"}]

Goroutine == [owner : Owners \cup {0}, rev : Nat,
              pc : {"off", "claimed", "begun", "calling", "leaving", "settled", "done"}]

\* The tables and the goroutines hold values of their types.
TypeOK ==
    /\ ledger \in [Owners -> LedgerRow]
    /\ job \in [Owners -> JobRow]
    /\ phase \in [Owners -> {"queued", "executing", "failed", "completed"}]
    /\ lib \in Library
    /\ work \in [Tokens -> Goroutine]
    /\ claims \in Nat
    /\ observer \in [Owners -> Nat]
    /\ proc \in [runtime : Nat, up : BOOLEAN]

Calling(k) == At(k, "calling") \/ At(k, "leaving")

\* A goroutine that is calling the provider is covered by its own entry until it
\* has left: no later claim of the job, no recovery, no finalization and no
\* retirement takes the entry from under it, even when its lease is long gone.
\* Two runs of one owner therefore never touch the files together.
CallHoldsEntry == \A k \in Tokens : Calling(k) => PermitHolds(k)

\* A task never touches the files of the library while the outcome of another
\* write is unknown, whatever crashes, lost leases, cancellations and failed
\* repairs came before; one that has an unknown outcome itself may resume.
TaskEntersAlone ==
    [][\A o \in Owners \ Repairs :
          ~Pending(o) /\ Pending(o)' => \A p \in Owners : ~Pending(p)]_vars

\* While an outcome is unknown the library keeps the source and the configuration
\* under which the files were touched, so that the owner that resumes still means
\* the same files.
FrozenWhilePending ==
    lib.retire = "no" => \A o \in Owners : Pending(o) => SameContext(o)

\* Once a retirement has drained the library nobody is calling the provider, and
\* nobody will.
RetiredQuiet ==
    lib.retire \in {"cleaning", "finalizing", "completed"} => \A k \in Tokens : ~Calling(k)

\* An unknown outcome is closed by the goroutine that entered, holding its live
\* lease, by an observer of a cancelled repair, or by the retirement of the
\* library; no cancellation, retry, finalization or restart closes it.
OutcomeAccounted ==
    [][\A o \in Owners :
          Pending(o) /\ ledger'[o].state \notin {"entered", "quiescent"} =>
              \/ \E k \in Tokens : work[k].owner = o /\ Calling(k) /\ LiveLease(k)
              \/ o \in Repairs /\ observer[o] = ledger[o].rev
              \/ lib.retire = "cleaning"]_vars

\* An entry whose goroutine is gone and whose exit was never written.
LostExit(o) ==
    /\ ledger[o].state = "entered"
    /\ ledger[o].runtime = proc.runtime
    /\ \A k \in Tokens : work[k].owner = o => ~Calling(k)

\* A retirement that was accepted comes to its end, whatever the jobs of the
\* library are doing, unless the exit of a write was never recorded and the
\* process goes on without a restart.
RetirementEnds ==
    lib.retire = "queued" ~> (lib.retire = "completed" \/ \E o \in Owners : LostExit(o))

\* Two owners never have calls in flight in one library.
PhysicalFence ==
    \A k, l \in Tokens : At(k, "calling") /\ At(l, "calling") => work[k].owner = work[l].owner
=============================================================================
