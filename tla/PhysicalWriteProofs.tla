------------------------- MODULE PhysicalWriteProofs -------------------------
(***************************************************************************)
(* Proofs about PhysicalWrite, for any number of owners, repairs, claims,  *)
(* processes and configuration changes.                                    *)
(***************************************************************************)
EXTENDS PhysicalWrite, TLAPS

\* A goroutine belongs to an owner, whose row and job it can look at.
WorkOwned == \A k \in Tokens : work[k].pc # "off" => work[k].owner \in Owners

\* Between the end of a process and the start of the next no goroutine runs:
\* this is when the ledger may be recovered.
DownIsStill == ~proc.up => \A k \in Tokens : work[k].pc = "off"

\* The inductive invariant.
IInv ==
    /\ TypeOK
    /\ WorkOwned
    /\ DownIsStill
    /\ CallHoldsEntry
    /\ RetiredQuiet
    /\ FrozenWhilePending

-----------------------------------------------------------------------------

\* The ledger starts well typed.
LEMMA InitTypeOK == Init => TypeOK
BY OwnersAssumption, BoundsAssumption
DEF Init, TypeOK, NoRow, NoJob, Idle, LedgerRow, JobRow, Library, Goroutine

\* The initial state satisfies the inductive invariant.
LEMMA InitInv == Init => IInv
<1>. SUFFICES ASSUME Init PROVE IInv
   OBVIOUS
<1>1. TypeOK
   BY InitTypeOK
<1>2. WorkOwned /\ DownIsStill /\ CallHoldsEntry /\ RetiredQuiet
   BY DEF Init, WorkOwned, DownIsStill, CallHoldsEntry, RetiredQuiet, Calling, At, Idle
<1>3. FrozenWhilePending
   BY DEF Init, FrozenWhilePending, Pending, NoRow
<1>. QED
   BY <1>1, <1>2, <1>3 DEF IInv

-----------------------------------------------------------------------------
(* Types                                                                     *)

\* What the updates of the actions make of a row, a job, a library, a goroutine.
LEMMA RowUpdates ==
    ASSUME NEW r \in LedgerRow
    PROVE  /\ [r EXCEPT !.state = "settled"] \in LedgerRow
           /\ [r EXCEPT !.state = "quiescent"] \in LedgerRow
           /\ \A n, m \in Nat : [r EXCEPT !.rev = n, !.runtime = m] \in LedgerRow
           /\ r.rev \in Nat
BY DEF LedgerRow

\* A registered row of the ledger is of its type.
LEMMA NewRow ==
    ASSUME NEW state \in {"none", "admitted", "entered"}, NEW rev \in Nat, NEW lease \in Nat,
           NEW runtime \in Nat, NEW epoch \in Nat, NEW config \in Nat
    PROVE  [state |-> state, rev |-> rev, lease |-> lease, runtime |-> runtime,
            epoch |-> epoch, config |-> config] \in LedgerRow
BY DEF LedgerRow

\* What claims, results and controls make of a job is a job.
LEMMA JobUpdates ==
    ASSUME NEW j \in JobRow,
           NEW status \in {"none", "queued", "running", "completed", "failed", "expired",
                           "cancelled"}
    PROVE  /\ [j EXCEPT !.status = status] \in JobRow
           /\ \A b \in BOOLEAN : /\ [j EXCEPT !.asked = b] \in JobRow
                                  /\ [j EXCEPT !.status = status, !.asked = b] \in JobRow
           /\ \A n \in Nat : /\ [j EXCEPT !.status = status, !.lease = n] \in JobRow
                              /\ [status |-> status, lease |-> n, asked |-> FALSE] \in JobRow
BY DEF JobRow

\* What the phases of a retirement make of a library is one.
LEMMA LibraryUpdates ==
    ASSUME NEW l \in Library
    PROVE  /\ l.epoch \in Nat /\ l.config \in Nat
           /\ [l EXCEPT !.epoch = l.epoch + 1] \in Library
           /\ [l EXCEPT !.config = l.config + 1] \in Library
           /\ [l EXCEPT !.retire = "queued", !.config = l.config + 1] \in Library
           /\ \A to \in {"draining", "cleaning", "finalizing", "completed"} :
                 [l EXCEPT !.retire = to] \in Library
<1>1. l.epoch \in Nat /\ l.config \in Nat
   BY DEF Library
<1>2. l.epoch + 1 \in Nat /\ l.config + 1 \in Nat
   BY <1>1
<1>3. \A n \in Nat : /\ [l EXCEPT !.epoch = n] \in Library
                     /\ [l EXCEPT !.config = n] \in Library
                     /\ [l EXCEPT !.retire = "queued", !.config = n] \in Library
   BY DEF Library
<1>4. \A to \in {"draining", "cleaning", "finalizing", "completed"} :
         [l EXCEPT !.retire = to] \in Library
   BY DEF Library
<1>. QED
   BY <1>1, <1>2, <1>3, <1>4

\* What its steps make of a goroutine is one.
LEMMA GoroutineUpdates ==
    ASSUME NEW w \in Goroutine,
           NEW pc \in {"off", "claimed", "begun", "calling", "leaving", "settled", "done"}
    PROVE  /\ [w EXCEPT !.pc = pc] \in Goroutine
           /\ \A n \in Nat : [w EXCEPT !.pc = pc, !.rev = n] \in Goroutine
           /\ \A o \in Owners : [owner |-> o, pc |-> pc, rev |-> 0] \in Goroutine
BY DEF Goroutine

\* A missing job is of its type.
LEMMA NoJobType == NoJob \in JobRow /\ [NoJob EXCEPT !.status = "queued"] \in JobRow
BY DEF NoJob, JobRow

\* The place of no goroutine is of its type.
LEMMA IdleType == Idle \in Goroutine
BY DEF Idle, Goroutine

\* Finalization settles an admitted row and leaves every other as it is.
LEMMA FinalizedRow ==
    ASSUME TypeOK, NEW o \in Owners, NEW j
    PROVE  /\ Finalized(o, j) \in LedgerRow
           /\ Finalized(o, j).rev = ledger[o].rev
           /\ Finalized(o, j).lease = ledger[o].lease
           /\ Finalized(o, j).runtime = ledger[o].runtime
           /\ Finalized(o, j).epoch = ledger[o].epoch
           /\ Finalized(o, j).config = ledger[o].config
           /\ \/ Finalized(o, j).state = ledger[o].state
              \/ ledger[o].state = "admitted" /\ Finalized(o, j).state = "settled"
<1>1. ledger[o] \in LedgerRow
   BY DEF TypeOK
<1>2. CASE Terminal(j) /\ ledger[o].state = "admitted" /\ o \notin Repairs
   BY <1>1, <1>2 DEF Finalized, LedgerRow
<1>3. CASE ~(Terminal(j) /\ ledger[o].state = "admitted" /\ o \notin Repairs)
   BY <1>1, <1>3 DEF Finalized
<1>. QED
   BY <1>2, <1>3

\* What a step that changes a job does to the ledger: it settles an admitted row
\* or leaves the ledger as it was.
RowsKept ==
    /\ ledger' \in [Owners -> LedgerRow]
    /\ job' \in [Owners -> JobRow]
    /\ \A p \in Owners :
          /\ ledger'[p].rev = ledger[p].rev
          /\ ledger'[p].lease = ledger[p].lease
          /\ ledger'[p].runtime = ledger[p].runtime
          /\ ledger'[p].epoch = ledger[p].epoch
          /\ ledger'[p].config = ledger[p].config
          /\ \/ ledger'[p].state = ledger[p].state
             \/ ledger[p].state = "admitted" /\ ledger'[p].state = "settled"

\* A change of one job keeps the types.
LEMMA SetJobKeeps ==
    ASSUME TypeOK, NEW o \in Owners, NEW j \in JobRow, SetJob(o, j)
    PROVE  RowsKept
<1>1. ledger \in [Owners -> LedgerRow] /\ job \in [Owners -> JobRow]
   BY DEF TypeOK
<1>2. ledger' = [ledger EXCEPT ![o] = Finalized(o, j)] /\ job' = [job EXCEPT ![o] = j]
   BY DEF SetJob
<1>. QED
   BY <1>1, <1>2, FinalizedRow DEF RowsKept

\* Cancelling a job keeps the types.
LEMMA CancelKeeps == ASSUME TypeOK, NEW o \in Owners, Cancel(o) PROVE RowsKept
<1>1. job[o] \in JobRow
   BY DEF TypeOK
<1>2. /\ [job[o] EXCEPT !.asked = TRUE] \in JobRow
      /\ [job[o] EXCEPT !.status = "cancelled"] \in JobRow
   BY <1>1 DEF JobRow
<1>. QED
   BY <1>2, SetJobKeeps DEF Cancel

\* Retrying a job keeps the types.
LEMMA RetryKeeps == ASSUME TypeOK, NEW o \in Owners, Retry(o) PROVE RowsKept
<1>1. job[o] \in JobRow
   BY DEF TypeOK
<1>2. [job[o] EXCEPT !.status = "queued"] \in JobRow
   BY <1>1 DEF JobRow
<1>. QED
   BY <1>2, SetJobKeeps DEF Retry

\* Storing the result of a job keeps the types.
LEMMA FinishKeeps == ASSUME TypeOK, WorkOwned, NEW k \in Tokens, Finish(k) PROVE RowsKept
<1>1. work[k].owner \in Owners
   BY DEF Finish, At, WorkOwned
<1>2. CASE HasLease(k)
   <2>1. PICK status \in {"completed", "failed", "queued", "cancelled"} :
            SetJob(work[k].owner, [status |-> status, lease |-> 0, asked |-> FALSE])
      BY <1>2 DEF Finish
   <2>2. [status |-> status, lease |-> 0, asked |-> FALSE] \in JobRow
      BY DEF JobRow
   <2>. QED
      BY <1>1, <2>1, <2>2, SetJobKeeps
<1>3. CASE ~HasLease(k)
   BY <1>3 DEF Finish, RowsKept, TypeOK
<1>. QED
   BY <1>2, <1>3

\* Every step keeps the types.
LEMMA TypeStep == TypeOK /\ WorkOwned /\ [Next]_vars => TypeOK'
<1>. SUFFICES ASSUME TypeOK, WorkOwned, [Next]_vars PROVE TypeOK'
   OBVIOUS
<1>. USE OwnersAssumption, BoundsAssumption
<1>1. ASSUME NEW o \in Owners, Register(o) PROVE TypeOK'
   BY <1>1, NewRow, NoJobType, LibraryUpdates DEF TypeOK, Register
<1>2. ASSUME NEW o \in Owners, Claim(o) PROVE TypeOK'
   <2>1. claims + 1 \in Nat /\ claims + 1 \in Tokens
      BY <1>2 DEF Claim, Tokens, TypeOK
   <2>2. [job[o] EXCEPT !.status = "running", !.lease = claims + 1] \in JobRow
      BY <2>1, JobUpdates DEF TypeOK
   <2>3. [owner |-> o, pc |-> "claimed", rev |-> 0] \in Goroutine
      BY DEF Goroutine
   <2>4. job' = [job EXCEPT ![o] = [job[o] EXCEPT !.status = "running", !.lease = claims + 1]]
      BY <1>2 DEF Claim, TypeOK
   <2>. QED
      BY <1>2, <2>1, <2>2, <2>3, <2>4 DEF Claim, TypeOK
<1>3. ASSUME NEW o \in Owners, LeaseLost(o) PROVE TypeOK'
   <2>1. PICK status \in {"queued", "expired"} :
            job' = [job EXCEPT ![o].status = status, ![o].lease = 0]
      BY <1>3 DEF LeaseLost
   <2>2. job[o] \in JobRow
      BY DEF TypeOK
   <2>3. [job[o] EXCEPT !.status = status, !.lease = 0] \in JobRow
      BY <2>2 DEF JobRow
   <2>4. job' = [job EXCEPT ![o] = [job[o] EXCEPT !.status = status, !.lease = 0]]
      BY <2>1 DEF TypeOK
   <2>. QED
      BY <1>3, <2>3, <2>4 DEF LeaseLost, TypeOK
<1>4. ASSUME NEW o \in Owners, Cancel(o) PROVE TypeOK'
   BY <1>4, CancelKeeps DEF TypeOK, Cancel, RowsKept
<1>5. ASSUME NEW o \in Owners, Retry(o) PROVE TypeOK'
   BY <1>5, RetryKeeps DEF TypeOK, Retry, RowsKept
<1>6. ASSUME NEW o \in Owners, AdoptStopped(o) PROVE TypeOK'
   <2>1. ledger[o] \in LedgerRow /\ proc.runtime \in Nat
      BY DEF TypeOK
   <2>2. ledger[o].rev + 1 \in Nat
      BY <2>1 DEF LedgerRow
   <2>3. [ledger[o] EXCEPT !.rev = ledger[o].rev + 1, !.runtime = proc.runtime] \in LedgerRow
      BY <2>1, <2>2, RowUpdates
   <2>4. ledger' = [ledger EXCEPT ![o] =
                       [ledger[o] EXCEPT !.rev = ledger[o].rev + 1, !.runtime = proc.runtime]]
      BY <1>6 DEF AdoptStopped, TypeOK
   <2>. QED
      BY <1>6, <2>2, <2>3, <2>4 DEF AdoptStopped, TypeOK
<1>7. ASSUME NEW o \in Owners, SettleStopped(o) PROVE TypeOK'
   BY <1>7, RowUpdates DEF TypeOK, SettleStopped
<1>8. ASSUME NEW o \in Owners, StopObserving(o) PROVE TypeOK'
   BY <1>8 DEF TypeOK, StopObserving
<1>9. ASSUME NEW o \in Owners, RecoverRuntime(o) PROVE TypeOK'
   BY <1>9, RowUpdates DEF TypeOK, RecoverRuntime
<1>10. ASSUME NEW k \in Tokens, Begin(k) PROVE TypeOK'
   BY <1>10, GoroutineUpdates DEF TypeOK, Begin, At, Goto, SetPhase, WorkOwned
<1>11. ASSUME NEW k \in Tokens, Enter(k) PROVE TypeOK'
   <2>. DEFINE o == work[k].owner
   <2>1. o \in Owners /\ work[k] \in Goroutine /\ k \in Nat
      BY <1>11 DEF Enter, At, WorkOwned, TypeOK, Tokens
   <2>2. /\ ledger[o].rev + 1 \in Nat /\ proc.runtime \in Nat
         /\ lib.epoch \in Nat /\ lib.config \in Nat
      <3>1. ledger[o] \in LedgerRow /\ lib \in Library /\ proc.runtime \in Nat
         BY <2>1 DEF TypeOK
      <3>2. ledger[o].rev + 1 \in Nat
         BY <3>1 DEF LedgerRow
      <3>. QED
         BY <3>1, <3>2 DEF Library
   <2>3. [state |-> "entered", rev |-> ledger[o].rev + 1, lease |-> k,
          runtime |-> proc.runtime, epoch |-> lib.epoch, config |-> lib.config] \in LedgerRow
      BY <2>1, <2>2, NewRow
   <2>4. [work[k] EXCEPT !.pc = "calling", !.rev = ledger[o].rev + 1] \in Goroutine
      BY <2>1, <2>2, GoroutineUpdates
   <2>5. work' = [work EXCEPT ![k] = [work[k] EXCEPT !.pc = "calling", !.rev = ledger[o].rev + 1]]
      BY <1>11 DEF Enter, TypeOK
   <2>. QED
      BY <1>11, <2>1, <2>3, <2>4, <2>5 DEF Enter, TypeOK
<1>12. ASSUME NEW k \in Tokens, Refused(k) PROVE TypeOK'
   BY <1>12, GoroutineUpdates DEF TypeOK, Refused, At, Goto, SetPhase, WorkOwned
<1>13. ASSUME NEW k \in Tokens, Settle(k) PROVE TypeOK'
   BY <1>13, GoroutineUpdates, RowUpdates DEF TypeOK, Settle, At, Goto, SetPhase, WorkOwned
<1>14. ASSUME NEW k \in Tokens, Return(k) PROVE TypeOK'
   BY <1>14, GoroutineUpdates DEF TypeOK, Return, At, Goto, SetPhase, WorkOwned
<1>15. ASSUME NEW k \in Tokens, ExitAcknowledged(k) PROVE TypeOK'
   <2>. DEFINE o == work[k].owner
   <2>1. o \in Owners /\ work[k] \in Goroutine
      BY <1>15 DEF ExitAcknowledged, At, WorkOwned, TypeOK
   <2>2. [ledger[o] EXCEPT !.state = "quiescent"] \in LedgerRow
      BY <2>1, RowUpdates DEF TypeOK
   <2>3. ledger' = [ledger EXCEPT ![o] = [ledger[o] EXCEPT !.state = "quiescent"]]
      BY <1>15 DEF ExitAcknowledged, TypeOK
   <2>4. observer' = observer \/ observer' = [observer EXCEPT ![o] = work[k].rev]
      BY <1>15 DEF ExitAcknowledged
   <2>5. work[k].rev \in Nat
      BY <2>1 DEF Goroutine
   <2>6. observer' \in [Owners -> Nat]
      BY <2>1, <2>4, <2>5 DEF TypeOK
   <2>7. work' \in [Tokens -> Goroutine]
      BY <1>15, <2>1, GoroutineUpdates DEF ExitAcknowledged, Goto, TypeOK
   <2>. QED
      BY <1>15, <2>1, <2>2, <2>3, <2>6, <2>7 DEF ExitAcknowledged, TypeOK
<1>16. ASSUME NEW k \in Tokens, ExitUnacknowledged(k) PROVE TypeOK'
   BY <1>16, GoroutineUpdates DEF TypeOK, ExitUnacknowledged, At, Goto, WorkOwned
<1>17. ASSUME NEW k \in Tokens, Finish(k) PROVE TypeOK'
   BY <1>17, FinishKeeps, IdleType DEF TypeOK, Finish, At, Idle, WorkOwned, RowsKept
<1>18. ASSUME NEW source \in BOOLEAN, ChangeContext(source) PROVE TypeOK'
   BY <1>18, FinalizedRow, LibraryUpdates DEF TypeOK, ChangeContext
<1>19. CASE Restart
   BY <1>19, IdleType DEF TypeOK, Restart
<1>20. CASE Start
   BY <1>20 DEF TypeOK, Start
<1>21. CASE DeleteRequest
   BY <1>21, LibraryUpdates DEF TypeOK, DeleteRequest
<1>22. CASE RetireBegin
   BY <1>22, LibraryUpdates DEF TypeOK, RetireBegin, RetireTo
<1>23. CASE RetireDrain
   <2>1. PICK o \in Owners :
            \/ job' = [job EXCEPT ![o].asked = TRUE]
            \/ job' = [job EXCEPT ![o].status = "cancelled", ![o].asked = FALSE]
      BY <1>23 DEF RetireDrain
   <2>2. job[o] \in JobRow
      BY DEF TypeOK
   <2>3. /\ [job[o] EXCEPT !.asked = TRUE] \in JobRow
         /\ [job[o] EXCEPT !.status = "cancelled", !.asked = FALSE] \in JobRow
      BY <2>2 DEF JobRow
   <2>4. \/ job' = [job EXCEPT ![o] = [job[o] EXCEPT !.asked = TRUE]]
         \/ job' = [job EXCEPT ![o] = [job[o] EXCEPT !.status = "cancelled", !.asked = FALSE]]
      BY <2>1 DEF TypeOK
   <2>5. job' \in [Owners -> JobRow]
      BY <2>3, <2>4 DEF TypeOK
   <2>. QED
      BY <1>23, <2>5 DEF RetireDrain, TypeOK
<1>24. CASE RetireDrained
   BY <1>24, LibraryUpdates DEF TypeOK, RetireDrained, RetireTo
<1>25. CASE RetireRows
   BY <1>25, LibraryUpdates, NewRow DEF TypeOK, RetireRows, RetireTo, NoRow
<1>26. CASE RetireFinalize
   BY <1>26, LibraryUpdates, NoJobType DEF TypeOK, RetireFinalize, RetireTo
<1>27. CASE UNCHANGED vars
   BY <1>27 DEF TypeOK, vars
<1>. QED
   BY <1>1, <1>2, <1>3, <1>4, <1>5, <1>6, <1>7, <1>8, <1>9, <1>10, <1>11, <1>12, <1>13,
      <1>14, <1>15, <1>16, <1>17, <1>18, <1>19, <1>20, <1>21, <1>22, <1>23, <1>24, <1>25,
      <1>26, <1>27
   DEF Next, Jobs, Observing, GoroutineStep, RetireStep

\* A goroutine goes on belonging to an owner.
LEMMA WorkOwnedStep == TypeOK /\ WorkOwned /\ [Next]_vars => WorkOwned'
<1>. SUFFICES ASSUME TypeOK, WorkOwned, [Next]_vars PROVE WorkOwned'
   OBVIOUS
<1>1. ASSUME NEW o \in Owners, Register(o) PROVE WorkOwned'
   BY <1>1 DEF TypeOK, WorkOwned, Goroutine, Idle, Register
<1>2. ASSUME NEW o \in Owners, Claim(o) PROVE WorkOwned'
   BY <1>2 DEF TypeOK, WorkOwned, Goroutine, Idle, Claim, Tokens
<1>3. ASSUME NEW o \in Owners, LeaseLost(o) PROVE WorkOwned'
   BY <1>3 DEF TypeOK, WorkOwned, Goroutine, Idle, LeaseLost
<1>4. ASSUME NEW o \in Owners, Cancel(o) PROVE WorkOwned'
   BY <1>4 DEF TypeOK, WorkOwned, Goroutine, Idle, Cancel
<1>5. ASSUME NEW o \in Owners, Retry(o) PROVE WorkOwned'
   BY <1>5 DEF TypeOK, WorkOwned, Goroutine, Idle, Retry
<1>6. ASSUME NEW o \in Owners, AdoptStopped(o) PROVE WorkOwned'
   BY <1>6 DEF TypeOK, WorkOwned, Goroutine, Idle, AdoptStopped
<1>7. ASSUME NEW o \in Owners, SettleStopped(o) PROVE WorkOwned'
   BY <1>7 DEF TypeOK, WorkOwned, Goroutine, Idle, SettleStopped
<1>8. ASSUME NEW o \in Owners, StopObserving(o) PROVE WorkOwned'
   BY <1>8 DEF TypeOK, WorkOwned, Goroutine, Idle, StopObserving
<1>9. ASSUME NEW o \in Owners, RecoverRuntime(o) PROVE WorkOwned'
   BY <1>9 DEF TypeOK, WorkOwned, Goroutine, Idle, RecoverRuntime
<1>10. ASSUME NEW k \in Tokens, Begin(k) PROVE WorkOwned'
   BY <1>10 DEF TypeOK, WorkOwned, Goroutine, Idle, Begin, At, Goto, SetPhase
<1>11. ASSUME NEW k \in Tokens, Enter(k) PROVE WorkOwned'
   BY <1>11 DEF TypeOK, WorkOwned, Goroutine, Idle, Enter, At
<1>12. ASSUME NEW k \in Tokens, Refused(k) PROVE WorkOwned'
   BY <1>12 DEF TypeOK, WorkOwned, Goroutine, Idle, Refused, At, Goto, SetPhase
<1>13. ASSUME NEW k \in Tokens, Settle(k) PROVE WorkOwned'
   BY <1>13 DEF TypeOK, WorkOwned, Goroutine, Idle, Settle, At, Goto, SetPhase
<1>14. ASSUME NEW k \in Tokens, Return(k) PROVE WorkOwned'
   BY <1>14 DEF TypeOK, WorkOwned, Goroutine, Idle, Return, At, Goto, SetPhase
<1>15. ASSUME NEW k \in Tokens, ExitAcknowledged(k) PROVE WorkOwned'
   BY <1>15 DEF TypeOK, WorkOwned, Goroutine, Idle, ExitAcknowledged, At, Goto
<1>16. ASSUME NEW k \in Tokens, ExitUnacknowledged(k) PROVE WorkOwned'
   BY <1>16 DEF TypeOK, WorkOwned, Goroutine, Idle, ExitUnacknowledged, At, Goto
<1>17. ASSUME NEW k \in Tokens, Finish(k) PROVE WorkOwned'
   BY <1>17 DEF TypeOK, WorkOwned, Goroutine, Idle, Finish, At
<1>18. ASSUME NEW source \in BOOLEAN, ChangeContext(source) PROVE WorkOwned'
   BY <1>18 DEF TypeOK, WorkOwned, Goroutine, Idle, ChangeContext
<1>19. CASE Restart
   BY <1>19 DEF TypeOK, WorkOwned, Goroutine, Idle, Restart
<1>20. CASE Start
   BY <1>20 DEF TypeOK, WorkOwned, Goroutine, Idle, Start
<1>21. CASE DeleteRequest
   BY <1>21 DEF TypeOK, WorkOwned, Goroutine, Idle, DeleteRequest
<1>22. CASE RetireBegin
   BY <1>22 DEF TypeOK, WorkOwned, Goroutine, Idle, RetireBegin, RetireTo
<1>23. CASE RetireDrain
   BY <1>23 DEF TypeOK, WorkOwned, Goroutine, Idle, RetireDrain
<1>24. CASE RetireDrained
   BY <1>24 DEF TypeOK, WorkOwned, Goroutine, Idle, RetireDrained, RetireTo
<1>25. CASE RetireRows
   BY <1>25 DEF TypeOK, WorkOwned, Goroutine, Idle, RetireRows, RetireTo, NoRow
<1>26. CASE RetireFinalize
   BY <1>26 DEF TypeOK, WorkOwned, Goroutine, Idle, RetireFinalize, RetireTo
<1>27. CASE UNCHANGED vars
   BY <1>27 DEF TypeOK, WorkOwned, Goroutine, Idle, vars
<1>. QED
   BY <1>1, <1>2, <1>3, <1>4, <1>5, <1>6, <1>7, <1>8, <1>9, <1>10, <1>11, <1>12, <1>13,
      <1>14, <1>15, <1>16, <1>17, <1>18, <1>19, <1>20, <1>21, <1>22, <1>23, <1>24, <1>25,
      <1>26, <1>27
   DEF Next, Jobs, Observing, GoroutineStep, RetireStep

\* While the process is not serving, no goroutine comes to life.
LEMMA DownStep == TypeOK /\ DownIsStill /\ [Next]_vars => DownIsStill'
<1>. SUFFICES ASSUME TypeOK, DownIsStill, [Next]_vars PROVE DownIsStill'
   OBVIOUS
<1>1. ASSUME NEW o \in Owners, Register(o) PROVE DownIsStill'
   BY <1>1 DEF TypeOK, DownIsStill, Goroutine, Idle, Register
<1>2. ASSUME NEW o \in Owners, Claim(o) PROVE DownIsStill'
   BY <1>2 DEF TypeOK, DownIsStill, Goroutine, Idle, Claim, Tokens
<1>3. ASSUME NEW o \in Owners, LeaseLost(o) PROVE DownIsStill'
   BY <1>3 DEF TypeOK, DownIsStill, Goroutine, Idle, LeaseLost
<1>4. ASSUME NEW o \in Owners, Cancel(o) PROVE DownIsStill'
   BY <1>4 DEF TypeOK, DownIsStill, Goroutine, Idle, Cancel
<1>5. ASSUME NEW o \in Owners, Retry(o) PROVE DownIsStill'
   BY <1>5 DEF TypeOK, DownIsStill, Goroutine, Idle, Retry
<1>6. ASSUME NEW o \in Owners, AdoptStopped(o) PROVE DownIsStill'
   BY <1>6 DEF TypeOK, DownIsStill, Goroutine, Idle, AdoptStopped
<1>7. ASSUME NEW o \in Owners, SettleStopped(o) PROVE DownIsStill'
   BY <1>7 DEF TypeOK, DownIsStill, Goroutine, Idle, SettleStopped
<1>8. ASSUME NEW o \in Owners, StopObserving(o) PROVE DownIsStill'
   BY <1>8 DEF TypeOK, DownIsStill, Goroutine, Idle, StopObserving
<1>9. ASSUME NEW o \in Owners, RecoverRuntime(o) PROVE DownIsStill'
   BY <1>9 DEF TypeOK, DownIsStill, Goroutine, Idle, RecoverRuntime
<1>10. ASSUME NEW k \in Tokens, Begin(k) PROVE DownIsStill'
   BY <1>10 DEF TypeOK, DownIsStill, Goroutine, Idle, Begin, At, Goto, SetPhase
<1>11. ASSUME NEW k \in Tokens, Enter(k) PROVE DownIsStill'
   BY <1>11 DEF TypeOK, DownIsStill, Goroutine, Idle, Enter, At
<1>12. ASSUME NEW k \in Tokens, Refused(k) PROVE DownIsStill'
   BY <1>12 DEF TypeOK, DownIsStill, Goroutine, Idle, Refused, At, Goto, SetPhase
<1>13. ASSUME NEW k \in Tokens, Settle(k) PROVE DownIsStill'
   BY <1>13 DEF TypeOK, DownIsStill, Goroutine, Idle, Settle, At, Goto, SetPhase
<1>14. ASSUME NEW k \in Tokens, Return(k) PROVE DownIsStill'
   BY <1>14 DEF TypeOK, DownIsStill, Goroutine, Idle, Return, At, Goto, SetPhase
<1>15. ASSUME NEW k \in Tokens, ExitAcknowledged(k) PROVE DownIsStill'
   BY <1>15 DEF TypeOK, DownIsStill, Goroutine, Idle, ExitAcknowledged, At, Goto
<1>16. ASSUME NEW k \in Tokens, ExitUnacknowledged(k) PROVE DownIsStill'
   BY <1>16 DEF TypeOK, DownIsStill, Goroutine, Idle, ExitUnacknowledged, At, Goto
<1>17. ASSUME NEW k \in Tokens, Finish(k) PROVE DownIsStill'
   BY <1>17 DEF TypeOK, DownIsStill, Goroutine, Idle, Finish, At
<1>18. ASSUME NEW source \in BOOLEAN, ChangeContext(source) PROVE DownIsStill'
   BY <1>18 DEF TypeOK, DownIsStill, Goroutine, Idle, ChangeContext
<1>19. CASE Restart
   BY <1>19 DEF TypeOK, DownIsStill, Goroutine, Idle, Restart
<1>20. CASE Start
   BY <1>20 DEF TypeOK, DownIsStill, Goroutine, Idle, Start
<1>21. CASE DeleteRequest
   BY <1>21 DEF TypeOK, DownIsStill, Goroutine, Idle, DeleteRequest
<1>22. CASE RetireBegin
   BY <1>22 DEF TypeOK, DownIsStill, Goroutine, Idle, RetireBegin, RetireTo
<1>23. CASE RetireDrain
   BY <1>23 DEF TypeOK, DownIsStill, Goroutine, Idle, RetireDrain
<1>24. CASE RetireDrained
   BY <1>24 DEF TypeOK, DownIsStill, Goroutine, Idle, RetireDrained, RetireTo
<1>25. CASE RetireRows
   BY <1>25 DEF TypeOK, DownIsStill, Goroutine, Idle, RetireRows, RetireTo, NoRow
<1>26. CASE RetireFinalize
   BY <1>26 DEF TypeOK, DownIsStill, Goroutine, Idle, RetireFinalize, RetireTo
<1>27. CASE UNCHANGED vars
   BY <1>27 DEF TypeOK, DownIsStill, Goroutine, Idle, vars
<1>. QED
   BY <1>1, <1>2, <1>3, <1>4, <1>5, <1>6, <1>7, <1>8, <1>9, <1>10, <1>11, <1>12, <1>13,
      <1>14, <1>15, <1>16, <1>17, <1>18, <1>19, <1>20, <1>21, <1>22, <1>23, <1>24, <1>25,
      <1>26, <1>27
   DEF Next, Jobs, Observing, GoroutineStep, RetireStep

-----------------------------------------------------------------------------
(* The entry of a calling goroutine                                          *)

\* The entry names one goroutine: no two of one owner call at a time.
LEMMA OneCaller ==
    ASSUME TypeOK, CallHoldsEntry,
           NEW k \in Tokens, NEW l \in Tokens, Calling(k), Calling(l),
           work[k].owner = work[l].owner
    PROVE  k = l
BY DEF TypeOK, CallHoldsEntry, PermitHolds

\* Every step leaves a call in flight its own entry.
LEMMA CallStep ==
    TypeOK /\ WorkOwned /\ DownIsStill /\ CallHoldsEntry /\ RetiredQuiet /\ [Next]_vars
        => CallHoldsEntry'
<1>. SUFFICES ASSUME TypeOK, WorkOwned, DownIsStill, CallHoldsEntry, RetiredQuiet,
                     [Next]_vars
              PROVE  CallHoldsEntry'
   OBVIOUS
<1>1. ASSUME NEW o \in Owners, Register(o) PROVE CallHoldsEntry'
   BY <1>1 DEF TypeOK, LedgerRow, Goroutine, Idle, WorkOwned, CallHoldsEntry, Calling,
      PermitHolds, At, Register
<1>2. ASSUME NEW o \in Owners, Claim(o) PROVE CallHoldsEntry'
   BY <1>2 DEF TypeOK, LedgerRow, Goroutine, Idle, WorkOwned, CallHoldsEntry, Calling,
      PermitHolds, At, Claim, Tokens
<1>3. ASSUME NEW o \in Owners, LeaseLost(o) PROVE CallHoldsEntry'
   BY <1>3 DEF TypeOK, LedgerRow, Goroutine, Idle, WorkOwned, CallHoldsEntry, Calling,
      PermitHolds, At, LeaseLost
<1>4. ASSUME NEW o \in Owners, Cancel(o) PROVE CallHoldsEntry'
   <2>1. RowsKept
      BY <1>4, CancelKeeps
   <2>2. UNCHANGED <<phase, lib, work, claims, observer, proc>>
      BY <1>4 DEF Cancel
   <2>. QED
      BY <2>1, <2>2 DEF TypeOK, Goroutine, Idle, WorkOwned, CallHoldsEntry, Calling,
         PermitHolds, At, RowsKept
<1>5. ASSUME NEW o \in Owners, Retry(o) PROVE CallHoldsEntry'
   <2>1. RowsKept
      BY <1>5, RetryKeeps
   <2>2. UNCHANGED <<phase, lib, work, claims, observer, proc>>
      BY <1>5 DEF Retry
   <2>. QED
      BY <2>1, <2>2 DEF TypeOK, Goroutine, Idle, WorkOwned, CallHoldsEntry, Calling,
         PermitHolds, At, RowsKept
<1>6. ASSUME NEW o \in Owners, AdoptStopped(o) PROVE CallHoldsEntry'
   BY <1>6 DEF TypeOK, LedgerRow, Goroutine, Idle, WorkOwned, CallHoldsEntry, Calling,
      PermitHolds, At, AdoptStopped, CancelledRepair
<1>7. ASSUME NEW o \in Owners, SettleStopped(o) PROVE CallHoldsEntry'
   BY <1>7 DEF TypeOK, LedgerRow, Goroutine, Idle, WorkOwned, CallHoldsEntry, Calling,
      PermitHolds, At, SettleStopped, CancelledRepair
<1>8. ASSUME NEW o \in Owners, StopObserving(o) PROVE CallHoldsEntry'
   BY <1>8 DEF TypeOK, LedgerRow, Goroutine, Idle, WorkOwned, CallHoldsEntry, Calling,
      PermitHolds, At, StopObserving
<1>9. ASSUME NEW o \in Owners, RecoverRuntime(o) PROVE CallHoldsEntry'
   BY <1>9 DEF TypeOK, LedgerRow, Goroutine, Idle, WorkOwned, CallHoldsEntry, Calling,
      PermitHolds, At, RecoverRuntime, DownIsStill
<1>10. ASSUME NEW k \in Tokens, Begin(k) PROVE CallHoldsEntry'
   BY <1>10 DEF TypeOK, LedgerRow, Goroutine, Idle, WorkOwned, CallHoldsEntry, Calling,
      PermitHolds, At, Begin, Goto, SetPhase
<1>11. ASSUME NEW k \in Tokens, Enter(k) PROVE CallHoldsEntry'
   BY <1>11 DEF TypeOK, LedgerRow, Goroutine, Idle, WorkOwned, CallHoldsEntry, Calling,
      PermitHolds, At, Enter
<1>12. ASSUME NEW k \in Tokens, Refused(k) PROVE CallHoldsEntry'
   BY <1>12 DEF TypeOK, LedgerRow, Goroutine, Idle, WorkOwned, CallHoldsEntry, Calling,
      PermitHolds, At, Refused, Goto, SetPhase
<1>13. ASSUME NEW k \in Tokens, Settle(k) PROVE CallHoldsEntry'
   BY <1>13 DEF TypeOK, LedgerRow, Goroutine, Idle, WorkOwned, CallHoldsEntry, Calling,
      PermitHolds, At, Settle, Goto, SetPhase
<1>14. ASSUME NEW k \in Tokens, Return(k) PROVE CallHoldsEntry'
   BY <1>14 DEF TypeOK, LedgerRow, Goroutine, Idle, WorkOwned, CallHoldsEntry, Calling,
      PermitHolds, At, Return, Goto, SetPhase
<1>15. ASSUME NEW k \in Tokens, ExitAcknowledged(k) PROVE CallHoldsEntry'
   BY <1>15 DEF TypeOK, LedgerRow, Goroutine, Idle, WorkOwned, CallHoldsEntry, Calling,
      PermitHolds, At, ExitAcknowledged, Goto
<1>16. ASSUME NEW k \in Tokens, ExitUnacknowledged(k) PROVE CallHoldsEntry'
   BY <1>16 DEF TypeOK, LedgerRow, Goroutine, Idle, WorkOwned, CallHoldsEntry, Calling,
      PermitHolds, At, ExitUnacknowledged, Goto
<1>17. ASSUME NEW k \in Tokens, Finish(k) PROVE CallHoldsEntry'
   <2>1. RowsKept
      BY <1>17, FinishKeeps
   <2>2. UNCHANGED <<phase, lib, claims, observer, proc>> /\ work' = [work EXCEPT ![k] = Idle]
      BY <1>17 DEF Finish
   <2>. QED
      BY <2>1, <2>2 DEF TypeOK, Goroutine, Idle, WorkOwned, CallHoldsEntry, Calling,
         PermitHolds, At, RowsKept
<1>18. ASSUME NEW source \in BOOLEAN, ChangeContext(source) PROVE CallHoldsEntry'
   BY <1>18, FinalizedRow DEF TypeOK, LedgerRow, Goroutine, Idle, WorkOwned, CallHoldsEntry,
      Calling, PermitHolds, At, ChangeContext
<1>19. CASE Restart
   BY <1>19 DEF TypeOK, LedgerRow, Goroutine, Idle, WorkOwned, CallHoldsEntry, Calling,
      PermitHolds, At, Restart
<1>20. CASE Start
   BY <1>20 DEF TypeOK, LedgerRow, Goroutine, Idle, WorkOwned, CallHoldsEntry, Calling,
      PermitHolds, At, Start
<1>21. CASE DeleteRequest
   BY <1>21 DEF TypeOK, LedgerRow, Goroutine, Idle, WorkOwned, CallHoldsEntry, Calling,
      PermitHolds, At, DeleteRequest
<1>22. CASE RetireBegin
   BY <1>22 DEF TypeOK, LedgerRow, Goroutine, Idle, WorkOwned, CallHoldsEntry, Calling,
      PermitHolds, At, RetireBegin, RetireTo
<1>23. CASE RetireDrain
   BY <1>23 DEF TypeOK, LedgerRow, Goroutine, Idle, WorkOwned, CallHoldsEntry, Calling,
      PermitHolds, At, RetireDrain
<1>24. CASE RetireDrained
   BY <1>24 DEF TypeOK, LedgerRow, Goroutine, Idle, WorkOwned, CallHoldsEntry, Calling,
      PermitHolds, At, RetireDrained, RetireTo
<1>25. CASE RetireRows
   BY <1>25 DEF TypeOK, LedgerRow, Goroutine, Idle, WorkOwned, CallHoldsEntry, Calling,
      PermitHolds, At, RetireRows, RetireTo, NoRow, RetiredQuiet
<1>26. CASE RetireFinalize
   BY <1>26 DEF TypeOK, LedgerRow, Goroutine, Idle, WorkOwned, CallHoldsEntry, Calling,
      PermitHolds, At, RetireFinalize, RetireTo
<1>27. CASE UNCHANGED vars
   BY <1>27 DEF TypeOK, LedgerRow, Goroutine, Idle, WorkOwned, CallHoldsEntry, Calling,
      PermitHolds, At, vars
<1>. QED
   BY <1>1, <1>2, <1>3, <1>4, <1>5, <1>6, <1>7, <1>8, <1>9, <1>10, <1>11, <1>12, <1>13,
      <1>14, <1>15, <1>16, <1>17, <1>18, <1>19, <1>20, <1>21, <1>22, <1>23, <1>24, <1>25,
      <1>26, <1>27
   DEF Next, Jobs, Observing, GoroutineStep, RetireStep

-----------------------------------------------------------------------------
(* Retirement, and the context of a pending write                            *)

\* Every step keeps the rows of a library with a call in flight.
LEMMA RetiredStep ==
    TypeOK /\ WorkOwned /\ CallHoldsEntry /\ RetiredQuiet /\ [Next]_vars => RetiredQuiet'
<1>. SUFFICES ASSUME TypeOK, WorkOwned, CallHoldsEntry, RetiredQuiet, [Next]_vars
              PROVE  RetiredQuiet'
   OBVIOUS
<1>1. ASSUME NEW o \in Owners, Register(o) PROVE RetiredQuiet'
   BY <1>1 DEF TypeOK, Library, Goroutine, Idle, RetiredQuiet, Calling, At, Register
<1>2. ASSUME NEW o \in Owners, Claim(o) PROVE RetiredQuiet'
   BY <1>2 DEF TypeOK, Library, Goroutine, Idle, RetiredQuiet, Calling, At, Claim, Tokens
<1>3. ASSUME NEW o \in Owners, LeaseLost(o) PROVE RetiredQuiet'
   BY <1>3 DEF TypeOK, Library, Goroutine, Idle, RetiredQuiet, Calling, At, LeaseLost
<1>4. ASSUME NEW o \in Owners, Cancel(o) PROVE RetiredQuiet'
   BY <1>4 DEF TypeOK, Library, Goroutine, Idle, RetiredQuiet, Calling, At, Cancel
<1>5. ASSUME NEW o \in Owners, Retry(o) PROVE RetiredQuiet'
   BY <1>5 DEF TypeOK, Library, Goroutine, Idle, RetiredQuiet, Calling, At, Retry
<1>6. ASSUME NEW o \in Owners, AdoptStopped(o) PROVE RetiredQuiet'
   BY <1>6 DEF TypeOK, Library, Goroutine, Idle, RetiredQuiet, Calling, At, AdoptStopped
<1>7. ASSUME NEW o \in Owners, SettleStopped(o) PROVE RetiredQuiet'
   BY <1>7 DEF TypeOK, Library, Goroutine, Idle, RetiredQuiet, Calling, At, SettleStopped
<1>8. ASSUME NEW o \in Owners, StopObserving(o) PROVE RetiredQuiet'
   BY <1>8 DEF TypeOK, Library, Goroutine, Idle, RetiredQuiet, Calling, At, StopObserving
<1>9. ASSUME NEW o \in Owners, RecoverRuntime(o) PROVE RetiredQuiet'
   BY <1>9 DEF TypeOK, Library, Goroutine, Idle, RetiredQuiet, Calling, At, RecoverRuntime
<1>10. ASSUME NEW k \in Tokens, Begin(k) PROVE RetiredQuiet'
   BY <1>10 DEF TypeOK, Library, Goroutine, Idle, RetiredQuiet, Calling, At, Begin, Goto,
      SetPhase
<1>11. ASSUME NEW k \in Tokens, Enter(k) PROVE RetiredQuiet'
   BY <1>11 DEF TypeOK, Library, Goroutine, Idle, RetiredQuiet, Calling, At, Enter
<1>12. ASSUME NEW k \in Tokens, Refused(k) PROVE RetiredQuiet'
   BY <1>12 DEF TypeOK, Library, Goroutine, Idle, RetiredQuiet, Calling, At, Refused, Goto,
      SetPhase
<1>13. ASSUME NEW k \in Tokens, Settle(k) PROVE RetiredQuiet'
   BY <1>13 DEF TypeOK, Library, Goroutine, Idle, RetiredQuiet, Calling, At, Settle, Goto,
      SetPhase
<1>14. ASSUME NEW k \in Tokens, Return(k) PROVE RetiredQuiet'
   BY <1>14 DEF TypeOK, Library, Goroutine, Idle, RetiredQuiet, Calling, At, Return, Goto,
      SetPhase
<1>15. ASSUME NEW k \in Tokens, ExitAcknowledged(k) PROVE RetiredQuiet'
   BY <1>15 DEF TypeOK, Library, Goroutine, Idle, RetiredQuiet, Calling, At,
      ExitAcknowledged, Goto
<1>16. ASSUME NEW k \in Tokens, ExitUnacknowledged(k) PROVE RetiredQuiet'
   BY <1>16 DEF TypeOK, Library, Goroutine, Idle, RetiredQuiet, Calling, At,
      ExitUnacknowledged, Goto
<1>17. ASSUME NEW k \in Tokens, Finish(k) PROVE RetiredQuiet'
   BY <1>17 DEF TypeOK, Library, Goroutine, Idle, RetiredQuiet, Calling, At, Finish
<1>18. ASSUME NEW source \in BOOLEAN, ChangeContext(source) PROVE RetiredQuiet'
   BY <1>18 DEF TypeOK, Library, Goroutine, Idle, RetiredQuiet, Calling, At, ChangeContext
<1>19. CASE Restart
   BY <1>19 DEF TypeOK, Library, Goroutine, Idle, RetiredQuiet, Calling, At, Restart
<1>20. CASE Start
   BY <1>20 DEF TypeOK, Library, Goroutine, Idle, RetiredQuiet, Calling, At, Start
<1>21. CASE DeleteRequest
   BY <1>21 DEF TypeOK, Library, Goroutine, Idle, RetiredQuiet, Calling, At, DeleteRequest
<1>22. CASE RetireBegin
   BY <1>22 DEF TypeOK, Library, Goroutine, Idle, RetiredQuiet, Calling, At, RetireBegin,
      RetireTo
<1>23. CASE RetireDrain
   BY <1>23 DEF TypeOK, Library, Goroutine, Idle, RetiredQuiet, Calling, At, RetireDrain
<1>24. CASE RetireDrained
   BY <1>24 DEF TypeOK, Library, Goroutine, Idle, RetiredQuiet, Calling, At, RetireDrained,
      RetireTo, CallHoldsEntry, PermitHolds, WorkOwned
<1>25. CASE RetireRows
   BY <1>25 DEF TypeOK, Library, Goroutine, Idle, RetiredQuiet, Calling, At, RetireRows,
      RetireTo, NoRow
<1>26. CASE RetireFinalize
   BY <1>26 DEF TypeOK, Library, Goroutine, Idle, RetiredQuiet, Calling, At, RetireFinalize,
      RetireTo
<1>27. CASE UNCHANGED vars
   BY <1>27 DEF TypeOK, Library, Goroutine, Idle, RetiredQuiet, Calling, At, vars
<1>. QED
   BY <1>1, <1>2, <1>3, <1>4, <1>5, <1>6, <1>7, <1>8, <1>9, <1>10, <1>11, <1>12, <1>13,
      <1>14, <1>15, <1>16, <1>17, <1>18, <1>19, <1>20, <1>21, <1>22, <1>23, <1>24, <1>25,
      <1>26, <1>27
   DEF Next, Jobs, Observing, GoroutineStep, RetireStep

\* Every step keeps source and configuration under a pending outcome.
LEMMA FrozenStep == TypeOK /\ WorkOwned /\ FrozenWhilePending /\ [Next]_vars => FrozenWhilePending'
<1>. SUFFICES ASSUME TypeOK, WorkOwned, FrozenWhilePending, [Next]_vars
              PROVE  FrozenWhilePending'
   OBVIOUS
<1>1. ASSUME NEW o \in Owners, Register(o) PROVE FrozenWhilePending'
   BY <1>1 DEF TypeOK, LedgerRow, Library, FrozenWhilePending, Pending, SameContext,
      Register
<1>2. ASSUME NEW o \in Owners, Claim(o) PROVE FrozenWhilePending'
   BY <1>2 DEF TypeOK, LedgerRow, Library, FrozenWhilePending, Pending, SameContext, Claim,
      Tokens
<1>3. ASSUME NEW o \in Owners, LeaseLost(o) PROVE FrozenWhilePending'
   BY <1>3 DEF TypeOK, LedgerRow, Library, FrozenWhilePending, Pending, SameContext,
      LeaseLost
<1>4. ASSUME NEW o \in Owners, Cancel(o) PROVE FrozenWhilePending'
   <2>1. RowsKept
      BY <1>4, CancelKeeps
   <2>2. UNCHANGED <<phase, lib, work, claims, observer, proc>>
      BY <1>4 DEF Cancel
   <2>. QED
      BY <2>1, <2>2 DEF TypeOK, FrozenWhilePending, Pending, SameContext, RowsKept
<1>5. ASSUME NEW o \in Owners, Retry(o) PROVE FrozenWhilePending'
   <2>1. RowsKept
      BY <1>5, RetryKeeps
   <2>2. UNCHANGED <<phase, lib, work, claims, observer, proc>>
      BY <1>5 DEF Retry
   <2>. QED
      BY <2>1, <2>2 DEF TypeOK, FrozenWhilePending, Pending, SameContext, RowsKept
<1>6. ASSUME NEW o \in Owners, AdoptStopped(o) PROVE FrozenWhilePending'
   BY <1>6 DEF TypeOK, LedgerRow, Library, FrozenWhilePending, Pending, SameContext,
      AdoptStopped, CancelledRepair
<1>7. ASSUME NEW o \in Owners, SettleStopped(o) PROVE FrozenWhilePending'
   BY <1>7 DEF TypeOK, LedgerRow, Library, FrozenWhilePending, Pending, SameContext,
      SettleStopped
<1>8. ASSUME NEW o \in Owners, StopObserving(o) PROVE FrozenWhilePending'
   BY <1>8 DEF TypeOK, LedgerRow, Library, FrozenWhilePending, Pending, SameContext,
      StopObserving
<1>9. ASSUME NEW o \in Owners, RecoverRuntime(o) PROVE FrozenWhilePending'
   BY <1>9 DEF TypeOK, LedgerRow, Library, FrozenWhilePending, Pending, SameContext,
      RecoverRuntime, Orphaned
<1>10. ASSUME NEW k \in Tokens, Begin(k) PROVE FrozenWhilePending'
   BY <1>10 DEF TypeOK, LedgerRow, Library, FrozenWhilePending, Pending, SameContext, Begin,
      At, Goto, SetPhase, WorkOwned
<1>11. ASSUME NEW k \in Tokens, Enter(k) PROVE FrozenWhilePending'
   BY <1>11 DEF TypeOK, LedgerRow, Library, FrozenWhilePending, Pending, SameContext, Enter,
      At, WorkOwned
<1>12. ASSUME NEW k \in Tokens, Refused(k) PROVE FrozenWhilePending'
   BY <1>12 DEF TypeOK, LedgerRow, Library, FrozenWhilePending, Pending, SameContext,
      Refused, At, Goto, SetPhase, WorkOwned
<1>13. ASSUME NEW k \in Tokens, Settle(k) PROVE FrozenWhilePending'
   BY <1>13 DEF TypeOK, LedgerRow, Library, FrozenWhilePending, Pending, SameContext,
      Settle, At, Goto, SetPhase, WorkOwned
<1>14. ASSUME NEW k \in Tokens, Return(k) PROVE FrozenWhilePending'
   BY <1>14 DEF TypeOK, LedgerRow, Library, FrozenWhilePending, Pending, SameContext,
      Return, At, Goto, SetPhase, WorkOwned
<1>15. ASSUME NEW k \in Tokens, ExitAcknowledged(k) PROVE FrozenWhilePending'
   BY <1>15 DEF TypeOK, LedgerRow, Library, FrozenWhilePending, Pending, SameContext,
      ExitAcknowledged, At, Goto, PermitHolds, WorkOwned
<1>16. ASSUME NEW k \in Tokens, ExitUnacknowledged(k) PROVE FrozenWhilePending'
   BY <1>16 DEF TypeOK, LedgerRow, Library, FrozenWhilePending, Pending, SameContext,
      ExitUnacknowledged, At, Goto, WorkOwned
<1>17. ASSUME NEW k \in Tokens, Finish(k) PROVE FrozenWhilePending'
   <2>1. RowsKept
      BY <1>17, FinishKeeps
   <2>2. UNCHANGED <<phase, lib, claims, observer, proc>> /\ work' = [work EXCEPT ![k] = Idle]
      BY <1>17 DEF Finish
   <2>. QED
      BY <2>1, <2>2 DEF TypeOK, FrozenWhilePending, Pending, SameContext, RowsKept,
         WorkOwned
<1>18. ASSUME NEW source \in BOOLEAN, ChangeContext(source) PROVE FrozenWhilePending'
   BY <1>18, FinalizedRow DEF TypeOK, LedgerRow, Library, FrozenWhilePending, Pending,
      SameContext, ChangeContext, Drained
<1>19. CASE Restart
   BY <1>19 DEF TypeOK, LedgerRow, Library, FrozenWhilePending, Pending, SameContext,
      Restart, Idle
<1>20. CASE Start
   BY <1>20 DEF TypeOK, LedgerRow, Library, FrozenWhilePending, Pending, SameContext, Start
<1>21. CASE DeleteRequest
   BY <1>21 DEF TypeOK, LedgerRow, Library, FrozenWhilePending, Pending, SameContext,
      DeleteRequest
<1>22. CASE RetireBegin
   BY <1>22 DEF TypeOK, LedgerRow, Library, FrozenWhilePending, Pending, SameContext,
      RetireBegin, RetireTo
<1>23. CASE RetireDrain
   BY <1>23 DEF TypeOK, LedgerRow, Library, FrozenWhilePending, Pending, SameContext,
      RetireDrain
<1>24. CASE RetireDrained
   BY <1>24 DEF TypeOK, LedgerRow, Library, FrozenWhilePending, Pending, SameContext,
      RetireDrained, RetireTo
<1>25. CASE RetireRows
   BY <1>25 DEF TypeOK, LedgerRow, Library, FrozenWhilePending, Pending, SameContext,
      RetireRows, RetireTo, NoRow
<1>26. CASE RetireFinalize
   BY <1>26 DEF TypeOK, LedgerRow, Library, FrozenWhilePending, Pending, SameContext,
      RetireFinalize, RetireTo
<1>27. CASE UNCHANGED vars
   BY <1>27 DEF TypeOK, LedgerRow, Library, FrozenWhilePending, Pending, SameContext, vars
<1>. QED
   BY <1>1, <1>2, <1>3, <1>4, <1>5, <1>6, <1>7, <1>8, <1>9, <1>10, <1>11, <1>12, <1>13,
      <1>14, <1>15, <1>16, <1>17, <1>18, <1>19, <1>20, <1>21, <1>22, <1>23, <1>24, <1>25,
      <1>26, <1>27
   DEF Next, Jobs, Observing, GoroutineStep, RetireStep

\* Every step keeps the inductive invariant.
LEMMA InvStep == IInv /\ [Next]_vars => IInv'
BY TypeStep, WorkOwnedStep, DownStep, CallStep, RetiredStep, FrozenStep DEF IInv

-----------------------------------------------------------------------------
(* The theorems                                                              *)

\* In every reachable state the ledger, the jobs and the goroutines have their
\* types, and what the other theorems rest on holds.
THEOREM SpecInv == Spec => []IInv
BY InitInv, InvStep, PTL DEF Spec

\* The ledger, the readiness of the library, the jobs and the goroutines in their
\* external calls keep their types through every transaction, exit and restart.
THEOREM SpecTypeOK == Spec => []TypeOK
<1>1. IInv => TypeOK
   BY DEF IInv
<1>. QED
   BY <1>1, SpecInv, PTL

\* A goroutine that is calling the provider is covered by its own entry until it
\* has left, for any number of claims, crashes and recoveries: what Enter, Settle,
\* quiesce, the recovery of a runtime and the retirement may do to a row.
THEOREM SpecCallHoldsEntry == Spec => []CallHoldsEntry
<1>1. IInv => CallHoldsEntry
   BY DEF IInv
<1>. QED
   BY <1>1, SpecInv, PTL

\* The source and the configuration of a library stay as they were when files
\* were touched whose outcome is unknown: assertCatalogPhysicalScopeDrainedTx
\* before every change of the context.
THEOREM SpecFrozenWhilePending == Spec => []FrozenWhilePending
<1>1. IInv => FrozenWhilePending
   BY DEF IInv
<1>. QED
   BY <1>1, SpecInv, PTL

\* A retirement that has drained the library leaves nobody calling the provider.
THEOREM SpecRetiredQuiet == Spec => []RetiredQuiet
<1>1. IInv => RetiredQuiet
   BY DEF IInv
<1>. QED
   BY <1>1, SpecInv, PTL


\* One step of TaskEntersAlone.
EntersAlone ==
    \A o \in Owners \ Repairs :
        ~Pending(o) /\ Pending(o)' => \A p \in Owners : ~Pending(p)

\* Every step lets a task enter alone or look after its own outcome.
LEMMA EntersAloneStep == IInv /\ [Next]_vars => EntersAlone
<1>. SUFFICES ASSUME TypeOK, WorkOwned, [Next]_vars PROVE EntersAlone
   BY DEF IInv
<1>1. ASSUME NEW o \in Owners, Register(o) PROVE EntersAlone
   BY <1>1 DEF TypeOK, LedgerRow, EntersAlone, Pending, Register
<1>2. ASSUME NEW o \in Owners, Claim(o) PROVE EntersAlone
   BY <1>2 DEF TypeOK, LedgerRow, EntersAlone, Pending, Claim, Tokens
<1>3. ASSUME NEW o \in Owners, LeaseLost(o) PROVE EntersAlone
   BY <1>3 DEF TypeOK, LedgerRow, EntersAlone, Pending, LeaseLost
<1>4. ASSUME NEW o \in Owners, Cancel(o) PROVE EntersAlone
   <2>1. RowsKept
      BY <1>4, CancelKeeps
   <2>2. UNCHANGED <<phase, lib, work, claims, observer, proc>>
      BY <1>4 DEF Cancel
   <2>. QED
      BY <2>1, <2>2 DEF TypeOK, EntersAlone, Pending, RowsKept
<1>5. ASSUME NEW o \in Owners, Retry(o) PROVE EntersAlone
   <2>1. RowsKept
      BY <1>5, RetryKeeps
   <2>2. UNCHANGED <<phase, lib, work, claims, observer, proc>>
      BY <1>5 DEF Retry
   <2>. QED
      BY <2>1, <2>2 DEF TypeOK, EntersAlone, Pending, RowsKept
<1>6. ASSUME NEW o \in Owners, AdoptStopped(o) PROVE EntersAlone
   BY <1>6 DEF TypeOK, LedgerRow, EntersAlone, Pending, AdoptStopped, CancelledRepair
<1>7. ASSUME NEW o \in Owners, SettleStopped(o) PROVE EntersAlone
   BY <1>7 DEF TypeOK, LedgerRow, EntersAlone, Pending, SettleStopped, CancelledRepair
<1>8. ASSUME NEW o \in Owners, StopObserving(o) PROVE EntersAlone
   BY <1>8 DEF TypeOK, LedgerRow, EntersAlone, Pending, StopObserving
<1>9. ASSUME NEW o \in Owners, RecoverRuntime(o) PROVE EntersAlone
   BY <1>9 DEF TypeOK, LedgerRow, EntersAlone, Pending, RecoverRuntime, Orphaned
<1>10. ASSUME NEW k \in Tokens, Begin(k) PROVE EntersAlone
   BY <1>10 DEF TypeOK, LedgerRow, EntersAlone, Pending, Begin, At, Goto, SetPhase,
      WorkOwned
<1>11. ASSUME NEW k \in Tokens, Enter(k) PROVE EntersAlone
   BY <1>11 DEF TypeOK, LedgerRow, EntersAlone, Pending, Enter, At, EntryAllowed, Busy,
      WorkOwned
<1>12. ASSUME NEW k \in Tokens, Refused(k) PROVE EntersAlone
   BY <1>12 DEF TypeOK, LedgerRow, EntersAlone, Pending, Refused, At, Goto, SetPhase,
      WorkOwned
<1>13. ASSUME NEW k \in Tokens, Settle(k) PROVE EntersAlone
   BY <1>13 DEF TypeOK, LedgerRow, EntersAlone, Pending, Settle, At, Goto, SetPhase,
      WorkOwned
<1>14. ASSUME NEW k \in Tokens, Return(k) PROVE EntersAlone
   BY <1>14 DEF TypeOK, LedgerRow, EntersAlone, Pending, Return, At, Goto, SetPhase,
      WorkOwned
<1>15. ASSUME NEW k \in Tokens, ExitAcknowledged(k) PROVE EntersAlone
   BY <1>15 DEF TypeOK, LedgerRow, EntersAlone, Pending, ExitAcknowledged, At, Goto,
      PermitHolds, WorkOwned
<1>16. ASSUME NEW k \in Tokens, ExitUnacknowledged(k) PROVE EntersAlone
   BY <1>16 DEF TypeOK, LedgerRow, EntersAlone, Pending, ExitUnacknowledged, At, Goto,
      WorkOwned
<1>17. ASSUME NEW k \in Tokens, Finish(k) PROVE EntersAlone
   <2>1. RowsKept
      BY <1>17, FinishKeeps
   <2>2. UNCHANGED <<phase, lib, claims, observer, proc>> /\ work' = [work EXCEPT ![k] = Idle]
      BY <1>17 DEF Finish
   <2>. QED
      BY <2>1, <2>2 DEF TypeOK, EntersAlone, Pending, RowsKept, WorkOwned
<1>18. ASSUME NEW source \in BOOLEAN, ChangeContext(source) PROVE EntersAlone
   BY <1>18, FinalizedRow DEF TypeOK, LedgerRow, EntersAlone, Pending, ChangeContext
<1>19. CASE Restart
   BY <1>19 DEF TypeOK, LedgerRow, EntersAlone, Pending, Restart
<1>20. CASE Start
   BY <1>20 DEF TypeOK, LedgerRow, EntersAlone, Pending, Start
<1>21. CASE DeleteRequest
   BY <1>21 DEF TypeOK, LedgerRow, EntersAlone, Pending, DeleteRequest
<1>22. CASE RetireBegin
   BY <1>22 DEF TypeOK, LedgerRow, EntersAlone, Pending, RetireBegin, RetireTo
<1>23. CASE RetireDrain
   BY <1>23 DEF TypeOK, LedgerRow, EntersAlone, Pending, RetireDrain
<1>24. CASE RetireDrained
   BY <1>24 DEF TypeOK, LedgerRow, EntersAlone, Pending, RetireDrained, RetireTo
<1>25. CASE RetireRows
   BY <1>25 DEF TypeOK, LedgerRow, EntersAlone, Pending, RetireRows, RetireTo, NoRow
<1>26. CASE RetireFinalize
   BY <1>26 DEF TypeOK, LedgerRow, EntersAlone, Pending, RetireFinalize, RetireTo
<1>27. CASE UNCHANGED vars
   BY <1>27 DEF TypeOK, LedgerRow, EntersAlone, Pending, vars
<1>. QED
   BY <1>1, <1>2, <1>3, <1>4, <1>5, <1>6, <1>7, <1>8, <1>9, <1>10, <1>11, <1>12, <1>13,
      <1>14, <1>15, <1>16, <1>17, <1>18, <1>19, <1>20, <1>21, <1>22, <1>23, <1>24, <1>25,
      <1>26, <1>27
   DEF Next, Jobs, Observing, GoroutineStep, RetireStep

\* A task enters only when no other outcome in the library is unknown.
THEOREM SpecTaskEntersAlone == Spec => TaskEntersAlone
<1>1. IInv /\ [Next]_vars => [EntersAlone]_vars
   BY EntersAloneStep
<1>. QED
   BY <1>1, SpecInv, PTL DEF Spec, TaskEntersAlone, EntersAlone

\* One step of OutcomeAccounted.
Accounted ==
    \A o \in Owners :
        Pending(o) /\ ledger'[o].state \notin {"entered", "quiescent"} =>
            \/ \E k \in Tokens : work[k].owner = o /\ Calling(k) /\ LiveLease(k)
            \/ o \in Repairs /\ observer[o] = ledger[o].rev
            \/ lib.retire = "cleaning"

\* Every step settles an outcome only through whoever accounts for it.
LEMMA AccountedStep == IInv /\ [Next]_vars => Accounted
<1>. SUFFICES ASSUME TypeOK, WorkOwned, [Next]_vars PROVE Accounted
   BY DEF IInv
<1>1. ASSUME NEW o \in Owners, Register(o) PROVE Accounted
   BY <1>1 DEF TypeOK, LedgerRow, Accounted, Pending, Register
<1>2. ASSUME NEW o \in Owners, Claim(o) PROVE Accounted
   BY <1>2 DEF TypeOK, LedgerRow, Accounted, Pending, Claim, Tokens
<1>3. ASSUME NEW o \in Owners, LeaseLost(o) PROVE Accounted
   BY <1>3 DEF TypeOK, LedgerRow, Accounted, Pending, LeaseLost
<1>4. ASSUME NEW o \in Owners, Cancel(o) PROVE Accounted
   <2>1. RowsKept
      BY <1>4, CancelKeeps
   <2>2. UNCHANGED <<phase, lib, work, claims, observer, proc>>
      BY <1>4 DEF Cancel
   <2>. QED
      BY <2>1, <2>2 DEF TypeOK, Accounted, Pending, RowsKept
<1>5. ASSUME NEW o \in Owners, Retry(o) PROVE Accounted
   <2>1. RowsKept
      BY <1>5, RetryKeeps
   <2>2. UNCHANGED <<phase, lib, work, claims, observer, proc>>
      BY <1>5 DEF Retry
   <2>. QED
      BY <2>1, <2>2 DEF TypeOK, Accounted, Pending, RowsKept
<1>6. ASSUME NEW o \in Owners, AdoptStopped(o) PROVE Accounted
   BY <1>6 DEF TypeOK, LedgerRow, Accounted, Pending, AdoptStopped, CancelledRepair
<1>7. ASSUME NEW o \in Owners, SettleStopped(o) PROVE Accounted
   BY <1>7 DEF TypeOK, LedgerRow, Accounted, Pending, SettleStopped, CancelledRepair
<1>8. ASSUME NEW o \in Owners, StopObserving(o) PROVE Accounted
   BY <1>8 DEF TypeOK, LedgerRow, Accounted, Pending, StopObserving
<1>9. ASSUME NEW o \in Owners, RecoverRuntime(o) PROVE Accounted
   BY <1>9 DEF TypeOK, LedgerRow, Accounted, Pending, RecoverRuntime
<1>10. ASSUME NEW k \in Tokens, Begin(k) PROVE Accounted
   BY <1>10 DEF TypeOK, LedgerRow, Accounted, Pending, Begin, At, Goto, SetPhase, WorkOwned
<1>11. ASSUME NEW k \in Tokens, Enter(k) PROVE Accounted
   BY <1>11 DEF TypeOK, LedgerRow, Accounted, Pending, Enter, At, WorkOwned
<1>12. ASSUME NEW k \in Tokens, Refused(k) PROVE Accounted
   BY <1>12 DEF TypeOK, LedgerRow, Accounted, Pending, Refused, At, Goto, SetPhase,
      WorkOwned
<1>13. ASSUME NEW k \in Tokens, Settle(k) PROVE Accounted
   BY <1>13 DEF TypeOK, LedgerRow, Accounted, Pending, Settle, At, Goto, SetPhase, Calling,
      WorkOwned
<1>14. ASSUME NEW k \in Tokens, Return(k) PROVE Accounted
   BY <1>14 DEF TypeOK, LedgerRow, Accounted, Pending, Return, At, Goto, SetPhase, WorkOwned
<1>15. ASSUME NEW k \in Tokens, ExitAcknowledged(k) PROVE Accounted
   BY <1>15 DEF TypeOK, LedgerRow, Accounted, Pending, ExitAcknowledged, At, Goto, WorkOwned
<1>16. ASSUME NEW k \in Tokens, ExitUnacknowledged(k) PROVE Accounted
   BY <1>16 DEF TypeOK, LedgerRow, Accounted, Pending, ExitUnacknowledged, At, Goto,
      WorkOwned
<1>17. ASSUME NEW k \in Tokens, Finish(k) PROVE Accounted
   <2>1. RowsKept
      BY <1>17, FinishKeeps
   <2>2. UNCHANGED <<phase, lib, claims, observer, proc>> /\ work' = [work EXCEPT ![k] = Idle]
      BY <1>17 DEF Finish
   <2>. QED
      BY <2>1, <2>2 DEF TypeOK, Accounted, Pending, RowsKept, WorkOwned
<1>18. ASSUME NEW source \in BOOLEAN, ChangeContext(source) PROVE Accounted
   BY <1>18, FinalizedRow DEF TypeOK, LedgerRow, Accounted, Pending, ChangeContext
<1>19. CASE Restart
   BY <1>19 DEF TypeOK, LedgerRow, Accounted, Pending, Restart
<1>20. CASE Start
   BY <1>20 DEF TypeOK, LedgerRow, Accounted, Pending, Start
<1>21. CASE DeleteRequest
   BY <1>21 DEF TypeOK, LedgerRow, Accounted, Pending, DeleteRequest
<1>22. CASE RetireBegin
   BY <1>22 DEF TypeOK, LedgerRow, Accounted, Pending, RetireBegin, RetireTo
<1>23. CASE RetireDrain
   BY <1>23 DEF TypeOK, LedgerRow, Accounted, Pending, RetireDrain
<1>24. CASE RetireDrained
   BY <1>24 DEF TypeOK, LedgerRow, Accounted, Pending, RetireDrained, RetireTo
<1>25. CASE RetireRows
   BY <1>25 DEF TypeOK, LedgerRow, Accounted, Pending, RetireRows, RetireTo, NoRow
<1>26. CASE RetireFinalize
   BY <1>26 DEF TypeOK, LedgerRow, Accounted, Pending, RetireFinalize, RetireTo
<1>27. CASE UNCHANGED vars
   BY <1>27 DEF TypeOK, LedgerRow, Accounted, Pending, vars
<1>. QED
   BY <1>1, <1>2, <1>3, <1>4, <1>5, <1>6, <1>7, <1>8, <1>9, <1>10, <1>11, <1>12, <1>13,
      <1>14, <1>15, <1>16, <1>17, <1>18, <1>19, <1>20, <1>21, <1>22, <1>23, <1>24, <1>25,
      <1>26, <1>27
   DEF Next, Jobs, Observing, GoroutineStep, RetireStep

\* Only the goroutine that entered, under its live lease, an observer of a
\* cancelled repair or the end of the library closes an unknown outcome.
THEOREM SpecOutcomeAccounted == Spec => OutcomeAccounted
<1>1. IInv /\ [Next]_vars => [Accounted]_vars
   BY AccountedStep
<1>. QED
   BY <1>1, SpecInv, PTL DEF Spec, OutcomeAccounted, Accounted
=============================================================================
