--------------------------- MODULE JobQueueProofs ---------------------------
(***************************************************************************)
(* The column invariants of the jobs table, proved for every set of jobs,  *)
(* tokens and policies.                                                    *)
(*                                                                         *)
(* The invariant is a statement about each row by itself plus the          *)
(* uniqueness of leases, and every operation rewrites rows one by one.     *)
(* So the proof is in two layers: a lemma per row transformation says that *)
(* it keeps the row invariant (Kept), and one theorem walks the actions of *)
(* QueueNext and shows which transformation each applies to which row.     *)
(***************************************************************************)
EXTENDS JobQueue, FiniteSetTheorems, TLAPS

RowInv(j, r) ==
    /\ LeaseRow(r)
    /\ IntentRow(j, r)
    /\ ParkedRow(r)
    /\ FinishedRow(r)
    /\ ServedRow(j, r)

\* w may replace r: it is a row, it satisfies the row invariant, and it holds
\* no lease that r did not hold.
Kept(j, w, r) ==
    /\ w \in Row
    /\ RowInv(j, w)
    /\ w.lease \in {r.lease, NoToken}

-----------------------------------------------------------------------------
(* Row transformations *)

\* releaseLease yields a row.
LEMMA ReleaseType ==
    ASSUME NEW r \in Row
    PROVE  ReleaseLease(r) \in Row
BY DEF Row, ReleaseLease

\* Storing the columns of a result yields a row.
LEMMA ResultType ==
    ASSUME NEW r \in Row, NEW st \in Status, NEW fin \in BOOLEAN,
           NEW fails \in 0..CountCap, NEW code \in Codes,
           NEW at \in {NoTime} \cup Nat
    PROVE  [r EXCEPT !.status = st, !.finished = fin, !.fails = fails,
                     !.code = code, !.next = at] \in Row
BY DEF Row

\* The saturating counter stays within its cap.
LEMMA BumpType ==
    ASSUME NEW n \in 0..CountCap
    PROVE  Bump(n) \in 0..CountCap
BY PolicyAssumption DEF Bump, PolicyAssumption

\* A retry time is never NULL.
LEMMA TimeIsNotNull == \A n \in Nat : n # NoTime
BY DEF NoTime

\* The delays a worker may ask for are natural numbers.
LEMMA DelayType == \A d \in 0..MaxDelay : d \in Nat
BY PolicyAssumption DEF PolicyAssumption

\* An intent is never the empty interrupt_status.
LEMMA IntentIsNotEmpty == \A i \in Intents : i # NoIntent
BY DEF Intents, NoIntent

\* closeAttempt yields a row.
LEMMA CloseType ==
    ASSUME NEW r \in Row, NEW code
    PROVE  CloseAttempt(r, code) \in Row
<1>1. r.streak \in 0..CountCap
  BY DEF Row
<1>2. Bump(r.streak) \in 0..CountCap
  BY <1>1, BumpType
<1>3. 0 \in 0..CountCap
  BY PolicyAssumption DEF PolicyAssumption
<1> DEFINE n == IF ~r.open THEN r.streak
                ELSE IF code = "worker_lease_expired"
                  THEN Bump(r.streak) ELSE 0
<1>4. n \in 0..CountCap
  BY <1>1, <1>2, <1>3, Zenon
<1> HIDE DEF n
<1>5. [r EXCEPT !.open = FALSE, !.streak = n] \in Row
  BY <1>4 DEF Row
<1> QED BY <1>5 DEF CloseAttempt, n

\* Advancing the generation keeps the row invariant.
LEMMA CoalesceKept ==
    ASSUME NEW j \in Jobs, NEW r \in Row, RowInv(j, r),
           r.status \in Active
    PROVE  Kept(j, CoalesceRow(r), r)
<1> DEFINE w == CoalesceRow(r)
<1>1. w \in Row
  BY DEF Row, Status, Active, Terminal, Intents, CoalesceRow
<1>2. /\ w.lease = r.lease /\ w.left = r.left /\ w.status = r.status
      /\ w.intr = r.intr /\ w.next = r.next /\ w.origin = r.origin
      /\ w.code = r.code /\ (w.open <=> r.open) /\ (w.asked <=> r.asked)
      /\ (w.asking <=> r.asking) /\ (w.finished <=> r.finished) /\ w.behind
  BY DEF Row, CoalesceRow
<1> HIDE DEF w
<1>3. LeaseRow(w)
  BY <1>2 DEF RowInv, LeaseRow
<1>4. IntentRow(j, w)
  BY <1>2 DEF RowInv, IntentRow
<1>5. ParkedRow(w)
  BY <1>2 DEF RowInv, ParkedRow
<1>6. FinishedRow(w)
  BY <1>2 DEF RowInv, FinishedRow, Terminal
<1>7. ServedRow(j, w)
  BY <1>2 DEF RowInv, ServedRow, Active
<1> QED BY <1>1, <1>2, <1>3, <1>4, <1>5, <1>6, <1>7 DEF Kept, RowInv, w

\* Recording a pause or cancel intent on a running job keeps the row invariant.
LEMMA IntendKept ==
    ASSUME NEW j \in Jobs, NEW r \in Row, RowInv(j, r), NEW intent \in Intents,
           r.status = "running"
    PROVE  Kept(j, IntendRow(r, intent), r)
<1> DEFINE w == IntendRow(r, intent)
<1>1. w \in Row
  BY DEF Row, Status, Active, Terminal, Intents, IntendRow
<1>2. /\ w.lease = r.lease /\ w.left = r.left /\ w.status = r.status
      /\ w.intr = intent /\ w.next = r.next /\ w.origin = r.origin
      /\ w.code = r.code /\ (w.open <=> r.open) /\ w.asked
      /\ (w.asking <=> r.asking) /\ (w.finished <=> r.finished) /\ (w.behind <=> r.behind)
  BY DEF Row, IntendRow
<1> HIDE DEF w
<1>3. LeaseRow(w)
  BY <1>2 DEF RowInv, LeaseRow
<1>4. IntentRow(j, w)
  BY IntentIsNotEmpty, <1>2 DEF RowInv, IntentRow
<1>5. ParkedRow(w)
  BY <1>2 DEF RowInv, ParkedRow
<1>6. FinishedRow(w)
  BY <1>2 DEF RowInv, FinishedRow, Terminal
<1>7. ServedRow(j, w)
  BY <1>2 DEF RowInv, ServedRow
<1> QED BY <1>1, <1>2, <1>3, <1>4, <1>5, <1>6, <1>7 DEF Kept, RowInv, w

\* Queueing a stopped provider job for a pause keeps the row invariant.
LEMMA ProviderPauseKept ==
    ASSUME NEW j \in Jobs, NEW r \in Row, RowInv(j, r),
           r.intr = NoIntent,
           r.status \in {"queued", "retry_wait"}
    PROVE  Kept(j, ProviderIntendRow(r, "paused"), r)
<1> DEFINE w == ProviderIntendRow(r, "paused")
<1>1. w \in Row
  BY ZenonT(40) DEF Row, Status, Active, Terminal, Intents, ProviderIntendRow
<1>2. /\ w.lease = r.lease /\ w.left = r.left /\ w.status = "queued"
      /\ w.intr = "paused" /\ w.next = NoTime /\ w.origin = r.status
      /\ w.code = r.code /\ (w.open <=> r.open) /\ w.asked
      /\ ~w.asking /\ (w.finished <=> r.finished) /\ (w.behind <=> r.behind)
  BY DEF Row, ProviderIntendRow
<1> HIDE DEF w
<1>3. LeaseRow(w)
  BY <1>2 DEF RowInv, LeaseRow
<1>4. IntentRow(j, w)
  BY <1>2 DEF RowInv, IntentRow, NoIntent
<1>5. ParkedRow(w)
  BY <1>2 DEF RowInv, ParkedRow
<1>6. FinishedRow(w)
  BY <1>2 DEF RowInv, FinishedRow, Terminal
<1>7. ServedRow(j, w)
  BY <1>2 DEF RowInv, ServedRow
<1> QED BY <1>1, <1>2, <1>3, <1>4, <1>5, <1>6, <1>7 DEF Kept, RowInv, w

\* Queueing a stopped provider job for a cancel keeps the row invariant,
\* whatever status it is cancelled from.
LEMMA ProviderCancelKept ==
    ASSUME NEW j \in Jobs, NEW r \in Row, RowInv(j, r),
           r.intr = NoIntent,
           r.status \in Status \ {"running"}
    PROVE  Kept(j, [ProviderIntendRow(r, "cancelled") EXCEPT !.finished = FALSE], r)
<1> DEFINE w == [ProviderIntendRow(r, "cancelled") EXCEPT !.finished = FALSE]
<1>1. w \in Row
  <2>1. ProviderIntendRow(r, "cancelled") \in Row
    BY ZenonT(40) DEF Row, Status, Active, Intents, ProviderIntendRow
  <2> QED BY <2>1 DEF Row
<1>2. /\ w.lease = r.lease /\ w.left = r.left /\ w.status = "queued"
      /\ w.intr = "cancelled" /\ w.next = NoTime /\ w.origin = r.status
      /\ w.code = r.code /\ (w.open <=> r.open) /\ w.asked
      /\ ~w.asking /\ ~w.finished /\ (w.behind <=> r.behind)
  BY DEF Row, ProviderIntendRow
<1> HIDE DEF w
<1>3. LeaseRow(w)
  BY <1>2 DEF RowInv, LeaseRow
<1>4. IntentRow(j, w)
  BY <1>2 DEF RowInv, IntentRow, NoIntent
<1>5. ParkedRow(w)
  BY <1>2 DEF RowInv, ParkedRow
<1>6. FinishedRow(w)
  BY <1>2 DEF RowInv, FinishedRow, Terminal
<1>7. ServedRow(j, w)
  BY <1>2 DEF RowInv, ServedRow
<1> QED BY <1>1, <1>2, <1>3, <1>4, <1>5, <1>6, <1>7 DEF Kept, RowInv, w

\* Pausing a local job on the spot keeps the row invariant.
LEMMA LocalPauseKept ==
    ASSUME NEW j \in Jobs, NEW r \in Row, RowInv(j, r),
           r.intr = NoIntent,
           r.status \in {"queued", "retry_wait"}
    PROVE  Kept(j, ReleaseLease([r EXCEPT !.status = "paused"]), r)
<1> DEFINE w == ReleaseLease([r EXCEPT !.status = "paused"])
<1>1. w \in Row
  BY ZenonT(40) DEF Row, Status, Active, Terminal, Intents, ReleaseLease
<1>2. /\ w.lease = NoToken /\ w.left = 0 /\ w.status = "paused"
      /\ w.intr = r.intr /\ w.next = r.next /\ w.origin = r.origin
      /\ w.code = r.code /\ (w.open <=> r.open) /\ (w.asked <=> r.asked)
      /\ (w.asking <=> r.asking) /\ (w.finished <=> r.finished) /\ (w.behind <=> r.behind)
  BY DEF Row, ReleaseLease
<1> HIDE DEF w
<1>3. LeaseRow(w)
  BY <1>2 DEF RowInv, LeaseRow
<1>4. IntentRow(j, w)
  BY <1>2 DEF RowInv, IntentRow
<1>5. ParkedRow(w)
  BY <1>2 DEF RowInv, ParkedRow
<1>6. FinishedRow(w)
  BY <1>2 DEF RowInv, FinishedRow, Terminal
<1>7. ServedRow(j, w)
  BY <1>2 DEF RowInv, ServedRow
<1> QED BY <1>1, <1>2, <1>3, <1>4, <1>5, <1>6, <1>7 DEF Kept, RowInv, w

\* Cancelling a local job on the spot keeps the row invariant.
LEMMA LocalCancelKept ==
    ASSUME NEW j \in Jobs, NEW r \in Row, RowInv(j, r),
           r.intr = NoIntent,
           r.status # "running"
    PROVE  Kept(j, ReleaseLease([r EXCEPT !.status = "cancelled", !.asked = TRUE,
                                       !.finished = TRUE]), r)
<1> DEFINE w == ReleaseLease([r EXCEPT !.status = "cancelled", !.asked = TRUE,
                                       !.finished = TRUE])
<1>1. w \in Row
  BY ZenonT(40) DEF Row, Status, Active, Terminal, Intents, ReleaseLease
<1>2. /\ w.lease = NoToken /\ w.left = 0 /\ w.status = "cancelled"
      /\ w.intr = r.intr /\ w.next = r.next /\ w.origin = r.origin
      /\ w.code = r.code /\ (w.open <=> r.open) /\ w.asked
      /\ (w.asking <=> r.asking) /\ w.finished /\ (w.behind <=> r.behind)
  BY DEF Row, ReleaseLease
<1> HIDE DEF w
<1>3. LeaseRow(w)
  BY <1>2 DEF RowInv, LeaseRow
<1>4. IntentRow(j, w)
  BY <1>2 DEF RowInv, IntentRow
<1>5. ParkedRow(w)
  BY <1>2 DEF RowInv, ParkedRow
<1>6. FinishedRow(w)
  BY <1>2 DEF RowInv, FinishedRow, Terminal
<1>7. ServedRow(j, w)
  BY <1>2 DEF RowInv, ServedRow
<1> QED BY <1>1, <1>2, <1>3, <1>4, <1>5, <1>6, <1>7 DEF Kept, RowInv, w

\* Control(resume) keeps the row invariant.
LEMMA ResumeKept ==
    ASSUME NEW j \in Jobs, NEW r \in Row, RowInv(j, r),
           r.intr = NoIntent,
           r.status = "paused"
    PROVE  Kept(j, ResumeRow(r), r)
<1> DEFINE w == ResumeRow(r)
<1>1. w \in Row
  BY ZenonT(40) DEF Row, Status, Active, Terminal, Intents, ResumeRow
<1>2. /\ w.lease = r.lease /\ w.left = r.left /\ w.status = "queued"
      /\ w.intr = r.intr /\ w.next = NoTime /\ w.origin = r.origin
      /\ w.code = r.code /\ (w.open <=> r.open) /\ (w.asked <=> r.asked)
      /\ (w.asking <=> r.asking) /\ (w.finished <=> r.finished) /\ (w.behind <=> r.behind)
  BY DEF Row, ResumeRow
<1> HIDE DEF w
<1>3. LeaseRow(w)
  BY <1>2 DEF RowInv, LeaseRow
<1>4. IntentRow(j, w)
  BY <1>2 DEF RowInv, IntentRow
<1>5. ParkedRow(w)
  BY <1>2 DEF RowInv, ParkedRow
<1>6. FinishedRow(w)
  BY <1>2 DEF RowInv, FinishedRow, Terminal
<1>7. ServedRow(j, w)
  BY <1>2 DEF RowInv, ServedRow
<1> QED BY <1>1, <1>2, <1>3, <1>4, <1>5, <1>6, <1>7 DEF Kept, RowInv, w

\* Control(retry) keeps the row invariant.
LEMMA RetryKept ==
    ASSUME NEW j \in Jobs, NEW r \in Row, RowInv(j, r),
           r.intr = NoIntent,
           r.status = "failed"
    PROVE  Kept(j, RetryRow(r), r)
<1> DEFINE w == RetryRow(r)
<1>1. w \in Row
  <2>1. 0 \in 0..CountCap
    BY PolicyAssumption DEF PolicyAssumption
  <2> QED BY <2>1, ZenonT(40) DEF Row, Status, Active, RetryRow, Codes
<1>2. /\ w.lease = r.lease /\ w.left = r.left /\ w.status = "queued"
      /\ w.intr = r.intr /\ w.next = NoTime /\ w.origin = r.origin
      /\ w.code = "" /\ (w.open <=> r.open) /\ (w.asked <=> r.asked)
      /\ (w.asking <=> r.asking) /\ ~w.finished /\ (w.behind <=> r.behind)
  BY DEF Row, RetryRow, Codes
<1> HIDE DEF w
<1>3. LeaseRow(w)
  BY <1>2 DEF RowInv, LeaseRow
<1>4. IntentRow(j, w)
  BY <1>2 DEF RowInv, IntentRow
<1>5. ParkedRow(w)
  BY <1>2 DEF RowInv, ParkedRow
<1>6. FinishedRow(w)
  BY <1>2 DEF RowInv, FinishedRow, Terminal
<1>7. ServedRow(j, w)
  BY <1>2 DEF RowInv, ServedRow
<1> QED BY <1>1, <1>2, <1>3, <1>4, <1>5, <1>6, <1>7 DEF Kept, RowInv, w

\* Cancelling a retired library's job keeps the row invariant.
LEMMA RetireKept ==
    ASSUME NEW j \in Jobs, NEW r \in Row, RowInv(j, r),
           r.status # "running"
    PROVE  Kept(j, RetireRow(r), r)
<1> DEFINE w == RetireRow(r)
<1>1. w \in Row
  BY DEF Row, Status, Active, Terminal, Intents, RetireRow
<1>2. /\ w.lease = r.lease /\ w.left = 0 /\ w.status = "cancelled"
      /\ w.intr = NoIntent /\ w.next = NoTime /\ w.origin = r.origin
      /\ w.code = r.code /\ (w.open <=> r.open) /\ w.asked
      /\ (w.asking <=> r.asking) /\ w.finished /\ (w.behind <=> r.behind)
  BY DEF Row, RetireRow
<1> HIDE DEF w
<1>3. LeaseRow(w)
  BY <1>2 DEF RowInv, LeaseRow
<1>4. IntentRow(j, w)
  BY <1>2 DEF RowInv, IntentRow
<1>5. ParkedRow(w)
  BY <1>2 DEF RowInv, ParkedRow
<1>6. FinishedRow(w)
  BY <1>2 DEF RowInv, FinishedRow, Terminal
<1>7. ServedRow(j, w)
  BY <1>2 DEF RowInv, ServedRow
<1> QED BY <1>1, <1>2, <1>3, <1>4, <1>5, <1>6, <1>7 DEF Kept, RowInv, w

\* Cancelling a stage of a pipeline keeps the row invariant, from any state.
LEMMA CancelPipelineKept ==
    ASSUME NEW j \in Jobs, NEW r \in Row, RowInv(j, r)
    PROVE  Kept(j, CancelPipelineRow(r), r)
<1> DEFINE w == CancelPipelineRow(r)
<1>1. w \in Row
  <2>1. [r EXCEPT !.status = "cancelled", !.intr = NoIntent, !.asked = TRUE,
                  !.next = NoTime, !.finished = TRUE,
                  !.asking = FALSE] \in Row
    BY DEF Row, Status, Terminal
  <2> QED BY <2>1, ReleaseType, CloseType DEF CancelPipelineRow
<1>2. /\ w.lease = NoToken /\ w.left = 0 /\ w.status = "cancelled"
      /\ w.intr = NoIntent /\ w.next = NoTime /\ w.origin = r.origin
      /\ w.code = r.code /\ ~w.open /\ w.asked
      /\ ~w.asking /\ w.finished /\ (w.behind <=> r.behind)
  BY DEF Row, CancelPipelineRow, CloseAttempt, ReleaseLease
<1> HIDE DEF w
<1>3. LeaseRow(w)
  BY <1>2 DEF RowInv, LeaseRow
<1>4. IntentRow(j, w)
  BY <1>2 DEF RowInv, IntentRow
<1>5. ParkedRow(w)
  BY <1>2 DEF RowInv, ParkedRow
<1>6. FinishedRow(w)
  BY <1>2 DEF RowInv, FinishedRow, Terminal
<1>7. ServedRow(j, w)
  BY <1>2 DEF RowInv, ServedRow
<1> QED BY <1>1, <1>2, <1>3, <1>4, <1>5, <1>6, <1>7 DEF Kept, RowInv, w

\* Stopping a seeding job keeps the row invariant.
LEMMA FinishSeedingKept ==
    ASSUME NEW j \in Jobs, NEW r \in Row, RowInv(j, r),
           j \in Seeding,
           r.status \in {"queued", "retry_wait", "paused"}
    PROVE  Kept(j, FinishSeedingRow(r), r)
<1> DEFINE w == FinishSeedingRow(r)
<1>1. w \in Row
  BY ZenonT(40) DEF Row, Status, Active, Terminal, Intents, FinishSeedingRow, Codes
<1>2. /\ w.lease = r.lease /\ w.left = r.left /\ w.status = "completed"
      /\ w.intr = r.intr /\ w.next = NoTime /\ w.origin = r.origin
      /\ w.code = "" /\ (w.open <=> r.open) /\ (w.asked <=> r.asked)
      /\ (w.asking <=> r.asking) /\ w.finished /\ (w.behind <=> r.behind)
  BY DEF Row, FinishSeedingRow, Codes
<1> HIDE DEF w
<1>3. LeaseRow(w)
  BY <1>2 DEF RowInv, LeaseRow
<1>4. IntentRow(j, w)
  BY <1>2 DEF RowInv, IntentRow
<1>5. ParkedRow(w)
  BY <1>2 DEF RowInv, ParkedRow
<1>6. FinishedRow(w)
  BY <1>2 DEF RowInv, FinishedRow, Terminal
<1>7. ServedRow(j, w)
  BY AttributesAssumption, <1>2 DEF RowInv, ServedRow, AttributesAssumption
<1> QED BY <1>1, <1>2, <1>3, <1>4, <1>5, <1>6, <1>7 DEF Kept, RowInv, w

\* A user's answer keeps the row invariant.
LEMMA RespondKept ==
    ASSUME NEW j \in Jobs, NEW r \in Row, RowInv(j, r),
           r.status = "waiting_user_action"
    PROVE  Kept(j, RespondRow(r), r)
<1> DEFINE w == RespondRow(r)
<1>1. w \in Row
  BY DEF Row, Status, Active, Terminal, Intents, RespondRow
<1>2. /\ w.lease = r.lease /\ w.left = r.left /\ w.status = "queued"
      /\ w.intr = r.intr /\ w.next = r.next /\ w.origin = r.origin
      /\ w.code = r.code /\ (w.open <=> r.open) /\ (w.asked <=> r.asked)
      /\ ~w.asking /\ (w.finished <=> r.finished) /\ (w.behind <=> r.behind)
  BY DEF Row, RespondRow
<1> HIDE DEF w
<1>3. LeaseRow(w)
  BY <1>2 DEF RowInv, LeaseRow
<1>4. IntentRow(j, w)
  BY <1>2 DEF RowInv, IntentRow
<1>5. ParkedRow(w)
  BY <1>2 DEF RowInv, ParkedRow
<1>6. FinishedRow(w)
  BY <1>2 DEF RowInv, FinishedRow, Terminal
<1>7. ServedRow(j, w)
  BY <1>2 DEF RowInv, ServedRow
<1> QED BY <1>1, <1>2, <1>3, <1>4, <1>5, <1>6, <1>7 DEF Kept, RowInv, w

\* A new lane position keeps the row invariant.
LEMMA MoveKept ==
    ASSUME NEW j \in Jobs, NEW r \in Row, RowInv(j, r), NEW p \in Nat
    PROVE  Kept(j, [r EXCEPT !.pos = p], r)
<1> DEFINE w == [r EXCEPT !.pos = p]
<1>1. w \in Row
  BY DEF Row, Status, Active, Terminal, Intents, Row
<1>2. /\ w.lease = r.lease /\ w.left = r.left /\ w.status = r.status
      /\ w.intr = r.intr /\ w.next = r.next /\ w.origin = r.origin
      /\ w.code = r.code /\ (w.open <=> r.open) /\ (w.asked <=> r.asked)
      /\ (w.asking <=> r.asking) /\ (w.finished <=> r.finished) /\ (w.behind <=> r.behind)
  BY DEF Row, Row
<1> HIDE DEF w
<1>3. LeaseRow(w)
  BY <1>2 DEF RowInv, LeaseRow
<1>4. IntentRow(j, w)
  BY <1>2 DEF RowInv, IntentRow
<1>5. ParkedRow(w)
  BY <1>2 DEF RowInv, ParkedRow
<1>6. FinishedRow(w)
  BY <1>2 DEF RowInv, FinishedRow, Terminal
<1>7. ServedRow(j, w)
  BY <1>2 DEF RowInv, ServedRow
<1> QED BY <1>1, <1>2, <1>3, <1>4, <1>5, <1>6, <1>7 DEF Kept, RowInv, w

\* Renewing the lease keeps the row invariant.
LEMMA RenewKept ==
    ASSUME NEW j \in Jobs, NEW r \in Row, RowInv(j, r), NEW n \in Nat,
           r.status = "running"
    PROVE  Kept(j, [r EXCEPT !.left = n], r)
<1> DEFINE w == [r EXCEPT !.left = n]
<1>1. w \in Row
  BY DEF Row, Status, Active, Terminal, Intents, Status
<1>2. /\ w.lease = r.lease /\ w.left = n /\ w.status = r.status
      /\ w.intr = r.intr /\ w.next = r.next /\ w.origin = r.origin
      /\ w.code = r.code /\ (w.open <=> r.open) /\ (w.asked <=> r.asked)
      /\ (w.asking <=> r.asking) /\ (w.finished <=> r.finished) /\ (w.behind <=> r.behind)
  BY DEF Row, Status
<1> HIDE DEF w
<1>3. LeaseRow(w)
  BY <1>2 DEF RowInv, LeaseRow
<1>4. IntentRow(j, w)
  BY <1>2 DEF RowInv, IntentRow
<1>5. ParkedRow(w)
  BY <1>2 DEF RowInv, ParkedRow
<1>6. FinishedRow(w)
  BY <1>2 DEF RowInv, FinishedRow, Terminal
<1>7. ServedRow(j, w)
  BY <1>2 DEF RowInv, ServedRow
<1> QED BY <1>1, <1>2, <1>3, <1>4, <1>5, <1>6, <1>7 DEF Kept, RowInv, w

\* Replacing the checkpoint keeps the row invariant.
LEMMA CheckpointKept ==
    ASSUME NEW j \in Jobs, NEW r \in Row, RowInv(j, r),
           r.status = "running"
    PROVE  Kept(j, [r EXCEPT !.origin = ""], r)
<1> DEFINE w == [r EXCEPT !.origin = ""]
<1>1. w \in Row
  BY DEF Row, Status, Active, Terminal, Intents, Status
<1>2. /\ w.lease = r.lease /\ w.left = r.left /\ w.status = r.status
      /\ w.intr = r.intr /\ w.next = r.next /\ w.origin = ""
      /\ w.code = r.code /\ (w.open <=> r.open) /\ (w.asked <=> r.asked)
      /\ (w.asking <=> r.asking) /\ (w.finished <=> r.finished) /\ (w.behind <=> r.behind)
  BY DEF Row, Status
<1> HIDE DEF w
<1>3. LeaseRow(w)
  BY <1>2 DEF RowInv, LeaseRow
<1>4. IntentRow(j, w)
  BY <1>2 DEF RowInv, IntentRow
<1>5. ParkedRow(w)
  BY <1>2 DEF RowInv, ParkedRow
<1>6. FinishedRow(w)
  BY <1>2 DEF RowInv, FinishedRow, Terminal
<1>7. ServedRow(j, w)
  BY <1>2 DEF RowInv, ServedRow
<1> QED BY <1>1, <1>2, <1>3, <1>4, <1>5, <1>6, <1>7 DEF Kept, RowInv, w

\* Parking a job for a user action keeps the row invariant, with or without an
\* unanswered intent.
LEMMA WaitKept ==
    ASSUME NEW j \in Jobs, NEW r \in Row, RowInv(j, r),
           r.status = "running"
    PROVE  Kept(j, WaitRow(r), r)
<1> DEFINE w == WaitRow(r)
<1>1. w \in Row
  <2>1. [r EXCEPT !.status = "waiting_user_action", !.asking = TRUE,
                      !.origin = ""] \in Row
    BY DEF Row, Status, Active, Terminal, Intents, Codes
  <2> QED BY <2>1, ReleaseType, CloseType DEF WaitRow
<1>2. /\ w.lease = NoToken /\ w.left = 0 /\ w.status = "waiting_user_action"
      /\ w.intr = r.intr /\ w.next = r.next /\ w.origin = ""
      /\ w.code = r.code /\ ~w.open /\ (w.asked <=> r.asked)
      /\ w.asking /\ (w.finished <=> r.finished) /\ (w.behind <=> r.behind)
  BY DEF Row, WaitRow, CloseAttempt, ReleaseLease
<1> HIDE DEF w
<1>3. LeaseRow(w)
  BY <1>2 DEF RowInv, LeaseRow
<1>4. IntentRow(j, w)
  BY <1>2 DEF RowInv, IntentRow
<1>5. ParkedRow(w)
  BY <1>2 DEF RowInv, ParkedRow
<1>6. FinishedRow(w)
  BY <1>2 DEF RowInv, FinishedRow, Terminal
<1>7. ServedRow(j, w)
  BY <1>2 DEF RowInv, ServedRow
<1> QED BY <1>1, <1>2, <1>3, <1>4, <1>5, <1>6, <1>7 DEF Kept, RowInv, w

\* acknowledgeInterruptTx keeps the row invariant: the status becomes the
\* intent, and the lease and the attempt end with it.
LEMMA AcknowledgeKept ==
    ASSUME NEW j \in Jobs, NEW r \in Row, RowInv(j, r),
           r.status = "running",
           r.intr \in Intents
    PROVE  Kept(j, AcknowledgeRow(r), r)
<1> DEFINE w == AcknowledgeRow(r)
<1>1. w \in Row
  <2> DEFINE fin == IF r.intr = "cancelled" THEN TRUE ELSE r.finished
  <2>2. fin \in BOOLEAN
    BY DEF Row
  <2> HIDE DEF fin
  <2>1. [r EXCEPT !.status = r.intr, !.intr = NoIntent, !.asked = FALSE,
                      !.origin = "", !.code = "",
                      !.finished = fin] \in Row
    BY <2>2, ZenonT(40) DEF Row, Status, Active, Terminal, Intents, Codes
  <2> QED BY <2>1, ReleaseType, CloseType DEF AcknowledgeRow, fin
<1>2. /\ w.lease = NoToken /\ w.left = 0 /\ w.status = r.intr
      /\ w.intr = NoIntent /\ w.next = r.next /\ w.origin = ""
      /\ w.code = "" /\ ~w.open /\ ~w.asked
      /\ (w.asking <=> r.asking) /\ (w.finished <=> (r.intr = "cancelled" \/ r.finished)) /\ (w.behind <=> r.behind)
  BY DEF Row, AcknowledgeRow, CloseAttempt, ReleaseLease
<1> HIDE DEF w
<1>3. LeaseRow(w)
  BY <1>2 DEF RowInv, LeaseRow, Intents
<1>4. IntentRow(j, w)
  BY <1>2 DEF RowInv, IntentRow
<1>5. ParkedRow(w)
  BY <1>2 DEF RowInv, ParkedRow, Intents
<1>6. FinishedRow(w)
  BY <1>2 DEF RowInv, FinishedRow, Terminal, Intents
<1>7. ServedRow(j, w)
  BY <1>2 DEF RowInv, ServedRow, Intents
<1> QED BY <1>1, <1>2, <1>3, <1>4, <1>5, <1>6, <1>7 DEF Kept, RowInv, w

\* A refused control on a job that was running keeps the row invariant.
LEMMA RejectRunningKept ==
    ASSUME NEW j \in Jobs, NEW r \in Row, RowInv(j, r),
           r.status = "running",
           r.origin \notin {"paused", "failed"}
    PROVE  Kept(j, RejectRow(r), r)
<1> DEFINE w == RejectRow(r)
<1>1. w \in Row
  BY DEF Row, Codes, RejectRow
<1>2. /\ w.lease = r.lease /\ w.left = r.left /\ w.status = r.status
      /\ w.intr = NoIntent /\ w.next = r.next /\ w.origin = ""
      /\ w.code = "control_failed" /\ (w.open <=> r.open) /\ ~w.asked
      /\ (w.asking <=> r.asking) /\ (w.finished <=> r.finished) /\ (w.behind <=> r.behind)
  BY DEF Row, RejectRow
<1> HIDE DEF w
<1>3. LeaseRow(w)
  BY <1>2 DEF RowInv, LeaseRow
<1>4. IntentRow(j, w)
  BY <1>2 DEF RowInv, IntentRow
<1>5. ParkedRow(w)
  BY <1>2 DEF RowInv, ParkedRow
<1>6. FinishedRow(w)
  BY <1>2 DEF RowInv, FinishedRow, Terminal
<1>7. ServedRow(j, w)
  BY <1>2 DEF RowInv, ServedRow
<1> QED BY <1>1, <1>2, <1>3, <1>4, <1>5, <1>6, <1>7 DEF Kept, RowInv, w

\* A refused control on a job that was paused or failed puts it back there and
\* keeps the row invariant.
LEMMA RejectRestoreKept ==
    ASSUME NEW j \in Jobs, NEW r \in Row, RowInv(j, r),
           r.status = "running",
           r.origin \in {"paused", "failed"}
    PROVE  Kept(j, RejectRow(r), r)
<1> DEFINE w == RejectRow(r)
<1>1. w \in Row
  <2> DEFINE fin == IF r.origin = "failed" THEN TRUE ELSE r.finished
  <2>2. fin \in BOOLEAN
    BY DEF Row
  <2> HIDE DEF fin
  <2>1. [[r EXCEPT !.intr = NoIntent, !.asked = FALSE, !.origin = "",
                       !.code = "control_failed"]
           EXCEPT !.status = r.origin,
                  !.finished = fin] \in Row
    BY <2>2, ZenonT(40) DEF Row, Status, Active, Terminal, Intents, Codes
  <2> QED BY <2>1, ReleaseType, CloseType DEF RejectRow, fin
<1>2. /\ w.lease = NoToken /\ w.left = 0 /\ w.status = r.origin
      /\ w.intr = NoIntent /\ w.next = r.next /\ w.origin = ""
      /\ w.code = "control_failed" /\ ~w.open /\ ~w.asked
      /\ (w.asking <=> r.asking) /\ (w.finished <=> (r.origin = "failed" \/ r.finished)) /\ (w.behind <=> r.behind)
  BY DEF Row, RejectRow, CloseAttempt, ReleaseLease
<1> HIDE DEF w
<1>3. LeaseRow(w)
  BY <1>2 DEF RowInv, LeaseRow
<1>4. IntentRow(j, w)
  BY <1>2 DEF RowInv, IntentRow
<1>5. ParkedRow(w)
  BY <1>2 DEF RowInv, ParkedRow
<1>6. FinishedRow(w)
  BY <1>2 DEF RowInv, FinishedRow, Terminal
<1>7. ServedRow(j, w)
  BY <1>2 DEF RowInv, ServedRow
<1> QED BY <1>1, <1>2, <1>3, <1>4, <1>5, <1>6, <1>7 DEF Kept, RowInv, w

\* A success keeps the row invariant: a job behind its generation is queued.
LEMMA CompleteKept ==
    ASSUME NEW j \in Jobs, NEW r \in Row, RowInv(j, r),
           r.status = "running",
           r.intr = NoIntent
    PROVE  Kept(j, CompleteRow(r), r)
<1> DEFINE w == CompleteRow(r)
<1>1. w \in Row
  <2> DEFINE st == IF r.behind THEN "queued" ELSE "completed"
             fin == ~r.behind
             fails == IF r.behind THEN 0 ELSE r.fails
  <2>1. fin \in BOOLEAN
    OBVIOUS
  <2>2. fails \in 0..CountCap
    <3>1. 0 \in 0..CountCap
      BY PolicyAssumption DEF PolicyAssumption
    <3>2. r.fails \in 0..CountCap
      BY DEF Row
    <3> QED BY <3>1, <3>2, Zenon
  <2>3. st \in Status
    BY DEF Status, Active, Terminal
  <2>4. "" \in Codes
    BY DEF Codes
  <2>5. NoTime \in {NoTime} \cup Nat
    OBVIOUS
  <2> HIDE DEF st, fin, fails
  <2>6. [r EXCEPT !.status = st, !.finished = fin, !.fails = fails,
                  !.code = "", !.next = NoTime] \in Row
    BY <2>1, <2>2, <2>3, <2>4, <2>5, ResultType
  <2> QED BY <2>6, ReleaseType, CloseType DEF CompleteRow, st, fin, fails
<1>2. /\ w.lease = NoToken /\ w.left = 0 /\ w.status = (IF r.behind THEN "queued" ELSE "completed")
      /\ w.intr = r.intr /\ w.next = NoTime /\ w.origin = r.origin
      /\ w.code = "" /\ ~w.open /\ (w.asked <=> r.asked)
      /\ (w.asking <=> r.asking) /\ (w.finished <=> ~r.behind) /\ (w.behind <=> r.behind)
  BY DEF Row, CompleteRow, CloseAttempt, ReleaseLease
<1> HIDE DEF w
<1>3. LeaseRow(w)
  BY <1>2 DEF RowInv, LeaseRow
<1>4. IntentRow(j, w)
  BY <1>2 DEF RowInv, IntentRow
<1>5. ParkedRow(w)
  BY <1>2 DEF RowInv, ParkedRow
<1>6. FinishedRow(w)
  BY <1>2 DEF RowInv, FinishedRow, Terminal
<1>7. ServedRow(j, w)
  BY <1>2 DEF RowInv, ServedRow
<1> QED BY <1>1, <1>2, <1>3, <1>4, <1>5, <1>6, <1>7 DEF Kept, RowInv, w

\* A failure keeps the row invariant.
LEMMA FailKept ==
    ASSUME NEW j \in Jobs, NEW r \in Row, RowInv(j, r),
           r.status = "running",
           r.intr = NoIntent
    PROVE  Kept(j, FailRow(r), r)
<1> DEFINE w == FailRow(r)
<1>1. w \in Row
  <2>1. [r EXCEPT !.status = "failed", !.finished = TRUE,
                      !.code = "failure", !.next = NoTime] \in Row
    BY ZenonT(40) DEF Row, Status, Active, Terminal, Intents, Codes
  <2> QED BY <2>1, ReleaseType, CloseType DEF FailRow
<1>2. /\ w.lease = NoToken /\ w.left = 0 /\ w.status = "failed"
      /\ w.intr = r.intr /\ w.next = NoTime /\ w.origin = r.origin
      /\ w.code = "failure" /\ ~w.open /\ (w.asked <=> r.asked)
      /\ (w.asking <=> r.asking) /\ w.finished /\ (w.behind <=> r.behind)
  BY DEF Row, FailRow, CloseAttempt, ReleaseLease
<1> HIDE DEF w
<1>3. LeaseRow(w)
  BY <1>2 DEF RowInv, LeaseRow
<1>4. IntentRow(j, w)
  BY <1>2 DEF RowInv, IntentRow
<1>5. ParkedRow(w)
  BY <1>2 DEF RowInv, ParkedRow
<1>6. FinishedRow(w)
  BY <1>2 DEF RowInv, FinishedRow, Terminal
<1>7. ServedRow(j, w)
  BY <1>2 DEF RowInv, ServedRow
<1> QED BY <1>1, <1>2, <1>3, <1>4, <1>5, <1>6, <1>7 DEF Kept, RowInv, w

\* Promoting a due retry keeps the row invariant.
LEMMA PromoteKept ==
    ASSUME NEW j \in Jobs, NEW r \in Row, RowInv(j, r),
           r.status = "retry_wait"
    PROVE  Kept(j, [r EXCEPT !.status = "queued", !.next = NoTime], r)
<1> DEFINE w == [r EXCEPT !.status = "queued", !.next = NoTime]
<1>1. w \in Row
  BY DEF Row, Status, Active, Terminal, Intents, Status
<1>2. /\ w.lease = r.lease /\ w.left = r.left /\ w.status = "queued"
      /\ w.intr = r.intr /\ w.next = NoTime /\ w.origin = r.origin
      /\ w.code = r.code /\ (w.open <=> r.open) /\ (w.asked <=> r.asked)
      /\ (w.asking <=> r.asking) /\ (w.finished <=> r.finished) /\ (w.behind <=> r.behind)
  BY DEF Row, Status
<1> HIDE DEF w
<1>3. LeaseRow(w)
  BY <1>2 DEF RowInv, LeaseRow
<1>4. IntentRow(j, w)
  BY <1>2 DEF RowInv, IntentRow
<1>5. ParkedRow(w)
  BY <1>2 DEF RowInv, ParkedRow
<1>6. FinishedRow(w)
  BY <1>2 DEF RowInv, FinishedRow, Terminal
<1>7. ServedRow(j, w)
  BY <1>2 DEF RowInv, ServedRow
<1> QED BY <1>1, <1>2, <1>3, <1>4, <1>5, <1>6, <1>7 DEF Kept, RowInv, w

\* Recovering an expired lease with an intent pending keeps the row invariant.
LEMMA RecoverIntentKept ==
    ASSUME NEW j \in Jobs, NEW r \in Row, RowInv(j, r),
           r.status = "running",
           r.intr \in Intents
    PROVE  Kept(j, RecoverRow(j, r), r)
<1> DEFINE w == RecoverRow(j, r)
<1>1. w \in Row
  <2>1. [r EXCEPT !.status = "queued", !.next = NoTime,
                      !.code = "worker_interrupt_recovered"] \in Row
    BY DEF Row, Status, Active, Terminal, Intents, Codes
  <2> QED BY <2>1, ReleaseType, CloseType DEF RecoverRow
<1>2. /\ w.lease = NoToken /\ w.left = 0 /\ w.status = "queued"
      /\ w.intr = r.intr /\ w.next = NoTime /\ w.origin = r.origin
      /\ w.code = "worker_interrupt_recovered" /\ ~w.open /\ (w.asked <=> r.asked)
      /\ (w.asking <=> r.asking) /\ (w.finished <=> r.finished) /\ (w.behind <=> r.behind)
  BY DEF Row, RecoverRow, CloseAttempt, ReleaseLease
<1> HIDE DEF w
<1>3. LeaseRow(w)
  BY <1>2 DEF RowInv, LeaseRow
<1>4. IntentRow(j, w)
  BY <1>2 DEF RowInv, IntentRow
<1>5. ParkedRow(w)
  BY <1>2 DEF RowInv, ParkedRow
<1>6. FinishedRow(w)
  BY <1>2 DEF RowInv, FinishedRow, Terminal
<1>7. ServedRow(j, w)
  BY <1>2 DEF RowInv, ServedRow
<1> QED BY <1>1, <1>2, <1>3, <1>4, <1>5, <1>6, <1>7 DEF Kept, RowInv, w

\* Recovering an expired lease without an intent keeps the row invariant,
\* whether the attempts are used up or not.
LEMMA RecoverLostKept ==
    ASSUME NEW j \in Jobs, NEW r \in Row, RowInv(j, r),
           r.status = "running",
           r.intr \notin Intents,
           r.intr = NoIntent
    PROVE  Kept(j, RecoverRow(j, r), r)
<1> DEFINE w == RecoverRow(j, r)
<1>1. w \in Row
  <2> DEFINE st == IF r.streak + 1 >= PolicyOf(j).maxAttempts
                     THEN "failed" ELSE "retry_wait"
  <2> DEFINE at == IF r.streak + 1 >= PolicyOf(j).maxAttempts
                     THEN NoTime ELSE 0
  <2>2. st \in Status
    BY DEF Status, Active, Terminal
  <2>3. at \in {NoTime} \cup Nat
    OBVIOUS
  <2>4. "worker_lease_expired" \in Codes
    BY DEF Codes
  <2> HIDE DEF st, at
  <2>5. [r EXCEPT !.status = st, !.next = at,
                  !.code = "worker_lease_expired",
                  !.intr = NoIntent, !.asked = FALSE] \in Row
    BY <2>2, <2>3, <2>4 DEF Row
  <2> QED BY <2>5, ReleaseType, CloseType DEF RecoverRow, st, at
<1>2. /\ w.lease = NoToken /\ w.left = 0 /\ w.status = (IF r.streak + 1 >= PolicyOf(j).maxAttempts
                    THEN "failed" ELSE "retry_wait")
      /\ w.intr = NoIntent /\ w.next = (IF r.streak + 1 >= PolicyOf(j).maxAttempts
                  THEN NoTime ELSE 0) /\ w.origin = r.origin
      /\ w.code = "worker_lease_expired" /\ ~w.open /\ ~w.asked
      /\ (w.asking <=> r.asking) /\ (w.finished <=> r.finished) /\ (w.behind <=> r.behind)
  BY DEF Row, RecoverRow, CloseAttempt, ReleaseLease
<1> HIDE DEF w
<1>3. LeaseRow(w)
  BY <1>2 DEF RowInv, LeaseRow
<1>4. IntentRow(j, w)
  BY <1>2 DEF RowInv, IntentRow
<1>5. ParkedRow(w)
  BY <1>2 DEF RowInv, ParkedRow, NoTime
<1>6. FinishedRow(w)
  BY <1>2 DEF RowInv, FinishedRow, Terminal
<1>7. ServedRow(j, w)
  BY <1>2 DEF RowInv, ServedRow
<1> QED BY <1>1, <1>2, <1>3, <1>4, <1>5, <1>6, <1>7 DEF Kept, RowInv, w

\* Reopening a job that failed for lost leases keeps the row invariant.
LEMMA ReopenKept ==
    ASSUME NEW j \in Jobs, NEW r \in Row, RowInv(j, r),
           r.status = "failed"
    PROVE  Kept(j, ReopenRow(r), r)
<1> DEFINE w == ReopenRow(r)
<1>1. w \in Row
  BY DEF Row, Status, Active, Terminal, Intents, ReopenRow, ReleaseLease
<1>2. /\ w.lease = NoToken /\ w.left = 0 /\ w.status = "queued"
      /\ w.intr = r.intr /\ w.next = NoTime /\ w.origin = r.origin
      /\ w.code = r.code /\ (w.open <=> r.open) /\ (w.asked <=> r.asked)
      /\ (w.asking <=> r.asking) /\ ~w.finished /\ (w.behind <=> r.behind)
  BY DEF Row, ReopenRow, ReleaseLease
<1> HIDE DEF w
<1>3. LeaseRow(w)
  BY <1>2 DEF RowInv, LeaseRow
<1>4. IntentRow(j, w)
  BY <1>2 DEF RowInv, IntentRow
<1>5. ParkedRow(w)
  BY <1>2 DEF RowInv, ParkedRow
<1>6. FinishedRow(w)
  BY <1>2 DEF RowInv, FinishedRow, Terminal
<1>7. ServedRow(j, w)
  BY <1>2 DEF RowInv, ServedRow
<1> QED BY <1>1, <1>2, <1>3, <1>4, <1>5, <1>6, <1>7 DEF Kept, RowInv, w

\* A retryable failure keeps the row invariant, whether it uses up the retry
\* budget or not.
LEMMA RetryLaterKept ==
    ASSUME NEW j \in Jobs, NEW r \in Row, RowInv(j, r),
           NEW code \in {"", "failure", "credentials_required"}, NEW delay \in Nat,
           r.status = "running",
           r.intr = NoIntent
    PROVE  Kept(j, RetryLaterRow(j, r, code, delay), r)
<1> DEFINE fails == IF ConsumesFailureBudget(code) THEN Bump(r.fails)
                    ELSE r.fails
           out == ConsumesFailureBudget(code) /\ fails >= PolicyOf(j).maxAttempts
           st == IF out THEN "failed" ELSE "retry_wait"
           at == IF out THEN NoTime ELSE delay
           w == RetryLaterRow(j, r, code, delay)
<1>1. /\ fails \in 0..CountCap
      /\ out \in BOOLEAN
      /\ st \in {"failed", "retry_wait"}
      /\ at \in {NoTime} \cup Nat
      /\ st = "retry_wait" => at # NoTime
      /\ out <=> st = "failed"
  <2>1. r.fails \in 0..CountCap
    BY DEF Row
  <2>2. fails \in 0..CountCap
    BY <2>1, BumpType, Zenon
  <2> HIDE DEF fails
  <2>3. out \in BOOLEAN
    OBVIOUS
  <2> HIDE DEF out
  <2>4. delay # NoTime
    BY TimeIsNotNull
  <2> QED BY <2>2, <2>3, <2>4, Zenon
<1>2. w = CloseAttempt(ReleaseLease(
            [r EXCEPT !.status = st, !.finished = out, !.fails = fails,
                      !.code = code, !.next = at]), code)
  BY DEF RetryLaterRow
<1> HIDE DEF fails, out, st, at, w
<1>3. w \in Row
  <2>1. [r EXCEPT !.status = st, !.finished = out, !.fails = fails,
                  !.code = code, !.next = at] \in Row
    <3>1. st \in Status
      BY <1>1 DEF Status, Active, Terminal
    <3>2. code \in Codes
      BY DEF Codes
    <3> QED BY <1>1, <3>1, <3>2, ResultType
  <2> QED BY <2>1, <1>2, ReleaseType, CloseType
<1>4. /\ w.lease = NoToken /\ w.left = 0 /\ w.status = st
      /\ w.intr = r.intr /\ w.next = at /\ w.origin = r.origin
      /\ ~w.open /\ (w.asked <=> r.asked) /\ (w.asking <=> r.asking)
      /\ (w.finished <=> out)
  BY <1>2 DEF Row, CloseAttempt, ReleaseLease
<1>5. LeaseRow(w)
  BY <1>1, <1>4 DEF RowInv, LeaseRow
<1>6. IntentRow(j, w)
  BY <1>1, <1>4 DEF RowInv, IntentRow
<1>7. ParkedRow(w)
  BY <1>1, <1>4 DEF RowInv, ParkedRow
<1>8. FinishedRow(w)
  BY <1>1, <1>4 DEF RowInv, FinishedRow, Terminal
<1>9. ServedRow(j, w)
  BY <1>1, <1>4 DEF RowInv, ServedRow
<1> QED BY <1>3, <1>4, <1>5, <1>6, <1>7, <1>8, <1>9 DEF Kept, RowInv, w

\* The passing of time keeps the row invariant.
LEMMA TickKept ==
    ASSUME NEW j \in Jobs, NEW r \in Row, RowInv(j, r)
    PROVE  Kept(j, [r EXCEPT !.left = Sooner(r.left), !.next = Sooner(r.next)], r)
<1> DEFINE left == Sooner(r.left)
           at == Sooner(r.next)
           w == [r EXCEPT !.left = left, !.next = at]
<1>1. /\ left \in Nat
      /\ r.left = 0 => left = 0
      /\ at \in {NoTime} \cup Nat
      /\ at = NoTime <=> r.next = NoTime
  <2>1. r.left \in Nat /\ r.next \in {NoTime} \cup Nat
    BY DEF Row
  <2> QED BY <2>1 DEF Sooner, NoTime
<1> HIDE DEF left, at
<1>2. w \in Row
  BY <1>1 DEF Row
<1>3. /\ w.lease = r.lease /\ w.left = left /\ w.status = r.status
      /\ w.intr = r.intr /\ w.next = at /\ w.origin = r.origin
      /\ w.code = r.code /\ (w.open <=> r.open) /\ (w.asked <=> r.asked)
      /\ (w.asking <=> r.asking) /\ (w.finished <=> r.finished)
      /\ (w.behind <=> r.behind)
  BY DEF Row
<1> HIDE DEF w
<1>4. LeaseRow(w)
  BY <1>1, <1>3 DEF RowInv, LeaseRow
<1>5. IntentRow(j, w)
  BY <1>3 DEF RowInv, IntentRow
<1>6. ParkedRow(w)
  BY <1>1, <1>3 DEF RowInv, ParkedRow
<1>7. FinishedRow(w)
  BY <1>3 DEF RowInv, FinishedRow
<1>8. ServedRow(j, w)
  BY <1>3 DEF RowInv, ServedRow
<1> QED BY <1>2, <1>3, <1>4, <1>5, <1>6, <1>7, <1>8 DEF Kept, RowInv, w, left, at

-----------------------------------------------------------------------------
(* The table *)

DistinctLeases ==
    \A j, k \in Jobs :
        (j # k /\ job[j].lease = job[k].lease) => job[j].lease = NoToken

\* The inductive invariant.  None of its row parts is inductive alone: that an
\* acknowledged intent leaves a job without lease and retry time needs the
\* lease and parking parts, that Complete may overwrite the row needs the
\* intent part, and so on.
QInv ==
    /\ TypeOK
    /\ \A j \in Jobs : RowInv(j, job[j])
    /\ DistinctLeases

\* A row may replace itself.
LEMMA SelfKept ==
    ASSUME NEW j \in Jobs, NEW r \in Row, RowInv(j, r)
    PROVE  Kept(j, r, r)
BY DEF Kept

\* A step that replaces every row by one that may replace it keeps the
\* invariant.
LEMMA TableKept ==
    ASSUME QInv,
           job' = [k \in Jobs |-> job'[k]],
           \A k \in Jobs : Kept(k, job'[k], job[k]),
           policy' \in [Types -> Policies],
           gate' \subseteq Gated
    PROVE  QInv'
<1>1. TypeOK'
  <2>1. \A k \in Jobs : job'[k] \in Row
    BY DEF Kept
  <2>2. job' \in [Jobs -> Row]
    BY <2>1
  <2> QED BY <2>2 DEF TypeOK
<1>2. \A k \in Jobs : RowInv(k, job'[k])
  BY DEF Kept
<1>3. \A k \in Jobs : job'[k].lease \in {job[k].lease, NoToken}
  BY DEF Kept
<1>4. DistinctLeases'
  BY <1>3 DEF QInv, DistinctLeases
<1> QED BY <1>1, <1>2, <1>4 DEF QInv, RowInv, LeaseRow, IntentRow, ParkedRow,
                                FinishedRow, ServedRow

\* A transaction that rewrites one row keeps the invariant.
LEMMA WriteKept ==
    ASSUME QInv, NEW j \in Jobs, NEW w, Kept(j, w, job[j]), Write(j, w),
           UNCHANGED <<policy, gate>>
    PROVE  QInv'
<1>1. /\ job \in [Jobs -> Row]
      /\ policy \in [Types -> Policies]
      /\ gate \subseteq Gated
      /\ \A k \in Jobs : RowInv(k, job[k])
  BY DEF QInv, TypeOK
<1>2. /\ job' = [k \in Jobs |-> job'[k]]
      /\ job'[j] = w
      /\ \A k \in Jobs \ {j} : job'[k] = job[k]
  BY <1>1 DEF Write
<1>3. \A k \in Jobs : Kept(k, job'[k], job[k])
  BY <1>1, <1>2, SelfKept
<1> QED BY <1>1, <1>2, <1>3, TableKept

\* The rows of the table satisfy the invariant.
LEMMA RowOfTable ==
    ASSUME QInv, NEW j \in Jobs
    PROVE  /\ job[j] \in Row
           /\ RowInv(j, job[j])
           /\ job[j].status \in Status
           /\ job[j].intr \in {NoIntent} \cup Intents
           /\ PolicyOf(j) \in Policies
<1>1. job[j] \in Row
  BY DEF QInv, TypeOK
<1>2. RowInv(j, job[j])
  BY DEF QInv
<1>3. job[j].status \in Status /\ job[j].intr \in {NoIntent} \cup Intents
  BY <1>1 DEF Row
<1>4. PolicyOf(j) \in Policies
  BY AttributesAssumption DEF AttributesAssumption, QInv, TypeOK, PolicyOf
<1> QED BY <1>1, <1>2, <1>3, <1>4

\* A fresh row satisfies the row invariant and holds no lease.
LEMMA NewRowKept ==
    ASSUME QInv, NEW p \in Nat, NEW j \in Jobs
    PROVE  Kept(j, NewRow(p), job[j])
<1> DEFINE b == Cardinality({k \in Jobs : Exists(k)}) + 1
           q == p + 1
           w == NewRow(p)
<1>1. b \in Nat /\ q \in Nat
  <2>1. IsFiniteSet({k \in Jobs : Exists(k)})
    BY JobsAssumption, FS_Subset DEF JobsAssumption
  <2> QED BY <2>1, FS_CardinalityType
<1>2. 0 \in 0..CountCap
  BY PolicyAssumption DEF PolicyAssumption
<1>0. w = [AbsentRow EXCEPT !.status = "queued", !.behind = TRUE, !.pos = q,
                            !.born = b]
  BY DEF NewRow
<1> HIDE DEF b, q, w
<1>3. w = [status |-> "queued", intr |-> NoIntent, asked |-> FALSE,
           lease |-> NoToken, left |-> 0, next |-> NoTime,
           code |-> "", fails |-> 0, streak |-> 0,
           finished |-> FALSE, behind |-> TRUE, open |-> FALSE,
           origin |-> "", asking |-> FALSE, pos |-> q, born |-> b]
  BY <1>0 DEF AbsentRow
<1>4. w \in Row
  BY <1>1, <1>2, <1>3 DEF Row, Status, Active, Codes
<1>5. /\ w.status = "queued" /\ w.intr = NoIntent /\ w.lease = NoToken
      /\ w.left = 0 /\ w.next = NoTime /\ w.origin = "" /\ ~w.asked
      /\ ~w.finished /\ ~w.open /\ ~w.asking
  BY <1>3
<1>6. RowInv(j, w)
  BY <1>5 DEF RowInv, LeaseRow, IntentRow, ParkedRow, FinishedRow, ServedRow
<1> QED BY <1>4, <1>5, <1>6 DEF Kept, w

\* A claimed row satisfies the row invariant and holds the token of the claim.
LEMMA ClaimGood ==
    ASSUME NEW j \in Jobs, NEW r \in Row, RowInv(j, r), r.status = "queued",
           NEW t \in Tokens, PolicyOf(j) \in Policies
    PROVE  /\ ClaimRow(j, r, t) \in Row
           /\ RowInv(j, ClaimRow(j, r, t))
           /\ ClaimRow(j, r, t).lease = t
<1> DEFINE n == PolicyOf(j).leaseTicks
           w == ClaimRow(j, r, t)
<1>1. n \in Nat
  BY PolicyAssumption DEF PolicyAssumption
<1>2. w = [r EXCEPT !.status = "running", !.lease = t, !.left = n,
                    !.behind = FALSE, !.open = TRUE]
  BY DEF ClaimRow
<1> HIDE DEF n, w
<1>3. w \in Row
  BY <1>1, <1>2 DEF Row, Status, Active
<1>4. /\ w.status = "running" /\ w.lease = t /\ w.left = n /\ w.open
      /\ w.intr = r.intr /\ w.next = r.next /\ w.origin = r.origin
      /\ (w.asked <=> r.asked) /\ (w.asking <=> r.asking)
      /\ (w.finished <=> r.finished)
  BY <1>2 DEF Row
<1>5. t # NoToken
  BY TokenAssumption DEF TokenAssumption
<1>6. LeaseRow(w)
  BY <1>4, <1>5 DEF LeaseRow
<1>7. IntentRow(j, w)
  BY <1>4 DEF RowInv, IntentRow
<1>8. ParkedRow(w)
  BY <1>4 DEF RowInv, ParkedRow
<1>9. FinishedRow(w) /\ ServedRow(j, w)
  BY <1>4 DEF RowInv, FinishedRow, ServedRow, Terminal
<1> QED BY <1>3, <1>4, <1>6, <1>7, <1>8, <1>9 DEF RowInv, w

\* The invariant holds in the empty table.
LEMMA InitQInv == QueueInit => QInv
<1> SUFFICES ASSUME QueueInit PROVE QInv
  OBVIOUS
<1>1. AbsentRow \in Row
  <2>1. 0 \in 0..CountCap
    BY PolicyAssumption DEF PolicyAssumption
  <2> QED BY <2>1 DEF AbsentRow, Row, Status, Codes
<1>2. /\ AbsentRow.status = "absent" /\ AbsentRow.intr = NoIntent
      /\ AbsentRow.lease = NoToken /\ AbsentRow.left = 0
      /\ AbsentRow.origin = "" /\ ~AbsentRow.asked /\ ~AbsentRow.open
      /\ ~AbsentRow.asking /\ ~AbsentRow.finished
  BY DEF AbsentRow
<1>3. \A j \in Jobs : RowInv(j, AbsentRow)
  BY <1>2 DEF RowInv, LeaseRow, IntentRow, ParkedRow, FinishedRow, ServedRow
<1>4. TypeOK
  BY <1>1, PolicyAssumption DEF PolicyAssumption, QueueInit, TypeOK
<1>5. \A j \in Jobs : job[j] = AbsentRow
  BY DEF QueueInit
<1> QED BY <1>2, <1>3, <1>4, <1>5 DEF QInv, DistinctLeases

-----------------------------------------------------------------------------
(* The actions *)

\* What a user or a retirement does to a job keeps the invariant.
LEMMA UserKeeps ==
    ASSUME QInv, NEW j \in Jobs, UserStep(j)
    PROVE  QInv'
<1> DEFINE r == job[j]
<1>1. r \in Row /\ RowInv(j, r) /\ r.status \in Status
  BY RowOfTable
<1>2. CASE Enqueue(j)
  <2>1. PICK p \in {0} \cup {job[k].pos : k \in Lane(j)} : Write(j, NewRow(p))
    BY <1>2 DEF Enqueue
  <2>2. \A k \in Lane(j) : job[k].pos \in Nat
    <3>1. \A k \in Lane(j) : job[k] \in Row
      BY RowOfTable DEF Lane
    <3> QED BY <3>1 DEF Row
  <2>3. p \in Nat
    BY <2>2
  <2> QED BY <1>2, <2>1, <2>3, NewRowKept, WriteKept DEF Enqueue
<1>3. CASE Coalesce(j)
  BY <1>1, <1>3, CoalesceKept, WriteKept DEF Coalesce
<1>4. CASE Pause(j)
  <2>1. r.intr = NoIntent /\ r.status \in {"queued", "running", "retry_wait"}
    BY <1>4 DEF Pause, ControlWith
  <2>2. "paused" \in Intents
    BY DEF Intents
  <2>3. Kept(j, PauseRow(j, r), r)
    <3>1. CASE r.status = "running"
      BY <1>1, <2>2, <3>1, IntendKept DEF PauseRow
    <3>2. CASE r.status # "running" /\ j \in ProviderControlled
      BY <1>1, <2>1, <3>2, ProviderPauseKept DEF PauseRow
    <3>3. CASE r.status # "running" /\ j \notin ProviderControlled
      BY <1>1, <2>1, <3>3, LocalPauseKept DEF PauseRow
    <3> QED BY <3>1, <3>2, <3>3
  <2> QED BY <1>4, <2>3, WriteKept DEF Pause, ControlWith
<1>5. CASE Resume(j)
  BY <1>1, <1>5, ResumeKept, WriteKept DEF Resume, ControlWith
<1>6. CASE Cancel(j)
  <2>1. r.intr = NoIntent
    BY <1>6 DEF Cancel, ControlWith
  <2>2. "cancelled" \in Intents
    BY DEF Intents
  <2>3. Kept(j, CancelRow(j, r), r)
    <3>1. CASE r.status = "running"
      BY <1>1, <2>2, <3>1, IntendKept DEF CancelRow
    <3>2. CASE r.status # "running" /\ j \in ProviderControlled
      BY <1>1, <2>1, <3>2, ProviderCancelKept DEF CancelRow
    <3>3. CASE r.status # "running" /\ j \notin ProviderControlled
      BY <1>1, <2>1, <3>3, LocalCancelKept DEF CancelRow
    <3> QED BY <3>1, <3>2, <3>3
  <2> QED BY <1>6, <2>3, WriteKept DEF Cancel, ControlWith
<1>7. CASE Retry(j)
  BY <1>1, <1>7, RetryKept, WriteKept DEF Retry, ControlWith
<1>8. CASE Retire(j)
  <2>1. "cancelled" \in Intents
    BY DEF Intents
  <2>2. Kept(j, RetireRow(r), r)
    <3>1. CASE r.status = "running"
      BY <1>1, <2>1, <3>1, IntendKept DEF RetireRow
    <3>2. CASE r.status # "running"
      BY <1>1, <3>2, RetireKept
    <3> QED BY <3>1, <3>2
  <2> QED BY <1>8, <2>2, WriteKept DEF Retire
<1>9. CASE Respond(j)
  BY <1>1, <1>9, RespondKept, WriteKept DEF Respond
<1>10. CASE Reorder(j)
  <2>1. PICK order \in [QueuedLane(j) -> 1..Cardinality(QueuedLane(j))] :
           job' = [k \in Jobs |->
                     IF k \in QueuedLane(j)
                       THEN [job[k] EXCEPT !.pos = order[k]] ELSE job[k]]
    BY <1>10 DEF Reorder
  <2>2. \A k \in QueuedLane(j) : order[k] \in Nat
    OBVIOUS
  <2>3. \A k \in Jobs : Kept(k, job'[k], job[k])
    <3> SUFFICES ASSUME NEW k \in Jobs PROVE Kept(k, job'[k], job[k])
      OBVIOUS
    <3>1. job[k] \in Row /\ RowInv(k, job[k])
      BY RowOfTable
    <3>2. CASE k \in QueuedLane(j)
      <4>1. job'[k] = [job[k] EXCEPT !.pos = order[k]]
        BY <2>1, <3>2
      <4> QED BY <4>1, <2>2, <3>1, <3>2, MoveKept
    <3>3. CASE k \notin QueuedLane(j)
      BY <2>1, <3>1, <3>3, SelfKept
    <3> QED BY <3>2, <3>3
  <2>4. job' = [k \in Jobs |-> job'[k]]
    BY <2>1
  <2>5. policy' \in [Types -> Policies] /\ gate' \subseteq Gated
    BY <1>10 DEF Reorder, QInv, TypeOK
  <2> QED BY <2>3, <2>4, <2>5, TableKept
<1>11. CASE CancelPipeline(j)
  <2>1. job' = [k \in Jobs |-> IF InPipeline(j, k)
                                 THEN CancelPipelineRow(job[k]) ELSE job[k]]
    BY <1>11 DEF CancelPipeline
  <2>2. ASSUME NEW k \in Jobs PROVE Kept(k, job'[k], job[k])
    <3>1. job[k] \in Row /\ RowInv(k, job[k])
      BY RowOfTable
    <3>2. job'[k] = CancelPipelineRow(job[k]) \/ job'[k] = job[k]
      BY <2>1
    <3> QED BY <3>1, <3>2, CancelPipelineKept, SelfKept
  <2>3. job' = [k \in Jobs |-> job'[k]]
    BY <2>1
  <2>4. policy' \in [Types -> Policies] /\ gate' \subseteq Gated
    BY <1>11 DEF CancelPipeline, QInv, TypeOK
  <2> QED BY <2>2, <2>3, <2>4, TableKept
<1>12. CASE FinishSeeding(j)
  BY <1>1, <1>12, FinishSeedingKept, WriteKept DEF FinishSeeding
<1> QED BY <1>2, <1>3, <1>4, <1>5, <1>6, <1>7, <1>8, <1>9, <1>10, <1>11, <1>12
        DEF UserStep

\* A claim keeps the invariant: the token is fresh.
LEMMA ClaimKeeps ==
    ASSUME QInv, NEW j \in Jobs, NEW t \in Tokens, Claim(j, t)
    PROVE  QInv'
<1> DEFINE w == ClaimRow(j, job[j], t)
<1>1. job[j] \in Row /\ RowInv(j, job[j]) /\ PolicyOf(j) \in Policies
  BY RowOfTable
<1>2. job[j].status = "queued"
  BY DEF Claim, Claimable
<1>3. w \in Row /\ RowInv(j, w) /\ w.lease = t
  BY <1>1, <1>2, ClaimGood
<1> HIDE DEF w
<1>4. /\ job \in [Jobs -> Row]
      /\ job' = [job EXCEPT ![j] = w]
      /\ \A k \in Jobs : job[k].lease # t
      /\ UNCHANGED <<policy, gate>>
  BY DEF QInv, TypeOK, Claim, Write, w
<1>5. job'[j] = w /\ \A k \in Jobs \ {j} : job'[k] = job[k]
  BY <1>4
<1>6. TypeOK'
  BY <1>3, <1>4 DEF QInv, TypeOK
<1>7. \A k \in Jobs : RowInv(k, job'[k])
  BY <1>3, <1>5, RowOfTable
<1>8. DistinctLeases'
  BY <1>3, <1>4, <1>5 DEF QInv, DistinctLeases
<1> QED BY <1>6, <1>7, <1>8 DEF QInv, RowInv, LeaseRow, IntentRow, ParkedRow,
                                FinishedRow, ServedRow

\* A result is stored only in the absence of an intent.
LEMMA FinishKept ==
    ASSUME NEW j \in Jobs, NEW r \in Row, RowInv(j, r), r.status = "running",
           r.intr \in {NoIntent} \cup Intents, NEW w,
           r.intr = NoIntent => Kept(j, w, r)
    PROVE  Kept(j, FinishRow(r, w), r)
<1>1. CASE r.intr = NoIntent
  BY <1>1 DEF FinishRow
<1>2. CASE r.intr # NoIntent
  BY <1>2, AcknowledgeKept DEF FinishRow
<1> QED BY <1>1, <1>2

\* What the holder of a lease does keeps the invariant.
LEMMA HolderKeeps ==
    ASSUME QInv, NEW j \in Jobs, NEW t \in Tokens, HolderStep(j, t)
    PROVE  QInv'
<1> DEFINE r == job[j]
<1>1. r \in Row /\ RowInv(j, r) /\ r.intr \in {NoIntent} \cup Intents
      /\ PolicyOf(j) \in Policies
  BY RowOfTable
<1>2. \A w : Leased(j, t, w) =>
         /\ r.status = "running"
         /\ Write(j, w)
         /\ UNCHANGED <<policy, gate>>
  BY DEF Leased, HoldsLease
<1>3. ASSUME NEW w, Leased(j, t, w), r.status = "running" => Kept(j, w, r)
      PROVE  QInv'
  BY <1>2, <1>3, WriteKept
<1>4. CASE Renew(j, t)
  <2>1. PolicyOf(j).leaseTicks \in Nat
    BY <1>1, PolicyAssumption DEF PolicyAssumption
  <2>2. r.status = "running"
           => Kept(j, [r EXCEPT !.left = PolicyOf(j).leaseTicks], r)
    BY <1>1, <2>1, RenewKept
  <2> QED BY <1>4, <1>3, <2>2 DEF Renew
<1>5. CASE SaveCheckpoint(j, t)
  <2>1. r.status = "running" => Kept(j, [r EXCEPT !.origin = ""], r)
    BY <1>1, CheckpointKept
  <2> QED BY <1>5, <1>3, <2>1 DEF SaveCheckpoint
<1>6. CASE Wait(j, t)
  <2>1. r.status = "running" => Kept(j, WaitRow(r), r)
    BY <1>1, WaitKept
  <2> QED BY <1>6, <1>3, <2>1 DEF Wait
<1>7. CASE AcknowledgeInterrupt(j, t)
  <2> DEFINE w == IF r.intr \in Intents THEN AcknowledgeRow(r) ELSE r
  <2>1. r.status = "running" => Kept(j, w, r)
    <3>1. CASE r.intr \in Intents
      BY <1>1, <3>1, AcknowledgeKept
    <3>2. CASE r.intr \notin Intents
      BY <1>1, <3>2, SelfKept
    <3> QED BY <3>1, <3>2
  <2>2. Leased(j, t, w)
    BY <1>7 DEF AcknowledgeInterrupt
  <2> HIDE DEF w
  <2> QED BY <1>3, <2>1, <2>2
<1>8. CASE \E intent \in Intents : RejectInterrupt(j, t, intent)
  <2>1. PICK intent \in Intents : RejectInterrupt(j, t, intent)
    BY <1>8
  <2> DEFINE w == IF r.intr = intent THEN RejectRow(r) ELSE r
  <2>2. r.status = "running" => Kept(j, w, r)
    <3>1. r.status = "running" => Kept(j, RejectRow(r), r)
      <4>1. CASE r.origin \in {"paused", "failed"}
        BY <1>1, <4>1, RejectRestoreKept
      <4>2. CASE r.origin \notin {"paused", "failed"}
        BY <1>1, <4>2, RejectRunningKept
      <4> QED BY <4>1, <4>2
    <3>2. Kept(j, r, r)
      BY <1>1, SelfKept
    <3> QED BY <3>1, <3>2
  <2>3. Leased(j, t, w)
    BY <2>1 DEF RejectInterrupt
  <2> HIDE DEF w
  <2> QED BY <1>3, <2>2, <2>3
<1>9. CASE Complete(j, t)
  <2>1. r.status = "running" => Kept(j, FinishRow(r, CompleteRow(r)), r)
    BY <1>1, FinishKept, CompleteKept
  <2> QED BY <1>9, <1>3, <2>1 DEF Complete
<1>10. CASE Fail(j, t)
  <2>1. r.status = "running" => Kept(j, FinishRow(r, FailRow(r)), r)
    BY <1>1, FinishKept, FailKept
  <2> QED BY <1>10, <1>3, <2>1 DEF Fail
<1>11. CASE \E code \in {"", "failure", "credentials_required"},
               d \in 0..MaxDelay : RetryLater(j, t, code, d)
  <2>1. PICK code \in {"", "failure", "credentials_required"},
             d \in 0..MaxDelay : RetryLater(j, t, code, d)
    BY <1>11
  <2>2. d \in Nat
    BY DelayType
  <2>3. r.status = "running"
           => Kept(j, FinishRow(r, RetryLaterRow(j, r, code, d)), r)
    BY <1>1, <2>2, FinishKept, RetryLaterKept
  <2> QED BY <2>1, <1>3, <2>3 DEF RetryLater
<1> QED BY <1>4, <1>5, <1>6, <1>7, <1>8, <1>9, <1>10, <1>11 DEF HolderStep

\* A row that may replace one that may replace r may replace r.
LEMMA KeptTwice ==
    ASSUME NEW j, NEW r, NEW v, NEW w, Kept(j, v, r), Kept(j, w, v)
    PROVE  Kept(j, w, r)
BY DEF Kept

\* The recovery transaction keeps the invariant, reopened jobs included.
LEMMA RecoverKeeps ==
    ASSUME QInv, RecoverExpiredLeases
    PROVE  QInv'
<1> DEFINE v(k) == IF Expired(job[k]) THEN RecoverRow(k, job[k]) ELSE job[k]
<1>1. \A k \in Jobs : Kept(k, v(k), job[k])
  <2> SUFFICES ASSUME NEW k \in Jobs PROVE Kept(k, v(k), job[k])
    OBVIOUS
  <2>1. job[k] \in Row /\ RowInv(k, job[k])
        /\ job[k].intr \in {NoIntent} \cup Intents
    BY RowOfTable
  <2>2. CASE Expired(job[k])
    <3>1. job[k].status = "running"
      BY <2>2 DEF Expired
    <3>2. CASE job[k].intr \in Intents
      BY <2>1, <2>2, <3>1, <3>2, RecoverIntentKept
    <3>3. CASE job[k].intr \notin Intents
      BY <2>1, <2>2, <3>1, <3>3, RecoverLostKept
    <3> QED BY <3>2, <3>3
  <2>3. CASE ~Expired(job[k])
    BY <2>1, <2>3, SelfKept
  <2> QED BY <2>2, <2>3
<1>2. job' = [k \in Jobs |-> IF FalseTerminal(k, v(k))
                               THEN ReopenRow(v(k)) ELSE v(k)]
  BY DEF RecoverExpiredLeases, Recovered
<1> HIDE DEF v
<1>3. \A k \in Jobs : Kept(k, job'[k], job[k])
  <2> SUFFICES ASSUME NEW k \in Jobs PROVE Kept(k, job'[k], job[k])
    OBVIOUS
  <2>1. v(k) \in Row /\ RowInv(k, v(k))
    BY <1>1 DEF Kept
  <2>2. CASE FalseTerminal(k, v(k))
    <3>1. v(k).status = "failed"
      BY <2>2 DEF FalseTerminal
    <3>2. Kept(k, ReopenRow(v(k)), v(k))
      BY <2>1, <3>1, ReopenKept
    <3> QED BY <1>1, <1>2, <2>2, <3>2, KeptTwice
  <2>3. CASE ~FalseTerminal(k, v(k))
    BY <1>1, <1>2, <2>3
  <2> QED BY <2>2, <2>3
<1>4. job' = [k \in Jobs |-> job'[k]]
  BY <1>2
<1>5. policy' \in [Types -> Policies] /\ gate' \subseteq Gated
  BY DEF RecoverExpiredLeases, QInv, TypeOK
<1> QED BY <1>3, <1>4, <1>5, TableKept

\* The promotion of due retries and the passing of time keep the invariant.
LEMMA ClockKeeps ==
    ASSUME QInv, PromoteDueRetries \/ Tick
    PROVE  QInv'
<1>1. \A k \in Jobs : job[k] \in Row /\ RowInv(k, job[k])
  BY RowOfTable
<1>2. policy' \in [Types -> Policies] /\ gate' \subseteq Gated
  BY DEF PromoteDueRetries, Tick, QInv, TypeOK
<1>3. CASE PromoteDueRetries
  <2>1. job' = [k \in Jobs |->
                  IF Due(job[k])
                    THEN [job[k] EXCEPT !.status = "queued", !.next = NoTime]
                    ELSE job[k]]
    BY <1>3 DEF PromoteDueRetries
  <2>2. ASSUME NEW k \in Jobs PROVE Kept(k, job'[k], job[k])
    <3>1. CASE Due(job[k])
      <4>1. job[k].status = "retry_wait"
        BY <3>1 DEF Due
      <4>2. job'[k] = [job[k] EXCEPT !.status = "queued", !.next = NoTime]
        BY <2>1, <3>1
      <4> QED BY <1>1, <4>1, <4>2, PromoteKept
    <3>2. CASE ~Due(job[k])
      BY <1>1, <2>1, <3>2, SelfKept
    <3> QED BY <3>1, <3>2
  <2>3. job' = [k \in Jobs |-> job'[k]]
    BY <2>1
  <2> QED BY <1>2, <2>2, <2>3, TableKept
<1>4. CASE Tick
  <2>1. job' = [k \in Jobs |-> [job[k] EXCEPT !.left = Sooner(job[k].left),
                                              !.next = Sooner(job[k].next)]]
    BY <1>4 DEF Tick
  <2>2. ASSUME NEW k \in Jobs PROVE Kept(k, job'[k], job[k])
    <3>1. job'[k] = [job[k] EXCEPT !.left = Sooner(job[k].left),
                                   !.next = Sooner(job[k].next)]
      BY <2>1
    <3> QED BY <1>1, <3>1, TickKept
  <2>3. job' = [k \in Jobs |-> job'[k]]
    BY <2>1
  <2> QED BY <1>2, <2>2, <2>3, TableKept
<1> QED BY <1>3, <1>4

\* Every step of the queue keeps the invariant.
LEMMA NextQInv == QInv /\ [QueueNext]_queueVars => QInv'
<1> SUFFICES ASSUME QInv, [QueueNext]_queueVars PROVE QInv'
  OBVIOUS
<1>1. ASSUME NEW j \in Jobs, UserStep(j) PROVE QInv'
  BY <1>1, UserKeeps
<1>2. ASSUME NEW j \in Jobs, NEW t \in Tokens, Claim(j, t) \/ HolderStep(j, t)
      PROVE  QInv'
  BY <1>2, ClaimKeeps, HolderKeeps
<1>3. ASSUME job' = job, policy' \in [Types -> Policies], gate' \subseteq Gated
      PROVE  QInv'
  BY <1>3 DEF QInv, TypeOK, DistinctLeases, RowInv, LeaseRow, IntentRow,
              ParkedRow, FinishedRow, ServedRow
<1>4. policy \in [Types -> Policies] /\ gate \subseteq Gated
  BY DEF QInv, TypeOK
<1>5. ASSUME NEW ty \in Types, UpdatePolicy(ty) PROVE QInv'
  BY <1>3, <1>4, <1>5 DEF UpdatePolicy
<1>6. CASE PromoteDueRetries \/ Tick
  BY <1>6, ClockKeeps
<1>7. CASE RecoverExpiredLeases
  BY <1>7, RecoverKeeps
<1>8. CASE SetGate
  BY <1>3, <1>4, <1>8 DEF SetGate
<1>9. CASE UNCHANGED queueVars
  BY <1>3, <1>4, <1>9 DEF queueVars
<1> QED BY <1>1, <1>2, <1>5, <1>6, <1>7, <1>8, <1>9 DEF QueueNext

-----------------------------------------------------------------------------
(* The theorems *)

\* The row invariant and the uniqueness of leases hold in every state of the
\* queue, for any jobs, tokens and policies.
THEOREM QueueInvariant == QueueSpec => []QInv
<1> QED BY InitQInv, NextQInv, PTL DEF QueueSpec

\* Every column of the jobs and queue_policies tables stays in its type.
THEOREM TypesHold == QueueSpec => []TypeOK
<1>1. QInv => TypeOK
  BY DEF QInv
<1> QED BY <1>1, QueueInvariant, PTL

\* A row carries a lease and an open attempt exactly while it runs, and no two
\* rows carry the same lease.
THEOREM LeasesMatch == QueueSpec => []LeaseMatchesRunning
<1>1. QInv => LeaseMatchesRunning
  BY DEF QInv, RowInv, DistinctLeases, LeaseMatchesRunning
<1> QED BY <1>1, QueueInvariant, PTL

\* A control intent never rests on a row that no worker can claim.
THEOREM IntentsAnswerable == QueueSpec => []IntentIsAnswerable
<1>1. QInv => IntentIsAnswerable
  BY DEF QInv, RowInv, IntentIsAnswerable
<1> QED BY <1>1, QueueInvariant, PTL

\* No job is parked without the time or the request that gets it going again.
THEOREM NobodyStranded == QueueSpec => []NoStrandedJob
<1>1. QInv => NoStrandedJob
  BY DEF QInv, RowInv, NoStrandedJob
<1> QED BY <1>1, QueueInvariant, PTL

\* finished_at agrees with the status.
THEOREM FinishedAgrees == QueueSpec => []FinishedMeansTerminal
<1>1. QInv => FinishedMeansTerminal
  BY DEF QInv, RowInv, FinishedMeansTerminal
<1> QED BY <1>1, QueueInvariant, PTL

\* A completed job has served the newest generation.
THEOREM LatestServed == QueueSpec => []CompletedServesLatest
<1>1. QInv => CompletedServesLatest
  BY DEF QInv, RowInv, CompletedServesLatest
<1> QED BY <1>1, QueueInvariant, PTL

-----------------------------------------------------------------------------
(* Action properties *)

Done == {"completed", "cancelled"}

\* What a step may do to a row: leave it final, and answer its intent only in
\* the ways IntentIsHonoured lists.
RowStep(k) ==
    /\ job[k].status = "cancelled" => job'[k].status = "cancelled"
    /\ job[k].status = "completed" =>
          \/ job'[k].status = "completed"
          \/ job'[k].status = "cancelled" /\ k \in Downloads
    /\ job[k].intr # NoIntent =>
          /\ job'[k].status # "retry_wait"
          /\ job'[k].status = "completed" => k \in Seeding
          /\ job'[k].intr = NoIntent =>
                \/ job'[k].status \in {job[k].intr, "cancelled"}
                \/ job'[k].code = "control_failed"

\* A row that keeps its status and its intent takes a lawful step.
LEMMA SameRowStep ==
    ASSUME QInv, NEW k \in Jobs, job'[k].status = job[k].status,
           job'[k].intr = job[k].intr
    PROVE  RowStep(k)
<1>1. RowInv(k, job[k])
  BY RowOfTable
<1> QED BY <1>1 DEF RowInv, IntentRow, RowStep

\* A transaction on one row takes lawful steps if it does on that row.
LEMMA WriteStep ==
    ASSUME QInv, NEW j \in Jobs, NEW w, Write(j, w),
           job'[j] = w => RowStep(j)
    PROVE  \A k \in Jobs : RowStep(k)
<1>1. job \in [Jobs -> Row]
  BY DEF QInv, TypeOK
<1>2. job'[j] = w /\ \A k \in Jobs \ {j} : job'[k] = job[k]
  BY <1>1 DEF Write
<1> QED BY <1>2, SameRowStep

\* A row without an intent that is not final may take any step.
LEMMA FreeRowStep ==
    ASSUME NEW j \in Jobs, job[j].intr = NoIntent, job[j].status \notin Done
    PROVE  RowStep(j)
BY DEF RowStep, Done

\* What a user or a retirement does is lawful.
LEMMA UserStepLawful ==
    ASSUME QInv, NEW j \in Jobs, UserStep(j)
    PROVE  \A k \in Jobs : RowStep(k)
<1> DEFINE r == job[j]
<1>1. r \in Row /\ RowInv(j, r)
  BY RowOfTable
<1>2. CASE Enqueue(j)
  <2>1. PICK p : Write(j, NewRow(p))
    BY <1>2 DEF Enqueue
  <2>2. r.status = "absent"
    BY <1>2 DEF Enqueue, Exists
  <2>3. RowStep(j)
    BY <1>1, <2>2, FreeRowStep DEF RowInv, IntentRow, Done
  <2> QED BY <2>1, <2>3, WriteStep
<1>3. CASE Coalesce(j)
  <2>1. CoalesceRow(r).status = r.status /\ CoalesceRow(r).intr = r.intr
    BY <1>1 DEF Row, CoalesceRow
  <2>2. Write(j, CoalesceRow(r))
    BY <1>3 DEF Coalesce
  <2>3. job'[j] = CoalesceRow(r) => RowStep(j)
    BY <2>1, SameRowStep
  <2> QED BY <2>2, <2>3, WriteStep
<1>4. ASSUME NEW from, NEW w, ControlWith(j, from, w), from \cap Done = {}
      PROVE  \A k \in Jobs : RowStep(k)
  BY <1>4, FreeRowStep, WriteStep DEF ControlWith
<1>5. CASE Pause(j)
  BY <1>4, <1>5 DEF Pause, Done
<1>6. CASE Resume(j)
  BY <1>4, <1>6 DEF Resume, Done
<1>7. CASE Cancel(j)
  BY <1>4, <1>7 DEF Cancel, Done
<1>8. CASE Retry(j)
  BY <1>4, <1>8 DEF Retry, Done
<1>9. CASE Retire(j)
  <2> DEFINE w == RetireRow(r)
  <2>1. r.status \notin Done
    <3> SUFFICES ASSUME r.status \in Done PROVE FALSE
      OBVIOUS
    <3>1. r.finished /\ r.intr = NoIntent
      <4>1. j \notin Seeding
        BY <1>9, AttributesAssumption DEF Retire, AttributesAssumption
      <4> QED BY <1>1, <4>1 DEF Done, RowInv, FinishedRow, IntentRow
    <3> QED BY <1>9, <3>1 DEF Retire, Done, Terminal
  <2>2. \/ w.status = "running" /\ w.intr = "cancelled"
        \/ w.status = "cancelled"
    <3>1. CASE r.status = "running"
      BY <1>1, <3>1 DEF Row, RetireRow, IntendRow
    <3>2. CASE r.status # "running"
      BY <1>1, <1>9, <3>2 DEF Row, RetireRow, Retire
    <3> QED BY <3>1, <3>2
  <2>3. Write(j, w)
    BY <1>9 DEF Retire
  <2> HIDE DEF w
  <2>4. job'[j] = w => RowStep(j)
    BY <2>1, <2>2 DEF RowStep, NoIntent, Done
  <2> QED BY <2>3, <2>4, WriteStep
<1>10. CASE Respond(j)
  <2>1. RespondRow(r).status = "queued" /\ RespondRow(r).intr = r.intr
    BY <1>1 DEF Row, RespondRow
  <2>2. r.status = "waiting_user_action" /\ Write(j, RespondRow(r))
    BY <1>10 DEF Respond
  <2>3. job'[j] = RespondRow(r) => RowStep(j)
    BY <2>1, <2>2 DEF RowStep, Done
  <2> QED BY <2>2, <2>3, WriteStep
<1>11. CASE Reorder(j)
  <2> SUFFICES ASSUME NEW k \in Jobs PROVE RowStep(k)
    OBVIOUS
  <2>1. PICK order : job' = [i \in Jobs |->
                     IF i \in QueuedLane(j)
                       THEN [job[i] EXCEPT !.pos = order[i]] ELSE job[i]]
    BY <1>11 DEF Reorder
  <2>2. job[k] \in Row
    BY RowOfTable
  <2>3. job'[k] = [job[k] EXCEPT !.pos = order[k]] \/ job'[k] = job[k]
    BY <2>1
  <2>4. job'[k].status = job[k].status /\ job'[k].intr = job[k].intr
    BY <2>2, <2>3 DEF Row
  <2> QED BY <2>4, SameRowStep
<1>12. CASE CancelPipeline(j)
  <2> SUFFICES ASSUME NEW k \in Jobs PROVE RowStep(k)
    OBVIOUS
  <2>1. job[k] \in Row
    BY RowOfTable
  <2>2. CASE InPipeline(j, k)
    <3>1. job'[k] = CancelPipelineRow(job[k])
      BY <1>12, <2>2 DEF CancelPipeline
    <3>2. job'[k].status = "cancelled"
      BY <2>1, <3>1 DEF Row, CancelPipelineRow, CloseAttempt, ReleaseLease
    <3>3. job[k].status = "completed" => k \in Downloads
      BY <1>12, <2>2 DEF InPipeline, CancelPipeline
    <3> QED BY <3>2, <3>3 DEF RowStep
  <2>3. CASE ~InPipeline(j, k)
    BY <1>12, <2>3, SameRowStep DEF CancelPipeline
  <2> QED BY <2>2, <2>3
<1>13. CASE FinishSeeding(j)
  <2> DEFINE w == FinishSeedingRow(r)
  <2>1. w.status = "completed" /\ w.intr = r.intr
    BY <1>1 DEF Row, FinishSeedingRow
  <2>2. /\ Write(j, w) /\ j \in Seeding
        /\ r.status \in {"queued", "retry_wait", "paused"}
    BY <1>13 DEF FinishSeeding
  <2> HIDE DEF w
  <2>3. job'[j] = w => RowStep(j)
    BY <2>1, <2>2 DEF RowStep
  <2> QED BY <2>2, <2>3, WriteStep
<1> QED BY <1>2, <1>3, <1>5, <1>6, <1>7, <1>8, <1>9, <1>10, <1>11, <1>12, <1>13
        DEF UserStep

\* What a claim does is lawful.
LEMMA ClaimLawful ==
    ASSUME QInv, NEW j \in Jobs, NEW t \in Tokens, Claim(j, t)
    PROVE  \A k \in Jobs : RowStep(k)
<1> DEFINE w == ClaimRow(j, job[j], t)
<1>1. job[j] \in Row
  BY RowOfTable
<1>2. job[j].status = "queued" /\ Write(j, w)
  BY DEF Claim, Claimable
<1>3. w.status = "running" /\ w.intr = job[j].intr
  BY <1>1 DEF Row, ClaimRow
<1> HIDE DEF w
<1>4. job'[j] = w => RowStep(j)
  BY <1>2, <1>3 DEF RowStep, Done
<1> QED BY <1>2, <1>4, WriteStep

\* What the holder of a lease does is lawful: a result never replaces an intent.
LEMMA HolderLawful ==
    ASSUME QInv, NEW j \in Jobs, NEW t \in Tokens, HolderStep(j, t)
    PROVE  \A k \in Jobs : RowStep(k)
<1> DEFINE r == job[j]
<1>1. r \in Row /\ RowInv(j, r) /\ r.intr \in {NoIntent} \cup Intents
  BY RowOfTable
<1>2. r.status = "running"
  BY DEF HolderStep, Renew, SaveCheckpoint, Wait, AcknowledgeInterrupt,
         RejectInterrupt, Complete, Fail, RetryLater, Leased, HoldsLease
<1>3. \/ r.intr = NoIntent
      \/ \E w : /\ Write(j, w)
                /\ \/ w.status \in {"running", "waiting_user_action"}
                      /\ w.intr = r.intr
                   \/ w.status = r.intr /\ r.intr \in Intents
                   \/ /\ w.status \in {"running", "paused", "failed"}
                      /\ w.code = "control_failed"
  <2> SUFFICES ASSUME r.intr # NoIntent
               PROVE  \E w : /\ Write(j, w)
                             /\ \/ w.status \in {"running", "waiting_user_action"}
                                   /\ w.intr = r.intr
                                \/ w.status = r.intr /\ r.intr \in Intents
                                \/ /\ w.status \in {"running", "paused", "failed"}
                                   /\ w.code = "control_failed"
    OBVIOUS
  <2>1. /\ AcknowledgeRow(r).status = r.intr
        /\ r.intr \in Intents
    BY <1>1 DEF Row, AcknowledgeRow, CloseAttempt, ReleaseLease
  <2>2. CASE Renew(j, t)
    <3> DEFINE w == [r EXCEPT !.left = PolicyOf(j).leaseTicks]
    <3>1. w.status = "running" /\ w.intr = r.intr
      BY <1>1, <1>2 DEF Row
    <3> QED BY <2>2, <3>1 DEF Renew, Leased
  <2>3. CASE SaveCheckpoint(j, t)
    <3> DEFINE w == [r EXCEPT !.origin = ""]
    <3>1. w.status = "running" /\ w.intr = r.intr
      BY <1>1, <1>2 DEF Row
    <3> QED BY <2>3, <3>1 DEF SaveCheckpoint, Leased
  <2>4. CASE Wait(j, t)
    <3>1. WaitRow(r).status = "waiting_user_action" /\ WaitRow(r).intr = r.intr
      BY <1>1 DEF Row, WaitRow, CloseAttempt, ReleaseLease
    <3> QED BY <2>4, <3>1 DEF Wait, Leased
  <2>5. CASE AcknowledgeInterrupt(j, t)
    BY <2>1, <2>5 DEF AcknowledgeInterrupt, Leased
  <2>6. CASE \E intent \in Intents : RejectInterrupt(j, t, intent)
    <3>1. PICK intent \in Intents : RejectInterrupt(j, t, intent)
      BY <2>6
    <3>2. CASE r.intr = intent
      <4>1. Write(j, RejectRow(r))
        BY <3>1, <3>2 DEF RejectInterrupt, Leased
      <4>2. RejectRow(r).code = "control_failed"
        BY <1>1 DEF Row, RejectRow, CloseAttempt, ReleaseLease
      <4>3. RejectRow(r).status \in {"running", "paused", "failed"}
        <5>1. CASE r.origin \in {"paused", "failed"}
          BY <1>1, <5>1 DEF Row, RejectRow, CloseAttempt, ReleaseLease
        <5>2. CASE r.origin \notin {"paused", "failed"}
          BY <1>1, <1>2, <5>2 DEF Row, RejectRow
        <5> QED BY <5>1, <5>2
      <4> QED BY <4>1, <4>2, <4>3
    <3>3. CASE r.intr # intent
      BY <1>2, <3>1, <3>3 DEF RejectInterrupt, Leased
    <3> QED BY <3>2, <3>3
  <2>7. CASE \/ Complete(j, t)
             \/ Fail(j, t)
             \/ \E code \in {"", "failure", "credentials_required"},
                   d \in 0..MaxDelay : RetryLater(j, t, code, d)
    <3>1. Write(j, AcknowledgeRow(r))
      BY <2>7 DEF Complete, Fail, RetryLater, Leased, FinishRow
    <3> QED BY <2>1, <3>1
  <2> QED BY <2>2, <2>3, <2>4, <2>5, <2>6, <2>7 DEF HolderStep
<1>4. CASE r.intr = NoIntent
  <2>1. RowStep(j)
    BY <1>2, <1>4, FreeRowStep DEF Done
  <2>2. \E w : Write(j, w)
    BY DEF HolderStep, Renew, SaveCheckpoint, Wait, AcknowledgeInterrupt,
           RejectInterrupt, Complete, Fail, RetryLater, Leased
  <2> QED BY <2>1, <2>2, WriteStep
<1>5. CASE r.intr # NoIntent
  <2>1. PICK w : /\ Write(j, w)
                 /\ \/ w.status \in {"running", "waiting_user_action"}
                       /\ w.intr = r.intr
                    \/ w.status = r.intr /\ r.intr \in Intents
                    \/ /\ w.status \in {"running", "paused", "failed"}
                       /\ w.code = "control_failed"
    BY <1>3, <1>5
  <2>2. job'[j] = w => RowStep(j)
    BY <1>2, <1>5, <2>1 DEF RowStep, Done, Intents
  <2> QED BY <2>1, <2>2, WriteStep
<1> QED BY <1>4, <1>5

\* What the recovery of leases does is lawful.
LEMMA RecoverLawful ==
    ASSUME QInv, RecoverExpiredLeases, NEW k \in Jobs
    PROVE  RowStep(k)
<1> DEFINE r == job[k]
           v == IF Expired(r) THEN RecoverRow(k, r) ELSE r
<1>1. r \in Row /\ RowInv(k, r) /\ r.intr \in {NoIntent} \cup Intents
  BY RowOfTable
<1>2. job'[k] = IF FalseTerminal(k, v) THEN ReopenRow(v) ELSE v
  BY DEF RecoverExpiredLeases, Recovered
<1>3. CASE Expired(r)
  <2>1. r.status = "running"
    BY <1>3 DEF Expired
  <2>2. CASE r.intr = NoIntent
    BY <2>1, <2>2, FreeRowStep DEF Done
  <2>3. CASE r.intr \in Intents
    <3>1. v.status = "queued" /\ v.intr = r.intr
      BY <1>1, <1>3, <2>3 DEF Row, RecoverRow, CloseAttempt, ReleaseLease
    <3> HIDE DEF v
    <3>2. job'[k] = v
      BY <1>2, <3>1 DEF FalseTerminal
    <3> QED BY <2>1, <3>1, <3>2 DEF RowStep, Done
  <2> QED BY <1>1, <2>2, <2>3
<1>4. CASE ~Expired(r)
  <2>1. CASE FalseTerminal(k, r)
    <3>1. r.status = "failed"
      BY <2>1 DEF FalseTerminal
    <3> QED BY <1>1, <3>1, FreeRowStep DEF RowInv, IntentRow, Done
  <2>2. CASE ~FalseTerminal(k, r)
    BY <1>2, <1>4, <2>2, SameRowStep
  <2> QED BY <2>1, <2>2
<1> QED BY <1>3, <1>4

\* Every step is lawful on every row.
LEMMA NextLawful ==
    ASSUME QInv, [QueueNext]_queueVars, NEW k \in Jobs
    PROVE  RowStep(k)
<1>1. ASSUME NEW j \in Jobs, UserStep(j) PROVE RowStep(k)
  BY <1>1, UserStepLawful
<1>2. ASSUME NEW j \in Jobs, NEW t \in Tokens, Claim(j, t) \/ HolderStep(j, t)
      PROVE  RowStep(k)
  BY <1>2, ClaimLawful, HolderLawful
<1>3. job' = job => RowStep(k)
  BY SameRowStep
<1>4. ASSUME NEW ty \in Types, UpdatePolicy(ty) PROVE RowStep(k)
  BY <1>3, <1>4 DEF UpdatePolicy
<1>5. job[k] \in Row /\ RowInv(k, job[k])
  BY RowOfTable
<1>6. CASE PromoteDueRetries
  <2>1. CASE Due(job[k])
    BY <1>5, <2>1, FreeRowStep DEF Due, Done, RowInv, IntentRow
  <2>2. CASE ~Due(job[k])
    BY <1>6, <2>2, SameRowStep DEF PromoteDueRetries
  <2> QED BY <2>1, <2>2
<1>7. CASE RecoverExpiredLeases
  BY <1>7, RecoverLawful
<1>8. CASE Tick
  <2>1. job'[k] = [job[k] EXCEPT !.left = Sooner(job[k].left),
                                 !.next = Sooner(job[k].next)]
    BY <1>8 DEF Tick
  <2>2. job'[k].status = job[k].status /\ job'[k].intr = job[k].intr
    BY <1>5, <2>1 DEF Row
  <2> QED BY <2>2, SameRowStep
<1>9. CASE SetGate \/ UNCHANGED queueVars
  BY <1>3, <1>9 DEF SetGate, queueVars
<1> QED BY <1>1, <1>2, <1>4, <1>6, <1>7, <1>8, <1>9 DEF QueueNext

\* A cancelled job keeps its status forever, and a completed one does unless it
\* is a download whose pipeline is cancelled.
THEOREM TerminalIsFinal == QueueSpec => TerminalStays
<1>1. QInv /\ [QueueNext]_queueVars =>
       [\A j \in Jobs :
          /\ job[j].status = "cancelled" => job'[j].status = "cancelled"
          /\ job[j].status = "completed" =>
                \/ job'[j].status = "completed"
                \/ job'[j].status = "cancelled" /\ j \in Downloads]_queueVars
  BY NextLawful DEF RowStep
<1> QED BY <1>1, QueueInvariant, PTL DEF QueueSpec, TerminalStays

\* An unanswered control intent is never overtaken by a result, and ends only
\* by being carried out, refused or overtaken by a cancellation.
THEOREM IntentsHonoured == QueueSpec => IntentIsHonoured
<1>1. QInv /\ [QueueNext]_queueVars =>
       [\A j \in Jobs : job[j].intr # NoIntent =>
          /\ job'[j].status # "retry_wait"
          /\ job'[j].status = "completed" => j \in Seeding
          /\ job'[j].intr = NoIntent =>
                \/ job'[j].status \in {job[j].intr, "cancelled"}
                \/ job'[j].code = "control_failed"]_queueVars
  BY NextLawful DEF RowStep
<1> QED BY <1>1, QueueInvariant, PTL DEF QueueSpec, IntentIsHonoured

-----------------------------------------------------------------------------
(* Leases come to life by a claim only, and only lost ones give a job up *)

\* What a step other than a claim of its own may do to a row: start no lease, and
\* give it up for a lost one only after enough of them.
LifeStep(k) ==
    /\ Live(job'[k]) => Live(job[k])
    /\ (Expired(job[k]) /\ job'[k].status = "failed")
          => job'[k].streak >= PolicyOf(k).maxAttempts

\* A row that keeps its status and gains no time.
LEMMA SameLife ==
    ASSUME NEW k \in Jobs, job'[k].status = job[k].status,
           job'[k].left > 0 => job[k].left > 0
    PROVE  LifeStep(k)
BY DEF LifeStep, Live, Expired

\* A row that is neither running nor failed afterwards.
LEMMA StoppedLife ==
    ASSUME NEW k \in Jobs, job'[k].status \notin {"running", "failed"}
    PROVE  LifeStep(k)
BY DEF LifeStep, Live

\* A row whose lease is live may become anything.
LEMMA LiveLife ==
    ASSUME NEW k \in Jobs, job[k].status = "running", job[k].left > 0,
           job[k] \in Row
    PROVE  LifeStep(k)
<1>1. job[k].left \in Nat
  BY DEF Row
<1> QED BY <1>1 DEF LifeStep, Live, Expired

\* A transaction on one row starts no lease if it starts none on that row.
LEMMA WriteLife ==
    ASSUME QInv, NEW j \in Jobs, NEW w, Write(j, w), job'[j] = w => LifeStep(j)
    PROVE  \A k \in Jobs : LifeStep(k)
<1>1. job \in [Jobs -> Row]
  BY DEF QInv, TypeOK
<1>2. job'[j] = w /\ \A k \in Jobs \ {j} : job'[k] = job[k]
  BY <1>1 DEF Write
<1> QED BY <1>2, SameLife

\* Users start no lease and give no job up.
LEMMA UserLife ==
    ASSUME QInv, NEW j \in Jobs, UserStep(j)
    PROVE  \A k \in Jobs : LifeStep(k)
<1> DEFINE r == job[j]
           Still(w) == \/ w.status \notin {"running", "failed"}
                       \/ w.status = r.status /\ w.left = r.left
<1>1. r \in Row
  BY RowOfTable
<1>2. ASSUME NEW w, Write(j, w), Still(w) PROVE \A k \in Jobs : LifeStep(k)
  <2>1. job'[j] = w => LifeStep(j)
    BY <1>2, SameLife, StoppedLife
  <2> QED BY <1>2, <2>1, WriteLife
<1>3. CASE Enqueue(j)
  <2>1. PICK p : Write(j, NewRow(p))
    BY <1>3 DEF Enqueue
  <2>2. NewRow(p).status = "queued"
    BY DEF NewRow, AbsentRow
  <2> QED BY <1>2, <2>1, <2>2
<1>4. CASE Coalesce(j)
  <2>1. Still(CoalesceRow(r))
    BY <1>1 DEF Row, CoalesceRow
  <2> QED BY <1>2, <1>4, <2>1 DEF Coalesce
<1>5. CASE Pause(j)
  <2>1. Still(PauseRow(j, r))
    BY <1>1 DEF Row, PauseRow, IntendRow, ProviderIntendRow, ReleaseLease
  <2> QED BY <1>2, <1>5, <2>1 DEF Pause, ControlWith
<1>6. CASE Cancel(j)
  <2>1. Still(CancelRow(j, r))
    BY <1>1 DEF Row, CancelRow, IntendRow, ProviderIntendRow, ReleaseLease
  <2> QED BY <1>2, <1>6, <2>1 DEF Cancel, ControlWith
<1>7. CASE Resume(j) \/ Retry(j)
  <2>1. Still(ResumeRow(r)) /\ Still(RetryRow(r))
    BY <1>1 DEF Row, ResumeRow, RetryRow
  <2> QED BY <1>2, <1>7, <2>1 DEF Resume, Retry, ControlWith
<1>8. CASE Retire(j)
  <2>1. Still(RetireRow(r))
    BY <1>1 DEF Row, RetireRow, IntendRow
  <2> QED BY <1>2, <1>8, <2>1 DEF Retire
<1>9. CASE FinishSeeding(j) \/ Respond(j)
  <2>1. Still(FinishSeedingRow(r)) /\ Still(RespondRow(r))
    BY <1>1 DEF Row, FinishSeedingRow, RespondRow
  <2> QED BY <1>2, <1>9, <2>1 DEF FinishSeeding, Respond
<1>10. CASE CancelPipeline(j)
  <2> SUFFICES ASSUME NEW k \in Jobs PROVE LifeStep(k)
    OBVIOUS
  <2>1. job[k] \in Row
    BY RowOfTable
  <2>2. job'[k] \in {CancelPipelineRow(job[k]), job[k]}
    BY <1>10 DEF CancelPipeline
  <2>3. CancelPipelineRow(job[k]).status = "cancelled"
    BY <2>1 DEF Row, CancelPipelineRow, CloseAttempt, ReleaseLease
  <2> QED BY <2>2, <2>3, SameLife, StoppedLife
<1>11. CASE Reorder(j)
  <2> SUFFICES ASSUME NEW k \in Jobs PROVE LifeStep(k)
    OBVIOUS
  <2>1. PICK order : job' = [i \in Jobs |->
                     IF i \in QueuedLane(j)
                       THEN [job[i] EXCEPT !.pos = order[i]] ELSE job[i]]
    BY <1>11 DEF Reorder
  <2>2. job[k] \in Row
    BY RowOfTable
  <2>3. job'[k] = [job[k] EXCEPT !.pos = order[k]] \/ job'[k] = job[k]
    BY <2>1
  <2>4. job'[k].status = job[k].status /\ job'[k].left = job[k].left
    BY <2>2, <2>3 DEF Row
  <2> QED BY <2>4, SameLife
<1> QED BY <1>3, <1>4, <1>5, <1>6, <1>7, <1>8, <1>9, <1>10, <1>11 DEF UserStep

\* The holder of a lease starts no other one, and its own is not a lost one.
LEMMA HolderLife ==
    ASSUME QInv, NEW j \in Jobs, NEW t \in Tokens, HolderStep(j, t)
    PROVE  \A k \in Jobs : LifeStep(k)
<1>1. job[j] \in Row
  BY RowOfTable
<1>2. job[j].status = "running" /\ job[j].left > 0
  BY DEF HolderStep, Renew, SaveCheckpoint, Wait, AcknowledgeInterrupt,
         RejectInterrupt, Complete, Fail, RetryLater, Leased, HoldsLease
<1>3. \E w : Write(j, w)
  BY DEF HolderStep, Renew, SaveCheckpoint, Wait, AcknowledgeInterrupt,
         RejectInterrupt, Complete, Fail, RetryLater, Leased
<1> QED BY <1>1, <1>2, <1>3, LiveLife, WriteLife

\* A recovered row is given up when the losses in a row, this one included, reach
\* what the policy allows: the attempt was open, so the count is the one compared.
LEMMA GivenUpRow ==
    ASSUME QInv, NEW k \in Jobs, Expired(job[k]),
           RecoverRow(k, job[k]).status = "failed"
    PROVE  RecoverRow(k, job[k]).streak >= PolicyOf(k).maxAttempts
<1> DEFINE r == job[k]
           most == PolicyOf(k).maxAttempts
<1>1. r \in Row /\ RowInv(k, r) /\ r.streak \in 0..CountCap
  BY RowOfTable DEF Row
<1>2. most \in 1..CountCap /\ CountCap \in Nat
  BY PolicyAssumption, AttributesAssumption
     DEF QInv, TypeOK, PolicyOf, PolicyAssumption, AttributesAssumption
<1>3. r.open
  BY <1>1 DEF RowInv, LeaseRow, Expired
<1>4. r.intr \notin Intents
  BY <1>1 DEF Row, RecoverRow, CloseAttempt, ReleaseLease
<1>5. r.streak + 1 >= most
  BY <1>1, <1>4 DEF Row, RecoverRow, CloseAttempt, ReleaseLease
<1>6. RecoverRow(k, r).streak = Bump(r.streak)
  BY <1>1, <1>3, <1>4 DEF Row, RecoverRow, CloseAttempt, ReleaseLease
<1> HIDE DEF r, most
<1>7. Bump(r.streak) >= most
  BY <1>1, <1>2, <1>5 DEF Bump
<1> QED BY <1>6, <1>7 DEF r, most

\* Recovery starts no lease, and gives a job up only after enough losses.
LEMMA RecoverLife ==
    ASSUME QInv, RecoverExpiredLeases, NEW k \in Jobs
    PROVE  LifeStep(k)
<1> DEFINE r == job[k]
           v == IF Expired(r) THEN RecoverRow(k, r) ELSE r
<1>1. r \in Row
  BY RowOfTable
<1>2. job'[k] = IF FalseTerminal(k, v) THEN ReopenRow(v) ELSE v
  BY DEF RecoverExpiredLeases, Recovered
<1>3. CASE FalseTerminal(k, v)
  <2>1. v \in Row
    <3>1. RowInv(k, r) /\ r.intr \in {NoIntent} \cup Intents
      BY RowOfTable
    <3>2. CASE Expired(r) /\ r.intr \in Intents
      BY <1>1, <3>1, <3>2, RecoverIntentKept DEF Kept, Expired
    <3>3. CASE Expired(r) /\ r.intr \notin Intents
      BY <1>1, <3>1, <3>3, RecoverLostKept DEF Kept, Expired
    <3>4. CASE ~Expired(r)
      BY <1>1, <3>4
    <3> QED BY <3>2, <3>3, <3>4
  <2>2. ReopenRow(v).status = "queued"
    BY <2>1 DEF Row, ReopenRow, ReleaseLease
  <2> QED BY <1>2, <1>3, <2>2, StoppedLife
<1>4. CASE ~FalseTerminal(k, v) /\ Expired(r)
  <2>1. job'[k] = RecoverRow(k, r)
    BY <1>2, <1>4
  <2>2. RecoverRow(k, r).status # "running"
    BY <1>1 DEF Row, RecoverRow, CloseAttempt, ReleaseLease
  <2> QED BY <1>4, <2>1, <2>2, GivenUpRow DEF LifeStep, Live
<1>5. CASE ~FalseTerminal(k, v) /\ ~Expired(r)
  BY <1>2, <1>5, SameLife
<1> QED BY <1>3, <1>4, <1>5

\* Every step but a claim starts no lease; a claim starts one, of its own job.
LEMMA NextLife ==
    ASSUME QInv, [QueueNext]_queueVars, NEW k \in Jobs
    PROVE  LifeStep(k) \/ \E t \in Tokens : Claim(k, t)
<1>1. ASSUME NEW j \in Jobs, UserStep(j) PROVE LifeStep(k)
  BY <1>1, UserLife
<1>2. ASSUME NEW j \in Jobs, NEW t \in Tokens, Claim(j, t), j # k PROVE LifeStep(k)
  <2>1. job'[k] = job[k]
    BY <1>2 DEF Claim, Write, QInv, TypeOK
  <2> QED BY <2>1, SameLife
<1>3. ASSUME NEW j \in Jobs, NEW t \in Tokens, HolderStep(j, t) PROVE LifeStep(k)
  BY <1>3, HolderLife
<1>4. job' = job => LifeStep(k)
  BY SameLife
<1>5. ASSUME NEW ty \in Types, UpdatePolicy(ty) PROVE LifeStep(k)
  BY <1>4, <1>5 DEF UpdatePolicy
<1>6. job[k] \in Row /\ job[k].left \in Nat
  BY RowOfTable DEF Row
<1>7. CASE PromoteDueRetries
  <2>1. job'[k] \in {[job[k] EXCEPT !.status = "queued", !.next = NoTime], job[k]}
    BY <1>7 DEF PromoteDueRetries
  <2>2. [job[k] EXCEPT !.status = "queued", !.next = NoTime].status = "queued"
    BY <1>6 DEF Row
  <2> QED BY <2>1, <2>2, SameLife, StoppedLife
<1>8. CASE RecoverExpiredLeases
  BY <1>8, RecoverLife
<1>9. CASE Tick
  <2>1. job'[k] = [job[k] EXCEPT !.left = Sooner(job[k].left),
                                 !.next = Sooner(job[k].next)]
    BY <1>9 DEF Tick
  <2>2. job'[k].status = job[k].status /\ job'[k].left = Sooner(job[k].left)
    BY <1>6, <2>1 DEF Row
  <2>3. Sooner(job[k].left) > 0 => job[k].left > 0
    BY <1>6 DEF Sooner
  <2> QED BY <2>2, <2>3, SameLife
<1>10. CASE SetGate \/ UNCHANGED queueVars
  BY <1>4, <1>10 DEF SetGate, queueVars
<1> QED BY <1>1, <1>2, <1>3, <1>5, <1>7, <1>8, <1>9, <1>10 DEF QueueNext

\* A claim adds its own job to the live ones of any group, and no other.
LEMMA ClaimAddsOne ==
    ASSUME QInv, NEW j \in Jobs, NEW t \in Tokens, Claim(j, t),
           NEW G \in SUBSET Jobs, j \in G
    PROVE  Cardinality({k \in G : Live(job'[k])})
              = Cardinality({k \in G : Live(job[k])}) + 1
<1> DEFINE A == {k \in G : Live(job[k])}
           B == {k \in G : Live(job'[k])}
<1>1. job[j] \in Row /\ job[j].status = "queued" /\ Write(j, ClaimRow(j, job[j], t))
  BY RowOfTable DEF Claim, Claimable
<1>2. /\ job'[j] = ClaimRow(j, job[j], t)
      /\ \A k \in Jobs \ {j} : job'[k] = job[k]
  BY <1>1 DEF Write, QInv, TypeOK
<1>3. PolicyOf(j).leaseTicks \in Nat \ {0}
  BY PolicyAssumption, AttributesAssumption
     DEF QInv, TypeOK, PolicyOf, PolicyAssumption, AttributesAssumption
<1>4. Live(job'[j]) /\ ~Live(job[j])
  <2>1. job'[j].status = "running" /\ job'[j].left = PolicyOf(j).leaseTicks
    BY <1>1, <1>2 DEF ClaimRow, Row
  <2>2. PolicyOf(j).leaseTicks > 0
    BY <1>3
  <2> QED BY <1>1, <2>1, <2>2 DEF Live
<1>5. B = A \cup {j} /\ j \notin A
  BY <1>2, <1>4
<1>6. IsFiniteSet(A)
  BY JobsAssumption, FS_Subset DEF JobsAssumption
<1> HIDE DEF A, B
<1>7. Cardinality(B) = Cardinality(A) + 1
  BY <1>5, <1>6, FS_AddElement
<1> QED BY <1>7 DEF A, B

\* A claim stays within the limits that are in force for the job.
LEMMA ClaimFits ==
    ASSUME QInv, NEW j \in Jobs, NEW t \in Tokens, Claim(j, t)
    PROVE  /\ Cardinality(LiveOfType(JobType[j])') <= PolicyOf(j).concurrency
           /\ (PolicyOf(j).resourceConcurrency > 0 /\ Resource[j] # NoResource)
                 => Cardinality(LiveOnResource(Resource[j])')
                       <= PolicyOf(j).resourceConcurrency
<1>1. /\ PolicyOf(j).concurrency \in Nat
      /\ PolicyOf(j).resourceConcurrency \in Nat
  BY PolicyAssumption, AttributesAssumption
     DEF QInv, TypeOK, PolicyOf, PolicyAssumption, AttributesAssumption
<1>2. ASSUME NEW G \in SUBSET Jobs
      PROVE  Cardinality({k \in G : Live(job[k])}) \in Nat
  <2>1. IsFiniteSet({k \in G : Live(job[k])})
    BY JobsAssumption, FS_Subset DEF JobsAssumption
  <2> QED BY <2>1, FS_CardinalityType
<1>3. Cardinality(LiveOfType(JobType[j])') <= PolicyOf(j).concurrency
  <2> DEFINE G == {k \in Jobs : JobType[k] = JobType[j]}
  <2>1. LiveOfType(JobType[j]) = {k \in G : Live(job[k])}
    BY DEF LiveOfType
  <2>2. LiveOfType(JobType[j])' = {k \in G : Live(job'[k])}
    BY DEF LiveOfType, Live
  <2>3. Cardinality(LiveOfType(JobType[j])) < PolicyOf(j).concurrency
    BY DEF Claim, Claimable
  <2>4. G \in SUBSET Jobs /\ j \in G
    OBVIOUS
  <2> HIDE DEF G
  <2>5. /\ Cardinality({k \in G : Live(job[k])}) \in Nat
        /\ Cardinality({k \in G : Live(job'[k])})
              = Cardinality({k \in G : Live(job[k])}) + 1
    BY <1>2, <2>4, ClaimAddsOne
  <2> QED BY <1>1, <2>1, <2>2, <2>3, <2>5
<1>4. ASSUME PolicyOf(j).resourceConcurrency > 0, Resource[j] # NoResource
      PROVE  Cardinality(LiveOnResource(Resource[j])')
                <= PolicyOf(j).resourceConcurrency
  <2> DEFINE G == {k \in Jobs : Resource[k] = Resource[j]}
  <2>1. LiveOnResource(Resource[j]) = {k \in G : Live(job[k])}
    BY DEF LiveOnResource
  <2>2. LiveOnResource(Resource[j])' = {k \in G : Live(job'[k])}
    BY DEF LiveOnResource, Live
  <2>3. Cardinality(LiveOnResource(Resource[j])) < PolicyOf(j).resourceConcurrency
    BY <1>4 DEF Claim, Claimable
  <2>4. G \in SUBSET Jobs /\ j \in G
    OBVIOUS
  <2> HIDE DEF G
  <2>5. /\ Cardinality({k \in G : Live(job[k])}) \in Nat
        /\ Cardinality({k \in G : Live(job'[k])})
              = Cardinality({k \in G : Live(job[k])}) + 1
    BY <1>2, <2>4, ClaimAddsOne
  <2> QED BY <1>1, <2>1, <2>2, <2>3, <2>5
<1> QED BY <1>3, <1>4

\* No step takes the live leases of a type or a resource above the limit in force
\* for the job it starts, for any number of jobs and any limits.
THEOREM LimitsHold == QueueSpec => CapacityRespected
<1>1. QInv /\ [QueueNext]_queueVars =>
       [\A j \in Jobs : (Live(job[j])' /\ ~Live(job[j])) =>
          /\ Cardinality(LiveOfType(JobType[j])') <= PolicyOf(j).concurrency
          /\ (PolicyOf(j).resourceConcurrency > 0 /\ Resource[j] # NoResource)
                => Cardinality(LiveOnResource(Resource[j])')
                      <= PolicyOf(j).resourceConcurrency]_queueVars
  <2> SUFFICES ASSUME QInv, [QueueNext]_queueVars, NEW j \in Jobs,
                      Live(job[j])', ~Live(job[j])
               PROVE  /\ Cardinality(LiveOfType(JobType[j])') <= PolicyOf(j).concurrency
                      /\ (PolicyOf(j).resourceConcurrency > 0 /\ Resource[j] # NoResource)
                            => Cardinality(LiveOnResource(Resource[j])')
                                  <= PolicyOf(j).resourceConcurrency
    OBVIOUS
  <2>1. Live(job'[j])
    BY DEF Live
  <2>2. PICK t \in Tokens : Claim(j, t)
    BY <2>1, NextLife DEF LifeStep
  <2> QED BY <2>2, ClaimFits
<1> QED BY <1>1, QueueInvariant, PTL DEF QueueSpec, CapacityRespected

\* A job is given up for lost workers only after as many losses in a row as the
\* policy allows.
THEOREM GivenUpFairly == QueueSpec => GivenUpAfterEnoughLosses
<1>1. QInv /\ [QueueNext]_queueVars =>
       [\A j \in Jobs :
          (Expired(job[j]) /\ job'[j].status = "failed")
              => job'[j].streak >= PolicyOf(j).maxAttempts]_queueVars
  <2> SUFFICES ASSUME QInv, [QueueNext]_queueVars, NEW j \in Jobs,
                      Expired(job[j]), job'[j].status = "failed"
               PROVE  job'[j].streak >= PolicyOf(j).maxAttempts
    OBVIOUS
  <2>1. \A t \in Tokens : ~Claim(j, t)
    BY DEF Claim, Claimable, Expired
  <2> QED BY <2>1, NextLife DEF LifeStep
<1> QED BY <1>1, QueueInvariant, PTL DEF QueueSpec, GivenUpAfterEnoughLosses

=============================================================================
