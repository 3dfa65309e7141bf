----------------------- MODULE CatalogSnapshotProofs -----------------------
(***************************************************************************)
(* Proofs about CatalogSnapshot, for any snapshots, rows, owners,          *)
(* configurations and limits: the type invariant, that every read of the   *)
(* head and of a held binding succeeds, that a compaction is exact, and    *)
(* that the layered catalogue implements CatalogView.                      *)
(***************************************************************************)
EXTENDS CatalogSnapshot, SequenceTheorems, TLAPS

\* The layers of the head are different snapshots, none newer than the head.
HeadOrdered ==
    /\ \A j, k \in 1..Len(layers) : layers[j] = layers[k] => j = k
    /\ \A k \in 1..Len(layers) : snap[layers[k]].pub <= head.rev

\* What does not exist yet says nothing.
AbsentEmpty(s) == snap[s].state = "absent" => facts[s] = NoFacts

\* A worker prepares what its purpose says, for the head it read; as long as
\* the head is that one, the rows it read are the rows of the catalogue.
WorkerKnows(s) ==
    Working(s) =>
        /\ snap[s].state \in {"absent"} \cup Preparing
        /\ work[s].rev <= head.rev
        /\ work[s].rev = head.rev => work[s].seen = Visible(layers)
        /\ snap[s].state \in Preparing =>
              /\ snap[s].parent = work[s].rev
              /\ snap[s].kind = KindOf(work[s].purpose)

\* The references of a compaction are those of a live candidate, to published
\* snapshots, and while its worker acts they are the layers it read.
PrefixHeld(s) ==
    prefix[s] # <<>> =>
        /\ snap[s].state \in Preparing
        /\ \A k \in 1..Len(prefix[s]) : snap[prefix[s][k]].state = "published"
        /\ Working(s) => work[s].purpose = "compaction" /\ prefix[s] = work[s].layers

\* A copy of the rows V is done up to the cursor, the batch in the worker's hands
\* is the next one, and the copy is complete when there is none.
CopyOf(V, f, w) ==
    /\ \A r \in Ids \X Vals : f[r[1]] = r[2] <=> r \in V /\ r[1] <= w.after
    /\ w.batch # None =>
          /\ w.batch \in V
          /\ w.after < w.batch[1]
          /\ \A q \in V : w.after < q[1] => w.batch[1] <= q[1]
    /\ w.copied => \A q \in V : q[1] <= w.after

\* A compaction copies the rows of the layers it read, once it has pinned them, and
\* freezes them only when it is done.
CopySound(s) ==
    work[s].purpose = "compaction" =>
        /\ CopyOf(Visible(work[s].layers), facts[s], work[s])
        /\ prefix[s] = <<>> => work[s].after = 0 /\ work[s].batch = None /\ ~work[s].copied
        /\ snap[s].state \in {"validating", "ready"} => work[s].copied

\* A binding names different snapshots that were published under its source, the
\* base first; they are published while it is held, and while they all are they
\* state the rows it captured.
BoundLayer(o, k) ==
    LET s == binding[o].layers[k]
    IN  /\ snap[s].state \in {"published", "gc", "removed"}
        /\ binding[o].held => snap[s].state = "published"
        /\ snap[s].epoch = binding[o].epoch
        /\ snap[s].kind = IF k = 1 THEN "base" ELSE "delta"
        /\ snap[s].pub <= binding[o].rev

BindingSound(o) ==
    binding[o] # None =>
        LET ls == binding[o].layers
        IN  /\ Len(ls) \in 1..(MaxDeltas + 1)
            /\ \A j, k \in 1..Len(ls) : ls[j] = ls[k] => j = k
            /\ \A k \in 1..Len(ls) : BoundLayer(o, k)
            /\ (\A k \in 1..Len(ls) : snap[ls[k]].state = "published")
                  => Visible(ls) = binding[o].rows

\* The inductive invariant.
IInv ==
    /\ TypeOK
    /\ HeadReadable
    /\ HeadOrdered
    /\ \A s \in Snapshots :
          AbsentEmpty(s) /\ WorkerKnows(s) /\ PrefixHeld(s) /\ CopySound(s)
    /\ \A o \in Owners : BindingSound(o)


-----------------------------------------------------------------------------
(* Types                                                                     *)

\* What the updates of the actions make of a row of catalog_snapshots.
LEMMA SnapState ==
    ASSUME NEW r \in SnapshotRows,
           NEW x \in {"absent", "building", "validating", "ready", "published",
                      "abandoned", "gc", "removed"}
    PROVE  /\ [r EXCEPT !.state = x] \in SnapshotRows
           /\ [r EXCEPT !.state = x].state = x
           /\ [r EXCEPT !.state = x].kind = r.kind
           /\ [r EXCEPT !.state = x].parent = r.parent
           /\ [r EXCEPT !.state = x].epoch = r.epoch
           /\ [r EXCEPT !.state = x].config = r.config
           /\ [r EXCEPT !.state = x].pub = r.pub
BY DEF SnapshotRows

\* The columns of a row of catalog_snapshots.
LEMMA SnapFields ==
    ASSUME NEW r \in SnapshotRows
    PROVE  /\ r.parent \in Nat /\ r.epoch \in Nat /\ r.pub \in Nat
           /\ r.config \in Configs /\ r.kind \in {"base", "delta"}
BY DEF SnapshotRows

\* What they make of the memory of a worker.
LEMMA WorkUpdates ==
    ASSUME NEW w \in WorkRows
    PROVE  /\ \A a \in {"held", "lapsed", "gone"} : [w EXCEPT !.auth = a] \in WorkRows
           /\ [w EXCEPT !.copied = TRUE] \in WorkRows
           /\ [w EXCEPT !.validated = TRUE] \in WorkRows
           /\ \A r \in Ids \X Vals : [w EXCEPT !.batch = r] \in WorkRows
           /\ \A n \in Nat : [w EXCEPT !.after = n, !.batch = None] \in WorkRows
BY DEF WorkRows

\* The worker that does not exist, and one that has just read the head.
LEMMA NoWorkType == NoWork \in WorkRows /\ [NoWork EXCEPT !.auth = "lapsed"] \in WorkRows
<1>1. FirstConfig \in Configs
   BY ConfigsAssumption DEF FirstConfig
<1>2. <<>> \in Seq(Snapshots)
   OBVIOUS
<1>3. NoWork \in WorkRows
   BY <1>1, <1>2 DEF NoWork, WorkRows
<1>. QED
   BY <1>3, WorkUpdates

\* The rows anybody sees are rows.
LEMMA VisibleType == ASSUME NEW ls PROVE Visible(ls) \in SUBSET (Ids \X Vals)
BY DEF Visible

\* What publication, a new source and a new configuration make of the head.
LEMMA HeadUpdates ==
    ASSUME NEW h \in [rev : Nat, epoch : Nat, config : Configs], NEW n \in Nat
    PROVE  /\ h.rev \in Nat /\ h.rev + 1 \in Nat /\ h.epoch \in Nat /\ h.config \in Configs
           /\ [h EXCEPT !.rev = n] \in [rev : Nat, epoch : Nat, config : Configs]
           /\ [h EXCEPT !.rev = n].rev = n
           /\ [h EXCEPT !.rev = n].epoch = h.epoch
           /\ [h EXCEPT !.rev = n].config = h.config
           /\ [h EXCEPT !.rev = n, !.epoch = h.epoch + 1]
                 \in [rev : Nat, epoch : Nat, config : Configs]
           /\ [h EXCEPT !.rev = n, !.epoch = h.epoch + 1].rev = n
           /\ [h EXCEPT !.rev = n, !.epoch = h.epoch + 1].epoch = h.epoch + 1
           /\ \A c \in Configs :
                 /\ [h EXCEPT !.rev = n, !.config = c]
                       \in [rev : Nat, epoch : Nat, config : Configs]
                 /\ [h EXCEPT !.rev = n, !.config = c].rev = n
                 /\ [h EXCEPT !.rev = n, !.config = c].epoch = h.epoch
<1>1. h.rev \in Nat /\ h.epoch \in Nat /\ h.config \in Configs
   OBVIOUS
<1>2. h.rev + 1 \in Nat /\ h.epoch + 1 \in Nat
   BY <1>1
<1>. QED
   BY <1>1, <1>2

\* What a worker that begins remembers of the head it read.
LEMMA NewWork ==
    ASSUME NEW p \in {"delta", "base", "compaction"}, TypeOK
    PROVE  [purpose |-> p, rev |-> head.rev, epoch |-> head.epoch,
            config |-> head.config, seen |-> Visible(layers), layers |-> layers,
            after |-> 0, batch |-> None, copied |-> FALSE, validated |-> FALSE,
            auth |-> "gone"] \in WorkRows
BY VisibleType DEF TypeOK, WorkRows

\* A captured binding and a released one are rows of catalog_bindings.
LEMMA BindingUpdates ==
    ASSUME TypeOK
    PROVE  /\ [rev |-> head.rev, epoch |-> head.epoch, config |-> head.config,
               layers |-> layers, held |-> TRUE, rows |-> Visible(layers)] \in BindingRows
           /\ \A b \in BindingRows, h \in BOOLEAN : [b EXCEPT !.held = h] \in BindingRows
BY VisibleType DEF TypeOK, BindingRows

\* A new base over the layers that are not compacted.
LEMMA RebasedShape ==
    ASSUME NEW s \in Snapshots, layers \in Seq(Snapshots), NEW n \in 1..Len(layers)
    PROVE  /\ Rebased(s, n) \in Seq(Snapshots)
           /\ Len(Rebased(s, n)) = Len(layers) - n + 1
           /\ Rebased(s, n)[1] = s
           /\ \A k \in 2..(Len(layers) - n + 1) : Rebased(s, n)[k] = layers[n + k - 1]
<1>. DEFINE rest == SubSeq(layers, n + 1, Len(layers))
<1>1. /\ rest \in Seq(Snapshots)
      /\ Len(rest) = Len(layers) - n
      /\ \A i \in 1..(Len(layers) - n) : rest[i] = layers[n + i]
   BY SubSeqProperties
<1>2. <<s>> \in Seq(Snapshots) /\ Len(<<s>>) = 1 /\ <<s>>[1] = s
   OBVIOUS
<1>. HIDE DEF rest
<1>3. /\ <<s>> \o rest \in Seq(Snapshots)
      /\ Len(<<s>> \o rest) = 1 + (Len(layers) - n)
      /\ \A i \in 1..(1 + (Len(layers) - n)) :
            (<<s>> \o rest)[i] = IF i <= 1 THEN <<s>>[i] ELSE rest[i - 1]
   <2>1. /\ <<s>> \o rest \in Seq(Snapshots)
         /\ Len(<<s>> \o rest) = Len(<<s>>) + Len(rest)
         /\ \A i \in 1..(Len(<<s>>) + Len(rest)) :
               (<<s>> \o rest)[i] = IF i <= Len(<<s>>) THEN <<s>>[i] ELSE rest[i - Len(<<s>>)]
      BY <1>1, <1>2, ConcatProperties, Zenon
   <2>. QED
      BY <1>1, <1>2, <2>1
<1>4. Rebased(s, n) = <<s>> \o rest
   BY DEF Rebased, rest
<1>5. ASSUME NEW k \in 2..(Len(layers) - n + 1) PROVE rest[k - 1] = layers[n + k - 1]
   <2>1. k - 1 \in 1..(Len(layers) - n) /\ n + (k - 1) = n + k - 1
      OBVIOUS
   <2>. QED
      BY <1>1, <2>1
<1>. QED
   BY <1>1, <1>2, <1>3, <1>4, <1>5

\* The catalogue starts well typed.
LEMMA InitTypeOK == Init => TypeOK
<1>. SUFFICES ASSUME Init PROVE TypeOK
   OBVIOUS
<1>1. FirstConfig \in Configs
   BY ConfigsAssumption DEF FirstConfig
<1>2. Len(Stack) \in Nat /\ Stack \in Seq(Snapshots)
   BY StackAssumption
<1>3. snap \in [Snapshots -> SnapshotRows]
   <2>1. Absent \in SnapshotRows
      BY <1>1 DEF Absent, SnapshotRows
   <2>2. ASSUME NEW k \in 1..Len(Stack)
         PROVE  [kind |-> IF k = 1 THEN "base" ELSE "delta", state |-> "published",
                 parent |-> k - 1, epoch |-> 1, config |-> FirstConfig, pub |-> k]
                \in SnapshotRows
      BY <1>1, <1>2 DEF SnapshotRows
   <2>3. \A s \in Snapshots : InLayers(s, Stack) =>
            (CHOOSE k \in 1..Len(Stack) : Stack[k] = s) \in 1..Len(Stack)
      BY DEF InLayers
   <2>. QED
      BY <2>1, <2>2, <2>3 DEF Init
<1>4. facts \in [Snapshots -> Facts]
   BY StackFactsAssumption DEF Init, Facts
<1>5. work \in [Snapshots -> WorkRows]
   BY NoWorkType DEF Init
<1>6. prefix \in [Snapshots -> Seq(Snapshots)]
   BY DEF Init
<1>. QED
   BY <1>1, <1>2, <1>3, <1>4, <1>5, <1>6 DEF Init, TypeOK


\* Every step keeps the types.
LEMMA TypeStep == TypeOK /\ [Next]_vars => TypeOK'
<1>. SUFFICES ASSUME TypeOK, [Next]_vars PROVE TypeOK'
   OBVIOUS
<1>1. ASSUME NEW s \in Snapshots, NEW p \in {"delta", "base", "compaction"}, Read(s, p)
      PROVE  TypeOK'
   <2>1. work' \in [Snapshots -> WorkRows]
      BY <1>1, NewWork DEF TypeOK, Read
   <2>2. UNCHANGED <<snap, facts, head, layers, prefix, binding>>
      BY <1>1 DEF Read
   <2>. QED
      BY <2>1, <2>2 DEF TypeOK
<1>2. ASSUME NEW s \in Snapshots, BeginCandidate(s) PROVE TypeOK'
   <2>1. snap' \in [Snapshots -> SnapshotRows]
      BY <1>2 DEF BeginCandidate, KindOf, SnapshotRows, TypeOK
   <2>2. work' \in [Snapshots -> WorkRows]
      BY <1>2, WorkUpdates DEF TypeOK, BeginCandidate
   <2>3. UNCHANGED <<facts, head, layers, prefix, binding>>
      BY <1>2 DEF BeginCandidate
   <2>. QED
      BY <2>1, <2>2, <2>3 DEF TypeOK
<1>3. ASSUME NEW s \in Snapshots, GiveUpRead(s) PROVE TypeOK'
   <2>1. work' \in [Snapshots -> WorkRows]
      BY <1>3, NoWorkType DEF TypeOK, GiveUpRead
   <2>2. UNCHANGED <<snap, facts, head, layers, prefix, binding>>
      BY <1>3 DEF GiveUpRead
   <2>. QED
      BY <2>1, <2>2 DEF TypeOK
<1>4. ASSUME NEW s \in Snapshots, AppendFact(s) PROVE TypeOK'
   <2>1. facts' \in [Snapshots -> Facts]
      BY <1>4 DEF AppendFact, AppendBatch, Facts, TypeOK
   <2>2. UNCHANGED <<snap, head, layers, prefix, binding, work>>
      BY <1>4 DEF AppendFact, AppendBatch
   <2>. QED
      BY <2>1, <2>2 DEF TypeOK
<1>5. ASSUME NEW s \in Snapshots, AcquirePrefix(s) PROVE TypeOK'
   <2>1. prefix' \in [Snapshots -> Seq(Snapshots)]
      BY <1>5 DEF AcquirePrefix, TypeOK, WorkRows
   <2>2. UNCHANGED <<snap, facts, head, layers, binding, work>>
      BY <1>5 DEF AcquirePrefix
   <2>. QED
      BY <2>1, <2>2 DEF TypeOK
<1>6. ASSUME NEW s \in Snapshots, CopyRead(s) PROVE TypeOK'
   <2>1. work' \in [Snapshots -> WorkRows]
      <3>1. \/ work' = [work EXCEPT ![s].copied = TRUE]
            \/ \E r \in Visible(work[s].layers) : work' = [work EXCEPT ![s].batch = r]
         BY <1>6 DEF CopyRead
      <3>2. \A r \in Visible(work[s].layers) : r \in Ids \X Vals
         BY VisibleType
      <3>3. work[s] \in WorkRows
         BY DEF TypeOK
      <3>4. CASE work' = [work EXCEPT ![s].copied = TRUE]
         BY <3>3, <3>4, WorkUpdates DEF TypeOK
      <3>5. ASSUME NEW r \in Ids \X Vals, work' = [work EXCEPT ![s].batch = r]
            PROVE  work' \in [Snapshots -> WorkRows]
         BY <3>3, <3>5, WorkUpdates DEF TypeOK
      <3>. QED
         BY <3>1, <3>2, <3>4, <3>5
   <2>2. UNCHANGED <<snap, facts, head, layers, prefix, binding>>
      BY <1>6 DEF CopyRead
   <2>. QED
      BY <2>1, <2>2 DEF TypeOK
<1>7. ASSUME NEW s \in Snapshots, CopyAppend(s) PROVE TypeOK'
   <2>1. facts' \in [Snapshots -> Facts]
      <3>1. work[s].batch \in Ids \X Vals
         BY <1>7 DEF CopyAppend, TypeOK, WorkRows
      <3>. QED
         BY <1>7, <3>1 DEF CopyAppend, AppendBatch, Facts, TypeOK
   <2>2. work' \in [Snapshots -> WorkRows]
      <3>1. work[s].batch \in Ids \X Vals /\ work[s] \in WorkRows
         BY <1>7 DEF CopyAppend, TypeOK, WorkRows
      <3>2. work[s].batch[1] \in Nat
         BY <3>1, IdsAssumption
      <3>. QED
         BY <1>7, <3>1, <3>2, WorkUpdates DEF CopyAppend, TypeOK
   <2>3. UNCHANGED <<snap, head, layers, prefix, binding>>
      BY <1>7 DEF CopyAppend, AppendBatch
   <2>. QED
      BY <2>1, <2>2, <2>3 DEF TypeOK
<1>8. ASSUME NEW s \in Snapshots, SealFreeze(s) PROVE TypeOK'
   <2>1. snap' \in [Snapshots -> SnapshotRows]
      BY <1>8, SnapState DEF SealFreeze, TypeOK
   <2>2. UNCHANGED <<facts, head, layers, prefix, binding, work>>
      BY <1>8 DEF SealFreeze
   <2>. QED
      BY <2>1, <2>2 DEF TypeOK
<1>9. ASSUME NEW s \in Snapshots, SealValidate(s) PROVE TypeOK'
   <2>1. work' \in [Snapshots -> WorkRows]
      BY <1>9, WorkUpdates DEF SealValidate, TypeOK
   <2>2. UNCHANGED <<snap, facts, head, layers, prefix, binding>>
      BY <1>9 DEF SealValidate
   <2>. QED
      BY <2>1, <2>2 DEF TypeOK
<1>10. ASSUME NEW s \in Snapshots, SealReady(s) PROVE TypeOK'
   <2>1. snap' \in [Snapshots -> SnapshotRows]
      BY <1>10, SnapState DEF SealReady, TypeOK
   <2>2. UNCHANGED <<facts, head, layers, prefix, binding, work>>
      BY <1>10 DEF SealReady
   <2>. QED
      BY <2>1, <2>2 DEF TypeOK
<1>11. ASSUME NEW s \in Snapshots, PublishTx(s) PROVE TypeOK'
   <2>1. snap' \in [Snapshots -> SnapshotRows]
      <3>1. snap[s] \in SnapshotRows /\ snap[s].parent + 1 \in Nat
         BY SnapFields DEF TypeOK
      <3>2. snap' = [snap EXCEPT ![s].state = "published", ![s].pub = snap[s].parent + 1]
         BY <1>11 DEF PublishTx
      <3>. QED
         BY <3>1, <3>2 DEF SnapshotRows, TypeOK
   <2>2. head' \in [rev : Nat, epoch : Nat, config : Configs]
      <3>1. snap[s].parent + 1 \in Nat
         BY SnapFields DEF TypeOK
      <3>. QED
         BY <1>11, <3>1 DEF PublishTx, TypeOK
   <2>3. layers' \in Seq(Snapshots)
      BY <1>11 DEF PublishTx, TypeOK
   <2>4. work' \in [Snapshots -> WorkRows]
      BY <1>11, NoWorkType DEF PublishTx, TypeOK
   <2>5. UNCHANGED <<facts, prefix, binding>>
      BY <1>11 DEF PublishTx
   <2>. QED
      BY <2>1, <2>2, <2>3, <2>4, <2>5 DEF TypeOK
<1>12. ASSUME NEW s \in Snapshots, PublishCompactionTx(s) PROVE TypeOK'
   <2>1. snap' \in [Snapshots -> SnapshotRows]
      <3>1. snap[s] \in SnapshotRows /\ head.rev + 1 \in Nat
         BY DEF TypeOK
      <3>2. snap' = [snap EXCEPT ![s].state = "published", ![s].pub = head.rev + 1]
         BY <1>12 DEF PublishCompactionTx
      <3>. QED
         BY <3>1, <3>2 DEF SnapshotRows, TypeOK
   <2>2. head' \in [rev : Nat, epoch : Nat, config : Configs]
      BY <1>12, HeadUpdates DEF PublishCompactionTx, TypeOK
   <2>3. layers' \in Seq(Snapshots)
      <3>1. Len(prefix[s]) \in 1..Len(layers) /\ layers \in Seq(Snapshots)
         BY <1>12 DEF PublishCompactionTx, CompactionPrefix, TypeOK
      <3>2. layers' = Rebased(s, Len(prefix[s]))
         BY <1>12 DEF PublishCompactionTx
      <3>. QED
         BY <3>1, <3>2, RebasedShape
   <2>4. prefix' \in [Snapshots -> Seq(Snapshots)]
      BY <1>12 DEF PublishCompactionTx, TypeOK
   <2>5. work' \in [Snapshots -> WorkRows]
      BY <1>12, NoWorkType DEF PublishCompactionTx, TypeOK
   <2>6. UNCHANGED <<facts, binding>>
      BY <1>12 DEF PublishCompactionTx
   <2>. QED
      BY <2>1, <2>2, <2>3, <2>4, <2>5, <2>6 DEF TypeOK
<1>13. ASSUME NEW s \in Snapshots, Abandon(s) PROVE TypeOK'
   <2>1. snap' \in [Snapshots -> SnapshotRows]
      BY <1>13, SnapState DEF Abandon, AbandonAll, TypeOK
   <2>2. prefix' \in [Snapshots -> Seq(Snapshots)]
      BY <1>13 DEF Abandon, AbandonAll, TypeOK
   <2>3. work' \in [Snapshots -> WorkRows]
      BY <1>13, NoWorkType DEF Abandon, AbandonAll, TypeOK
   <2>4. UNCHANGED <<facts, head, layers, binding>>
      BY <1>13 DEF Abandon, AbandonAll
   <2>. QED
      BY <2>1, <2>2, <2>3, <2>4 DEF TypeOK
<1>14. ASSUME NEW s \in Snapshots, AuthorityLapses(s) PROVE TypeOK'
   <2>1. work' \in [Snapshots -> WorkRows]
      BY <1>14, NoWorkType DEF TypeOK, AuthorityLapses
   <2>2. UNCHANGED <<snap, facts, head, layers, prefix, binding>>
      BY <1>14 DEF AuthorityLapses
   <2>. QED
      BY <2>1, <2>2 DEF TypeOK
<1>15. ASSUME NEW s \in Snapshots, AuthorityGone(s) PROVE TypeOK'
   <2>1. work' \in [Snapshots -> WorkRows]
      BY <1>15, WorkUpdates DEF TypeOK, AuthorityGone
   <2>2. UNCHANGED <<snap, facts, head, layers, prefix, binding>>
      BY <1>15 DEF AuthorityGone
   <2>. QED
      BY <2>1, <2>2 DEF TypeOK
<1>16. ASSUME NEW s \in Snapshots, MaintainAbandon(s) PROVE TypeOK'
   <2>1. snap' \in [Snapshots -> SnapshotRows]
      BY <1>16, SnapState DEF MaintainAbandon, AbandonAll, TypeOK
   <2>2. prefix' \in [Snapshots -> Seq(Snapshots)]
      BY <1>16 DEF MaintainAbandon, AbandonAll, TypeOK
   <2>3. work' \in [Snapshots -> WorkRows]
      BY <1>16, NoWorkType DEF MaintainAbandon, AbandonAll, TypeOK
   <2>4. UNCHANGED <<facts, head, layers, binding>>
      BY <1>16 DEF MaintainAbandon, AbandonAll
   <2>. QED
      BY <2>1, <2>2, <2>3, <2>4 DEF TypeOK
<1>17. ASSUME NEW s \in Snapshots, MarkGC(s) PROVE TypeOK'
   <2>1. snap' \in [Snapshots -> SnapshotRows]
      BY <1>17, SnapState DEF MarkGC, TypeOK
   <2>2. UNCHANGED <<facts, head, layers, prefix, binding, work>>
      BY <1>17 DEF MarkGC
   <2>. QED
      BY <2>1, <2>2 DEF TypeOK
<1>18. ASSUME NEW s \in Snapshots, CollectBatch(s) PROVE TypeOK'
   <2>1. snap' \in [Snapshots -> SnapshotRows]
      <3>1. snap' = snap \/ snap' = [snap EXCEPT ![s].state = "removed"]
         BY <1>18 DEF CollectBatch
      <3>2. snap[s] \in SnapshotRows
         BY DEF TypeOK
      <3>3. [snap[s] EXCEPT !.state = "removed"] \in SnapshotRows
         BY <3>2, SnapState
      <3>. QED
         BY <3>1, <3>3 DEF TypeOK
   <2>2. facts' \in [Snapshots -> Facts]
      <3>1. facts' = facts \/ \E i \in Ids : facts' = [facts EXCEPT ![s][i] = None]
         BY <1>18 DEF CollectBatch
      <3>2. ASSUME NEW i \in Ids, facts' = [facts EXCEPT ![s][i] = None]
            PROVE  facts' \in [Snapshots -> Facts]
         BY <3>2 DEF Facts, TypeOK
      <3>. QED
         BY <3>1, <3>2 DEF TypeOK
   <2>3. UNCHANGED <<head, layers, prefix, binding, work>>
      BY <1>18 DEF CollectBatch
   <2>. QED
      BY <2>1, <2>2, <2>3 DEF TypeOK
<1>19. ASSUME NEW s \in Snapshots, ChangeSource(s) PROVE TypeOK'
   <2>1. snap' \in [Snapshots -> SnapshotRows]
      <3>1. [kind |-> "base", state |-> "published", parent |-> head.rev,
             epoch |-> head.epoch + 1, config |-> head.config, pub |-> head.rev + 1] \in SnapshotRows
         BY DEF TypeOK, SnapshotRows
      <3>. QED
         BY <1>19, <3>1, SnapState DEF ChangeSource, TypeOK
   <2>2. head' \in [rev : Nat, epoch : Nat, config : Configs]
      BY <1>19, HeadUpdates DEF ChangeSource, TypeOK
   <2>3. layers' \in Seq(Snapshots)
      BY <1>19 DEF ChangeSource, TypeOK
   <2>4. prefix' \in [Snapshots -> Seq(Snapshots)]
      BY <1>19 DEF ChangeSource, TypeOK
   <2>5. work' \in [Snapshots -> WorkRows]
      BY <1>19, NoWorkType DEF ChangeSource, TypeOK
   <2>6. UNCHANGED <<facts, binding>>
      BY <1>19 DEF ChangeSource
   <2>. QED
      BY <2>1, <2>2, <2>3, <2>4, <2>5, <2>6 DEF TypeOK
<1>20. ASSUME NEW o \in Owners, CaptureBinding(o) PROVE TypeOK'
   <2>1. binding' \in [Owners -> BindingRows \cup {None}]
      BY <1>20, BindingUpdates DEF CaptureBinding, TypeOK
   <2>2. UNCHANGED <<snap, facts, head, layers, prefix, work>>
      BY <1>20 DEF CaptureBinding
   <2>. QED
      BY <2>1, <2>2 DEF TypeOK
<1>21. ASSUME NEW o \in Owners, ReleaseBinding(o) PROVE TypeOK'
   <2>1. binding' \in [Owners -> BindingRows \cup {None}]
      BY <1>21, BindingUpdates DEF ReleaseBinding, TypeOK
   <2>2. UNCHANGED <<snap, facts, head, layers, prefix, work>>
      BY <1>21 DEF ReleaseBinding
   <2>. QED
      BY <2>1, <2>2 DEF TypeOK
<1>22. ASSUME NEW o \in Owners, ReacquireBinding(o) PROVE TypeOK'
   <2>1. binding' \in [Owners -> BindingRows \cup {None}]
      BY <1>22, BindingUpdates DEF ReacquireBinding, TypeOK
   <2>2. UNCHANGED <<snap, facts, head, layers, prefix, work>>
      BY <1>22 DEF ReacquireBinding
   <2>. QED
      BY <2>1, <2>2 DEF TypeOK
<1>23. ASSUME NEW c \in Configs, ChangeConfig(c) PROVE TypeOK'
   <2>1. head' \in [rev : Nat, epoch : Nat, config : Configs]
      BY <1>23, HeadUpdates DEF ChangeConfig, TypeOK
   <2>2. snap' \in [Snapshots -> SnapshotRows]
      BY <1>23, SnapState DEF ChangeConfig, AbandonAll, TypeOK
   <2>3. prefix' \in [Snapshots -> Seq(Snapshots)]
      BY <1>23 DEF ChangeConfig, AbandonAll, TypeOK
   <2>4. work' \in [Snapshots -> WorkRows]
      BY <1>23, NoWorkType DEF ChangeConfig, AbandonAll, TypeOK
   <2>5. UNCHANGED <<facts, layers, binding>>
      BY <1>23 DEF ChangeConfig, AbandonAll
   <2>. QED
      BY <2>1, <2>2, <2>3, <2>4, <2>5 DEF TypeOK
<1>24. CASE UNCHANGED vars
   BY <1>24 DEF TypeOK, vars
<1>. QED
   BY <1>1, <1>2, <1>3, <1>4, <1>5, <1>6, <1>7, <1>8, <1>9, <1>10, <1>11, <1>12, <1>13,
      <1>14, <1>15, <1>16, <1>17, <1>18, <1>19, <1>20, <1>21, <1>22, <1>23, <1>24
   DEF Next, Prepare, Authority, Maintain

-----------------------------------------------------------------------------
(* What a step leaves alone                                                  *)

Settled(s) == snap[s].state \in {"published", "gc", "removed"}

\* What a step does to a snapshot that has been published: nothing, or the
\* collector marks it or takes it, never the one that somebody still needs.
SettledKept(s) ==
    /\ snap'[s].state \in {"published", "gc", "removed"}
    /\ snap'[s].kind = snap[s].kind
    /\ snap'[s].epoch = snap[s].epoch
    /\ snap'[s].pub = snap[s].pub
    /\ snap'[s].state = "published" => snap[s].state = "published"
    /\ snap[s].state = "published" =>
          /\ facts'[s] = facts[s]
          /\ snap'[s].state = "published" \/ (~InLayers(s, layers) /\ ~Referenced(s))

\* Preparations are not published yet: whatever step one makes, or is stopped by,
\* no published snapshot changes.
LEMMA SettledStep ==
    ASSUME TypeOK, [Next]_vars, NEW t \in Snapshots, Settled(t)
    PROVE  SettledKept(t)
<1>1. ASSUME NEW s \in Snapshots, NEW p \in {"delta", "base", "compaction"}, Read(s, p)
      PROVE  SettledKept(t)
   BY <1>1 DEF Settled, SettledKept, Preparing, Read
<1>2. ASSUME NEW s \in Snapshots, BeginCandidate(s) PROVE SettledKept(t)
   <2>1. ~Settled(s) /\ \A u \in Snapshots : u # s => snap'[u] = snap[u] /\ facts'[u] = facts[u]
      BY <1>2 DEF BeginCandidate, OwnedCandidate, Settled, Preparing, TypeOK
   <2>. QED
      BY <2>1 DEF Settled, SettledKept
<1>3. ASSUME NEW s \in Snapshots, GiveUpRead(s) PROVE SettledKept(t)
   BY <1>3 DEF Settled, SettledKept, Preparing, GiveUpRead
<1>4. ASSUME NEW s \in Snapshots, AppendFact(s) PROVE SettledKept(t)
   <2>1. ~Settled(s) /\ \A u \in Snapshots : u # s => snap'[u] = snap[u] /\ facts'[u] = facts[u]
      BY <1>4 DEF AppendFact, AppendBatch, OwnedCandidate, Settled, Preparing, TypeOK
   <2>. QED
      BY <2>1 DEF Settled, SettledKept
<1>5. ASSUME NEW s \in Snapshots, AcquirePrefix(s) PROVE SettledKept(t)
   BY <1>5 DEF Settled, SettledKept, Preparing, AcquirePrefix
<1>6. ASSUME NEW s \in Snapshots, CopyRead(s) PROVE SettledKept(t)
   BY <1>6 DEF Settled, SettledKept, Preparing, CopyRead
<1>7. ASSUME NEW s \in Snapshots, CopyAppend(s) PROVE SettledKept(t)
   <2>1. ~Settled(s) /\ \A u \in Snapshots : u # s => snap'[u] = snap[u] /\ facts'[u] = facts[u]
      BY <1>7 DEF CopyAppend, AppendBatch, OwnedCandidate, Settled, Preparing, TypeOK
   <2>. QED
      BY <2>1 DEF Settled, SettledKept
<1>8. ASSUME NEW s \in Snapshots, SealFreeze(s) PROVE SettledKept(t)
   <2>1. ~Settled(s) /\ \A u \in Snapshots : u # s => snap'[u] = snap[u] /\ facts'[u] = facts[u]
      BY <1>8 DEF SealFreeze, OwnedCandidate, Settled, Preparing, TypeOK
   <2>. QED
      BY <2>1 DEF Settled, SettledKept
<1>9. ASSUME NEW s \in Snapshots, SealValidate(s) PROVE SettledKept(t)
   BY <1>9 DEF Settled, SettledKept, Preparing, SealValidate
<1>10. ASSUME NEW s \in Snapshots, SealReady(s) PROVE SettledKept(t)
   <2>1. ~Settled(s) /\ \A u \in Snapshots : u # s => snap'[u] = snap[u] /\ facts'[u] = facts[u]
      BY <1>10 DEF SealReady, OwnedCandidate, Settled, Preparing, TypeOK
   <2>. QED
      BY <2>1 DEF Settled, SettledKept
<1>11. ASSUME NEW s \in Snapshots, PublishTx(s) PROVE SettledKept(t)
   <2>1. ~Settled(s) /\ \A u \in Snapshots : u # s => snap'[u] = snap[u] /\ facts'[u] = facts[u]
      BY <1>11 DEF PublishTx, OwnedCandidate, Settled, Preparing, TypeOK
   <2>. QED
      BY <2>1 DEF Settled, SettledKept
<1>12. ASSUME NEW s \in Snapshots, PublishCompactionTx(s) PROVE SettledKept(t)
   <2>1. ~Settled(s) /\ \A u \in Snapshots : u # s => snap'[u] = snap[u] /\ facts'[u] = facts[u]
      BY <1>12 DEF PublishCompactionTx, OwnedCandidate, Settled, Preparing, TypeOK
   <2>. QED
      BY <2>1 DEF Settled, SettledKept
<1>13. ASSUME NEW s \in Snapshots, Abandon(s) PROVE SettledKept(t)
   <2>1. ~Settled(s) /\ \A u \in Snapshots : u # s => snap'[u] = snap[u] /\ facts'[u] = facts[u]
      BY <1>13 DEF Abandon, AbandonAll, OwnedCandidate, Settled, Preparing, TypeOK
   <2>. QED
      BY <2>1 DEF Settled, SettledKept
<1>14. ASSUME NEW s \in Snapshots, AuthorityLapses(s) PROVE SettledKept(t)
   BY <1>14 DEF Settled, SettledKept, Preparing, AuthorityLapses
<1>15. ASSUME NEW s \in Snapshots, AuthorityGone(s) PROVE SettledKept(t)
   BY <1>15 DEF Settled, SettledKept, Preparing, AuthorityGone
<1>16. ASSUME NEW s \in Snapshots, MaintainAbandon(s) PROVE SettledKept(t)
   <2>1. ~Settled(s) /\ \A u \in Snapshots : u # s => snap'[u] = snap[u] /\ facts'[u] = facts[u]
      BY <1>16 DEF MaintainAbandon, AbandonAll, OwnedCandidate, Settled, Preparing, TypeOK
   <2>. QED
      BY <2>1 DEF Settled, SettledKept
<1>17. ASSUME NEW s \in Snapshots, MarkGC(s) PROVE SettledKept(t)
   <2>1. snap' = [snap EXCEPT ![s].state = "gc"] /\ facts' = facts
      BY <1>17 DEF MarkGC
   <2>2. ~InLayers(s, layers) /\ ~Referenced(s) /\ snap[s].state \in {"published", "abandoned"}
      BY <1>17 DEF MarkGC
   <2>3. CASE t = s
      BY <2>1, <2>2, <2>3, SnapState DEF Settled, SettledKept, TypeOK
   <2>4. CASE t # s
      BY <2>1, <2>4 DEF Settled, SettledKept, TypeOK
   <2>. QED
      BY <2>3, <2>4
<1>18. ASSUME NEW s \in Snapshots, CollectBatch(s) PROVE SettledKept(t)
   <2>1. /\ snap[s].state = "gc"
         /\ snap' = snap \/ snap' = [snap EXCEPT ![s].state = "removed"]
         /\ facts' = facts \/ \E i \in Ids : facts' = [facts EXCEPT ![s][i] = None]
      BY <1>18 DEF CollectBatch
   <2>2. CASE t = s
      <3>1. snap[s] \in SnapshotRows
         BY DEF TypeOK
      <3>2. CASE snap' = snap
         BY <2>1, <2>2, <3>2 DEF Settled, SettledKept
      <3>3. CASE snap' = [snap EXCEPT ![s].state = "removed"]
         <4>1. snap'[s] = [snap[s] EXCEPT !.state = "removed"]
            BY <3>3 DEF TypeOK
         <4>2. /\ snap'[s].state = "removed" /\ snap'[s].kind = snap[s].kind
               /\ snap'[s].epoch = snap[s].epoch /\ snap'[s].pub = snap[s].pub
            BY <3>1, <4>1 DEF SnapshotRows
         <4>. QED
            BY <2>1, <2>2, <4>2 DEF Settled, SettledKept
      <3>. QED
         BY <2>1, <3>2, <3>3
   <2>3. CASE t # s
      <3>1. snap'[t] = snap[t] /\ facts'[t] = facts[t]
         BY <2>1, <2>3 DEF TypeOK
      <3>. QED
         BY <2>3, <3>1 DEF Settled, SettledKept
   <2>. QED
      BY <2>2, <2>3
<1>19. ASSUME NEW s \in Snapshots, ChangeSource(s) PROVE SettledKept(t)
   <2>1. \A u \in Snapshots : u \notin Live /\ u # s => snap'[u] = snap[u]
      BY <1>19 DEF ChangeSource, TypeOK
   <2>2. t \notin Live /\ t # s /\ facts' = facts
      BY <1>19 DEF Live, Settled, Preparing, ChangeSource
   <2>. QED
      BY <2>1, <2>2 DEF Settled, SettledKept
<1>20. ASSUME NEW o \in Owners, CaptureBinding(o) PROVE SettledKept(t)
   BY <1>20 DEF Settled, SettledKept, Preparing, CaptureBinding
<1>21. ASSUME NEW o \in Owners, ReleaseBinding(o) PROVE SettledKept(t)
   BY <1>21 DEF Settled, SettledKept, Preparing, ReleaseBinding
<1>22. ASSUME NEW o \in Owners, ReacquireBinding(o) PROVE SettledKept(t)
   BY <1>22 DEF Settled, SettledKept, Preparing, ReacquireBinding
<1>23. ASSUME NEW c \in Configs, ChangeConfig(c) PROVE SettledKept(t)
   <2>1. \A u \in Snapshots : u \notin Live => snap'[u] = snap[u]
      BY <1>23 DEF ChangeConfig, AbandonAll, TypeOK
   <2>2. t \notin Live /\ facts' = facts
      BY <1>23 DEF Live, Settled, Preparing, ChangeConfig
   <2>. QED
      BY <2>1, <2>2 DEF Settled, SettledKept
<1>24. CASE UNCHANGED vars
   BY <1>24 DEF Settled, SettledKept, Preparing, vars
<1>. QED
   BY <1>1, <1>2, <1>3, <1>4, <1>5, <1>6, <1>7, <1>8, <1>9, <1>10, <1>11, <1>12, <1>13,
      <1>14, <1>15, <1>16, <1>17, <1>18, <1>19, <1>20, <1>21, <1>22, <1>23, <1>24
   DEF Next, Prepare, Authority, Maintain

\* What a step does to the head: nothing, or one of four things.
HeadMoves ==
    \/ UNCHANGED <<head, layers>>
    \/ \E s \in Snapshots : PublishTx(s) \/ PublishCompactionTx(s) \/ ChangeSource(s)
    \/ \E c \in Configs : ChangeConfig(c)

\* The head moves by publication, a new source or a new configuration only.
LEMMA HeadFrame == [Next]_vars => HeadMoves
<1>. SUFFICES ASSUME [Next]_vars PROVE HeadMoves
   OBVIOUS
<1>1. ASSUME NEW s \in Snapshots, NEW p \in {"delta", "base", "compaction"}, Read(s, p)
      PROVE  HeadMoves
   BY <1>1 DEF HeadMoves, Read
<1>2. ASSUME NEW s \in Snapshots, BeginCandidate(s) PROVE HeadMoves
   BY <1>2 DEF HeadMoves, BeginCandidate
<1>3. ASSUME NEW s \in Snapshots, GiveUpRead(s) PROVE HeadMoves
   BY <1>3 DEF HeadMoves, GiveUpRead
<1>4. ASSUME NEW s \in Snapshots, AppendFact(s) PROVE HeadMoves
   BY <1>4 DEF HeadMoves, AppendFact, AppendBatch
<1>5. ASSUME NEW s \in Snapshots, AcquirePrefix(s) PROVE HeadMoves
   BY <1>5 DEF HeadMoves, AcquirePrefix
<1>6. ASSUME NEW s \in Snapshots, CopyRead(s) PROVE HeadMoves
   BY <1>6 DEF HeadMoves, CopyRead
<1>7. ASSUME NEW s \in Snapshots, CopyAppend(s) PROVE HeadMoves
   BY <1>7 DEF HeadMoves, CopyAppend, AppendBatch
<1>8. ASSUME NEW s \in Snapshots, SealFreeze(s) PROVE HeadMoves
   BY <1>8 DEF HeadMoves, SealFreeze
<1>9. ASSUME NEW s \in Snapshots, SealValidate(s) PROVE HeadMoves
   BY <1>9 DEF HeadMoves, SealValidate
<1>10. ASSUME NEW s \in Snapshots, SealReady(s) PROVE HeadMoves
   BY <1>10 DEF HeadMoves, SealReady
<1>11. ASSUME NEW s \in Snapshots, PublishTx(s) PROVE HeadMoves
   BY <1>11 DEF HeadMoves
<1>12. ASSUME NEW s \in Snapshots, PublishCompactionTx(s) PROVE HeadMoves
   BY <1>12 DEF HeadMoves
<1>13. ASSUME NEW s \in Snapshots, Abandon(s) PROVE HeadMoves
   BY <1>13 DEF HeadMoves, Abandon, AbandonAll
<1>14. ASSUME NEW s \in Snapshots, AuthorityLapses(s) PROVE HeadMoves
   BY <1>14 DEF HeadMoves, AuthorityLapses
<1>15. ASSUME NEW s \in Snapshots, AuthorityGone(s) PROVE HeadMoves
   BY <1>15 DEF HeadMoves, AuthorityGone
<1>16. ASSUME NEW s \in Snapshots, MaintainAbandon(s) PROVE HeadMoves
   BY <1>16 DEF HeadMoves, MaintainAbandon, AbandonAll
<1>17. ASSUME NEW s \in Snapshots, MarkGC(s) PROVE HeadMoves
   BY <1>17 DEF HeadMoves, MarkGC
<1>18. ASSUME NEW s \in Snapshots, CollectBatch(s) PROVE HeadMoves
   BY <1>18 DEF HeadMoves, CollectBatch
<1>19. ASSUME NEW s \in Snapshots, ChangeSource(s) PROVE HeadMoves
   BY <1>19 DEF HeadMoves
<1>20. ASSUME NEW o \in Owners, CaptureBinding(o) PROVE HeadMoves
   BY <1>20 DEF HeadMoves, CaptureBinding
<1>21. ASSUME NEW o \in Owners, ReleaseBinding(o) PROVE HeadMoves
   BY <1>21 DEF HeadMoves, ReleaseBinding
<1>22. ASSUME NEW o \in Owners, ReacquireBinding(o) PROVE HeadMoves
   BY <1>22 DEF HeadMoves, ReacquireBinding
<1>23. ASSUME NEW c \in Configs, ChangeConfig(c) PROVE HeadMoves
   BY <1>23 DEF HeadMoves
<1>24. CASE UNCHANGED vars
   BY <1>24 DEF HeadMoves, vars
<1>. QED
   BY <1>1, <1>2, <1>3, <1>4, <1>5, <1>6, <1>7, <1>8, <1>9, <1>10, <1>11, <1>12, <1>13,
      <1>14, <1>15, <1>16, <1>17, <1>18, <1>19, <1>20, <1>21, <1>22, <1>23, <1>24
   DEF Next, Prepare, Authority, Maintain

\* What a step does to the bindings: nothing, or one of three things.
BindingMoves ==
    \/ UNCHANGED binding
    \/ \E o \in Owners : CaptureBinding(o) \/ ReleaseBinding(o) \/ ReacquireBinding(o)

\* Bindings change by being captured, released or reacquired only.
LEMMA BindingFrame == [Next]_vars => BindingMoves
<1>. SUFFICES ASSUME [Next]_vars PROVE BindingMoves
   OBVIOUS
<1>1. ASSUME NEW s \in Snapshots, NEW p \in {"delta", "base", "compaction"}, Read(s, p)
      PROVE  BindingMoves
   BY <1>1 DEF BindingMoves, Read
<1>2. ASSUME NEW s \in Snapshots, BeginCandidate(s) PROVE BindingMoves
   BY <1>2 DEF BindingMoves, BeginCandidate
<1>3. ASSUME NEW s \in Snapshots, GiveUpRead(s) PROVE BindingMoves
   BY <1>3 DEF BindingMoves, GiveUpRead
<1>4. ASSUME NEW s \in Snapshots, AppendFact(s) PROVE BindingMoves
   BY <1>4 DEF BindingMoves, AppendFact, AppendBatch
<1>5. ASSUME NEW s \in Snapshots, AcquirePrefix(s) PROVE BindingMoves
   BY <1>5 DEF BindingMoves, AcquirePrefix
<1>6. ASSUME NEW s \in Snapshots, CopyRead(s) PROVE BindingMoves
   BY <1>6 DEF BindingMoves, CopyRead
<1>7. ASSUME NEW s \in Snapshots, CopyAppend(s) PROVE BindingMoves
   BY <1>7 DEF BindingMoves, CopyAppend, AppendBatch
<1>8. ASSUME NEW s \in Snapshots, SealFreeze(s) PROVE BindingMoves
   BY <1>8 DEF BindingMoves, SealFreeze
<1>9. ASSUME NEW s \in Snapshots, SealValidate(s) PROVE BindingMoves
   BY <1>9 DEF BindingMoves, SealValidate
<1>10. ASSUME NEW s \in Snapshots, SealReady(s) PROVE BindingMoves
   BY <1>10 DEF BindingMoves, SealReady
<1>11. ASSUME NEW s \in Snapshots, PublishTx(s) PROVE BindingMoves
   BY <1>11 DEF BindingMoves, PublishTx
<1>12. ASSUME NEW s \in Snapshots, PublishCompactionTx(s) PROVE BindingMoves
   BY <1>12 DEF BindingMoves, PublishCompactionTx
<1>13. ASSUME NEW s \in Snapshots, Abandon(s) PROVE BindingMoves
   BY <1>13 DEF BindingMoves, Abandon, AbandonAll
<1>14. ASSUME NEW s \in Snapshots, AuthorityLapses(s) PROVE BindingMoves
   BY <1>14 DEF BindingMoves, AuthorityLapses
<1>15. ASSUME NEW s \in Snapshots, AuthorityGone(s) PROVE BindingMoves
   BY <1>15 DEF BindingMoves, AuthorityGone
<1>16. ASSUME NEW s \in Snapshots, MaintainAbandon(s) PROVE BindingMoves
   BY <1>16 DEF BindingMoves, MaintainAbandon, AbandonAll
<1>17. ASSUME NEW s \in Snapshots, MarkGC(s) PROVE BindingMoves
   BY <1>17 DEF BindingMoves, MarkGC
<1>18. ASSUME NEW s \in Snapshots, CollectBatch(s) PROVE BindingMoves
   BY <1>18 DEF BindingMoves, CollectBatch
<1>19. ASSUME NEW s \in Snapshots, ChangeSource(s) PROVE BindingMoves
   BY <1>19 DEF BindingMoves, ChangeSource
<1>20. ASSUME NEW o \in Owners, CaptureBinding(o) PROVE BindingMoves
   BY <1>20 DEF BindingMoves
<1>21. ASSUME NEW o \in Owners, ReleaseBinding(o) PROVE BindingMoves
   BY <1>21 DEF BindingMoves
<1>22. ASSUME NEW o \in Owners, ReacquireBinding(o) PROVE BindingMoves
   BY <1>22 DEF BindingMoves
<1>23. ASSUME NEW c \in Configs, ChangeConfig(c) PROVE BindingMoves
   BY <1>23 DEF BindingMoves, ChangeConfig, AbandonAll
<1>24. CASE UNCHANGED vars
   BY <1>24 DEF BindingMoves, vars
<1>. QED
   BY <1>1, <1>2, <1>3, <1>4, <1>5, <1>6, <1>7, <1>8, <1>9, <1>10, <1>11, <1>12, <1>13,
      <1>14, <1>15, <1>16, <1>17, <1>18, <1>19, <1>20, <1>21, <1>22, <1>23, <1>24
   DEF Next, Prepare, Authority, Maintain

\* What a step does to a snapshot, its references and its worker: nothing, a step
\* of its own, or it is abandoned together with the others.
Untouched(t) ==
    snap'[t] = snap[t] /\ facts'[t] = facts[t] /\ prefix'[t] = prefix[t] /\ work'[t] = work[t]

Abandoned(t) ==
    /\ snap[t].state \in Preparing
    /\ snap'[t] = [snap[t] EXCEPT !.state = "abandoned"]
    /\ facts'[t] = facts[t]
    /\ prefix'[t] = <<>>
    /\ work'[t] = NoWork

OwnStep(t) ==
    \/ \E p \in {"delta", "base", "compaction"} : Read(t, p)
    \/ BeginCandidate(t) \/ GiveUpRead(t) \/ AppendFact(t) \/ AcquirePrefix(t)
    \/ CopyRead(t) \/ CopyAppend(t) \/ SealFreeze(t) \/ SealValidate(t) \/ SealReady(t)
    \/ PublishTx(t) \/ PublishCompactionTx(t)
    \/ AuthorityLapses(t) \/ AuthorityGone(t) \/ MarkGC(t) \/ CollectBatch(t)
    \/ ChangeSource(t)

Touches(t) == Untouched(t) \/ Abandoned(t) \/ OwnStep(t)

\* The steps of one snapshot, its worker and its references.
StepOf(s) ==
    \/ \E p \in {"delta", "base", "compaction"} : Read(s, p)
    \/ BeginCandidate(s) \/ GiveUpRead(s) \/ AppendFact(s) \/ AcquirePrefix(s)
    \/ CopyRead(s) \/ CopyAppend(s) \/ SealFreeze(s) \/ SealValidate(s) \/ SealReady(s)
    \/ PublishTx(s) \/ PublishCompactionTx(s) \/ Abandon(s)
    \/ AuthorityLapses(s) \/ AuthorityGone(s)
    \/ MaintainAbandon(s) \/ MarkGC(s) \/ CollectBatch(s)

\* A step of one preparation leaves the other snapshots alone.
LEMMA Elsewhere ==
    ASSUME TypeOK, NEW s \in Snapshots, NEW t \in Snapshots, t # s, StepOf(s)
    PROVE  Untouched(t)
<1>1. ASSUME NEW p \in {"delta", "base", "compaction"}, Read(s, p) PROVE Untouched(t)
   BY <1>1 DEF Read, Untouched, TypeOK
<1>2. CASE BeginCandidate(s)
   BY <1>2 DEF BeginCandidate, Untouched, TypeOK
<1>3. CASE GiveUpRead(s)
   BY <1>3 DEF GiveUpRead, Untouched, TypeOK
<1>4. CASE AppendFact(s)
   BY <1>4 DEF AppendFact, AppendBatch, Untouched, TypeOK
<1>5. CASE AcquirePrefix(s)
   BY <1>5 DEF AcquirePrefix, Untouched, TypeOK
<1>6. CASE CopyRead(s)
   BY <1>6 DEF CopyRead, Untouched, TypeOK
<1>7. CASE CopyAppend(s)
   BY <1>7 DEF CopyAppend, AppendBatch, Untouched, TypeOK
<1>8. CASE SealFreeze(s)
   BY <1>8 DEF SealFreeze, Untouched, TypeOK
<1>9. CASE SealValidate(s)
   BY <1>9 DEF SealValidate, Untouched, TypeOK
<1>10. CASE SealReady(s)
   BY <1>10 DEF SealReady, Untouched, TypeOK
<1>11. CASE PublishTx(s)
   BY <1>11 DEF PublishTx, Untouched, TypeOK
<1>12. CASE PublishCompactionTx(s)
   BY <1>12 DEF PublishCompactionTx, Untouched, TypeOK
<1>13. CASE Abandon(s)
   BY <1>13 DEF Abandon, AbandonAll, Untouched, TypeOK
<1>14. CASE AuthorityLapses(s)
   BY <1>14 DEF AuthorityLapses, Untouched, TypeOK
<1>15. CASE AuthorityGone(s)
   BY <1>15 DEF AuthorityGone, Untouched, TypeOK
<1>16. CASE MaintainAbandon(s)
   BY <1>16 DEF MaintainAbandon, AbandonAll, Untouched, TypeOK
<1>17. CASE MarkGC(s)
   BY <1>17 DEF MarkGC, Untouched, TypeOK
<1>18. CASE CollectBatch(s)
   BY <1>18 DEF CollectBatch, Untouched, TypeOK
<1>. QED
   BY <1>1, <1>2, <1>3, <1>4, <1>5, <1>6, <1>7, <1>8, <1>9, <1>10, <1>11, <1>12, <1>13,
      <1>14, <1>15, <1>16, <1>17, <1>18 DEF StepOf

\* A step leaves a snapshot alone, abandons it or is one of its own.
LEMMA TouchFrame ==
    ASSUME TypeOK, [Next]_vars, NEW t \in Snapshots
    PROVE  Touches(t)
<1>1. ASSUME NEW s \in Snapshots, NEW p \in {"delta", "base", "compaction"}, Read(s, p)
      PROVE  Touches(t)
   <2>1. CASE t = s
      BY <1>1, <2>1 DEF Touches, OwnStep
   <2>2. CASE t # s
      BY <1>1, <2>2, Elsewhere DEF StepOf, Touches
   <2>. QED
      BY <2>1, <2>2
<1>2. ASSUME NEW s \in Snapshots, BeginCandidate(s) PROVE Touches(t)
   <2>1. CASE t = s
      BY <1>2, <2>1 DEF Touches, OwnStep
   <2>2. CASE t # s
      BY <1>2, <2>2, Elsewhere DEF StepOf, Touches
   <2>. QED
      BY <2>1, <2>2
<1>3. ASSUME NEW s \in Snapshots, GiveUpRead(s) PROVE Touches(t)
   <2>1. CASE t = s
      BY <1>3, <2>1 DEF Touches, OwnStep
   <2>2. CASE t # s
      BY <1>3, <2>2, Elsewhere DEF StepOf, Touches
   <2>. QED
      BY <2>1, <2>2
<1>4. ASSUME NEW s \in Snapshots, AppendFact(s) PROVE Touches(t)
   <2>1. CASE t = s
      BY <1>4, <2>1 DEF Touches, OwnStep
   <2>2. CASE t # s
      BY <1>4, <2>2, Elsewhere DEF StepOf, Touches
   <2>. QED
      BY <2>1, <2>2
<1>5. ASSUME NEW s \in Snapshots, AcquirePrefix(s) PROVE Touches(t)
   <2>1. CASE t = s
      BY <1>5, <2>1 DEF Touches, OwnStep
   <2>2. CASE t # s
      BY <1>5, <2>2, Elsewhere DEF StepOf, Touches
   <2>. QED
      BY <2>1, <2>2
<1>6. ASSUME NEW s \in Snapshots, CopyRead(s) PROVE Touches(t)
   <2>1. CASE t = s
      BY <1>6, <2>1 DEF Touches, OwnStep
   <2>2. CASE t # s
      BY <1>6, <2>2, Elsewhere DEF StepOf, Touches
   <2>. QED
      BY <2>1, <2>2
<1>7. ASSUME NEW s \in Snapshots, CopyAppend(s) PROVE Touches(t)
   <2>1. CASE t = s
      BY <1>7, <2>1 DEF Touches, OwnStep
   <2>2. CASE t # s
      BY <1>7, <2>2, Elsewhere DEF StepOf, Touches
   <2>. QED
      BY <2>1, <2>2
<1>8. ASSUME NEW s \in Snapshots, SealFreeze(s) PROVE Touches(t)
   <2>1. CASE t = s
      BY <1>8, <2>1 DEF Touches, OwnStep
   <2>2. CASE t # s
      BY <1>8, <2>2, Elsewhere DEF StepOf, Touches
   <2>. QED
      BY <2>1, <2>2
<1>9. ASSUME NEW s \in Snapshots, SealValidate(s) PROVE Touches(t)
   <2>1. CASE t = s
      BY <1>9, <2>1 DEF Touches, OwnStep
   <2>2. CASE t # s
      BY <1>9, <2>2, Elsewhere DEF StepOf, Touches
   <2>. QED
      BY <2>1, <2>2
<1>10. ASSUME NEW s \in Snapshots, SealReady(s) PROVE Touches(t)
   <2>1. CASE t = s
      BY <1>10, <2>1 DEF Touches, OwnStep
   <2>2. CASE t # s
      BY <1>10, <2>2, Elsewhere DEF StepOf, Touches
   <2>. QED
      BY <2>1, <2>2
<1>11. ASSUME NEW s \in Snapshots, PublishTx(s) PROVE Touches(t)
   <2>1. CASE t = s
      BY <1>11, <2>1 DEF Touches, OwnStep
   <2>2. CASE t # s
      BY <1>11, <2>2, Elsewhere DEF StepOf, Touches
   <2>. QED
      BY <2>1, <2>2
<1>12. ASSUME NEW s \in Snapshots, PublishCompactionTx(s) PROVE Touches(t)
   <2>1. CASE t = s
      BY <1>12, <2>1 DEF Touches, OwnStep
   <2>2. CASE t # s
      BY <1>12, <2>2, Elsewhere DEF StepOf, Touches
   <2>. QED
      BY <2>1, <2>2
<1>13. ASSUME NEW s \in Snapshots, Abandon(s) PROVE Touches(t)
   <2>1. CASE t = s
      BY <1>13, <2>1 DEF Touches, Abandoned, Abandon, AbandonAll, TypeOK
   <2>2. CASE t # s
      BY <1>13, <2>2, Elsewhere DEF StepOf, Touches
   <2>. QED
      BY <2>1, <2>2
<1>14. ASSUME NEW s \in Snapshots, AuthorityLapses(s) PROVE Touches(t)
   <2>1. CASE t = s
      BY <1>14, <2>1 DEF Touches, OwnStep
   <2>2. CASE t # s
      BY <1>14, <2>2, Elsewhere DEF StepOf, Touches
   <2>. QED
      BY <2>1, <2>2
<1>15. ASSUME NEW s \in Snapshots, AuthorityGone(s) PROVE Touches(t)
   <2>1. CASE t = s
      BY <1>15, <2>1 DEF Touches, OwnStep
   <2>2. CASE t # s
      BY <1>15, <2>2, Elsewhere DEF StepOf, Touches
   <2>. QED
      BY <2>1, <2>2
<1>16. ASSUME NEW s \in Snapshots, MaintainAbandon(s) PROVE Touches(t)
   <2>1. CASE t = s
      BY <1>16, <2>1 DEF Touches, Abandoned, MaintainAbandon, AbandonAll, TypeOK
   <2>2. CASE t # s
      BY <1>16, <2>2, Elsewhere DEF StepOf, Touches
   <2>. QED
      BY <2>1, <2>2
<1>17. ASSUME NEW s \in Snapshots, MarkGC(s) PROVE Touches(t)
   <2>1. CASE t = s
      BY <1>17, <2>1 DEF Touches, OwnStep
   <2>2. CASE t # s
      BY <1>17, <2>2, Elsewhere DEF StepOf, Touches
   <2>. QED
      BY <2>1, <2>2
<1>18. ASSUME NEW s \in Snapshots, CollectBatch(s) PROVE Touches(t)
   <2>1. CASE t = s
      BY <1>18, <2>1 DEF Touches, OwnStep
   <2>2. CASE t # s
      BY <1>18, <2>2, Elsewhere DEF StepOf, Touches
   <2>. QED
      BY <2>1, <2>2
<1>19. ASSUME NEW s \in Snapshots, ChangeSource(s) PROVE Touches(t)
   <2>1. CASE t = s
      BY <1>19, <2>1 DEF Touches, OwnStep
   <2>2. CASE t # s /\ t \in Live
      BY <1>19, <2>2 DEF Touches, Abandoned, ChangeSource, Live, TypeOK
   <2>3. CASE t # s /\ t \notin Live
      BY <1>19, <2>3 DEF Touches, Untouched, ChangeSource, TypeOK
   <2>. QED
      BY <2>1, <2>2, <2>3
<1>20. ASSUME NEW o \in Owners, CaptureBinding(o) PROVE Touches(t)
   BY <1>20 DEF Touches, Untouched, CaptureBinding
<1>21. ASSUME NEW o \in Owners, ReleaseBinding(o) PROVE Touches(t)
   BY <1>21 DEF Touches, Untouched, ReleaseBinding
<1>22. ASSUME NEW o \in Owners, ReacquireBinding(o) PROVE Touches(t)
   BY <1>22 DEF Touches, Untouched, ReacquireBinding
<1>23. ASSUME NEW c \in Configs, ChangeConfig(c) PROVE Touches(t)
   <2>1. CASE t \in Live
      BY <1>23, <2>1 DEF Touches, Abandoned, ChangeConfig, AbandonAll, Live, TypeOK
   <2>2. CASE t \notin Live
      BY <1>23, <2>2 DEF Touches, Untouched, ChangeConfig, AbandonAll, TypeOK
   <2>. QED
      BY <2>1, <2>2
<1>24. CASE UNCHANGED vars
   BY <1>24 DEF Touches, Untouched, vars
<1>. QED
   BY <1>1, <1>2, <1>3, <1>4, <1>5, <1>6, <1>7, <1>8, <1>9, <1>10, <1>11, <1>12, <1>13,
      <1>14, <1>15, <1>16, <1>17, <1>18, <1>19, <1>20, <1>21, <1>22, <1>23, <1>24
   DEF Next, Prepare, Authority, Maintain

-----------------------------------------------------------------------------
(* The rows of a list of layers                                              *)

\* Visible, with the facts it looks at as a parameter.
VisibleIn(f, ls) ==
    {r \in Ids \X Vals :
        \E k \in 1..Len(ls) :
            /\ f[ls[k]][r[1]] = r[2]
            /\ \A j \in (k + 1)..Len(ls) : f[ls[j]][r[1]] = None}

\* The rows depend on the facts of the layers only.
LEMMA VisibleSame ==
    ASSUME NEW f, NEW g, NEW ls, \A k \in 1..Len(ls) : f[ls[k]] = g[ls[k]]
    PROVE  VisibleIn(f, ls) = VisibleIn(g, ls)
<1>1. ASSUME NEW r, NEW k \in 1..Len(ls)
      PROVE  /\ f[ls[k]][r] = g[ls[k]][r]
             /\ \A j \in (k + 1)..Len(ls) : f[ls[j]][r] = g[ls[j]][r]
   OBVIOUS
<1>. QED
   BY <1>1 DEF VisibleIn

\* One row per identity.
LEMMA VisibleOnce ==
    ASSUME NEW f, NEW ls, Len(ls) \in Nat,
           NEW q \in VisibleIn(f, ls), NEW r \in VisibleIn(f, ls), q[1] = r[1]
    PROVE  q = r
<1>1. PICK k \in 1..Len(ls) : /\ f[ls[k]][q[1]] = q[2]
                              /\ \A j \in (k + 1)..Len(ls) : f[ls[j]][q[1]] = None
   BY DEF VisibleIn
<1>2. PICK m \in 1..Len(ls) : /\ f[ls[m]][r[1]] = r[2]
                              /\ \A j \in (m + 1)..Len(ls) : f[ls[j]][r[1]] = None
   BY DEF VisibleIn
<1>3. q \in Ids \X Vals /\ r \in Ids \X Vals
   BY DEF VisibleIn
<1>4. q[2] # None /\ r[2] # None
   BY <1>3, ValsAssumption
<1>5. k = m
   BY <1>1, <1>2, <1>4
<1>. QED
   BY <1>1, <1>2, <1>3, <1>5

\* A step changes no row of a list of published layers.
LEMMA VisibleKept ==
    ASSUME TypeOK, [Next]_vars, NEW ls \in Seq(Snapshots),
           \A k \in 1..Len(ls) : snap[ls[k]].state = "published"
    PROVE  VisibleIn(facts', ls) = VisibleIn(facts, ls)
<1>1. ASSUME NEW k \in 1..Len(ls) PROVE facts'[ls[k]] = facts[ls[k]]
   <2>1. ls[k] \in Snapshots /\ Settled(ls[k])
      BY DEF Settled
   <2>2. SettledKept(ls[k])
      BY <2>1, SettledStep
   <2>. QED
      BY <2>2 DEF SettledKept
<1>. QED
   BY <1>1, VisibleSame

-----------------------------------------------------------------------------
(* The head                                                                  *)

\* Only a compaction survives a newer head: what is published as it is was made
\* for the present revision.
LEMMA ParentIsHead ==
    ASSUME TypeOK, NEW s \in Snapshots, PublishTx(s)
    PROVE  snap[s].parent = head.rev
<1>1. prefix[s] = <<>> /\ OwnedCandidate(s, "ready")
   BY DEF PublishTx
<1>. QED
   BY <1>1 DEF OwnedCandidate, CompactionPrefix

\* Whatever changes the head or its layers takes a new revision.
LEMMA HeadForward ==
    ASSUME TypeOK, [Next]_vars
    PROVE  UNCHANGED <<head, layers>> \/ head'.rev > head.rev
<1>1. head \in [rev : Nat, epoch : Nat, config : Configs] /\ head.rev \in Nat
   BY DEF TypeOK
<1>2. ASSUME NEW s \in Snapshots, PublishTx(s) PROVE head'.rev > head.rev
   <2>1. snap[s].parent = head.rev
      BY <1>2, ParentIsHead
   <2>. QED
      BY <1>1, <1>2, <2>1 DEF PublishTx
<1>3. ASSUME NEW s \in Snapshots, PublishCompactionTx(s) PROVE head'.rev > head.rev
   BY <1>1, <1>3 DEF PublishCompactionTx
<1>4. ASSUME NEW s \in Snapshots, ChangeSource(s) PROVE head'.rev > head.rev
   BY <1>1, <1>4 DEF ChangeSource
<1>5. ASSUME NEW c \in Configs, ChangeConfig(c) PROVE head'.rev > head.rev
   BY <1>1, <1>5 DEF ChangeConfig
<1>. QED
   BY <1>2, <1>3, <1>4, <1>5, HeadFrame DEF HeadMoves

\* The layers of the head stay published, and what they are, through any step.
LEMMA LayersKept ==
    ASSUME IInv, [Next]_vars
    PROVE  /\ \A k \in 1..Len(layers) :
                 /\ layers[k] \in Snapshots
                 /\ snap'[layers[k]].state = "published"
                 /\ snap'[layers[k]].kind = snap[layers[k]].kind
                 /\ snap'[layers[k]].epoch = snap[layers[k]].epoch
                 /\ snap'[layers[k]].pub = snap[layers[k]].pub
           /\ VisibleIn(facts', layers) = Visible(layers)
<1>0. TypeOK /\ layers \in Seq(Snapshots)
   BY DEF IInv, TypeOK
<1>1. ASSUME NEW k \in 1..Len(layers)
      PROVE  /\ layers[k] \in Snapshots
             /\ snap[layers[k]].state = "published"
             /\ snap'[layers[k]].state = "published"
             /\ snap'[layers[k]].kind = snap[layers[k]].kind
             /\ snap'[layers[k]].epoch = snap[layers[k]].epoch
             /\ snap'[layers[k]].pub = snap[layers[k]].pub
   <2>1. layers[k] \in Snapshots /\ InLayers(layers[k], layers)
      BY <1>0 DEF InLayers
   <2>2. snap[layers[k]].state = "published"
      BY DEF IInv, HeadReadable, PinCatalogTx
   <2>3. SettledKept(layers[k])
      <3>1. Settled(layers[k])
         BY <2>2 DEF Settled
      <3>. QED
         BY <1>0, <2>1, <3>1, SettledStep
   <2>. QED
      BY <2>1, <2>2, <2>3 DEF SettledKept
<1>2. VisibleIn(facts', layers) = VisibleIn(facts, layers)
   BY <1>0, <1>1, VisibleKept
<1>. QED
   BY <1>1, <1>2 DEF Visible, VisibleIn


\* A layer of the head that fits at rank k, in the next state.
Fits(s, k) ==
    /\ snap'[s].state = "published"
    /\ snap'[s].epoch = head'.epoch
    /\ k - 1 <= MaxDeltas
    /\ snap'[s].kind = IF k = 1 THEN "base" ELSE "delta"
    /\ snap'[s].pub <= head'.rev

\* Layers that fit their ranks, all different, make a readable head.
LEMMA HeadFits ==
    ASSUME Len(layers') >= 1, \A k \in 1..Len(layers') : Fits(layers'[k], k),
           \A j, k \in 1..Len(layers') : layers'[j] = layers'[k] => j = k
    PROVE  (HeadReadable /\ HeadOrdered)'
BY DEF HeadReadable, PinCatalogTx, HeadOrdered, Fits

\* Whatever is published, compacted, collected or reconfigured, the head stays one
\* that PinCatalogTx accepts.
LEMMA HeadStep ==
    ASSUME IInv, [Next]_vars
    PROVE  (HeadReadable /\ HeadOrdered)'
<1>0. /\ TypeOK /\ layers \in Seq(Snapshots) /\ Len(layers) \in Nat
      /\ head \in [rev : Nat, epoch : Nat, config : Configs]
      /\ head.rev \in Nat /\ head.epoch \in Nat
      /\ MaxDeltas \in Nat
   BY LimitAssumption DEF IInv, TypeOK
<1>1. /\ Len(layers) >= 1
      /\ \A j, k \in 1..Len(layers) : layers[j] = layers[k] => j = k
      /\ \A k \in 1..Len(layers) :
            /\ layers[k] \in Snapshots
            /\ snap[layers[k]].state = "published"
            /\ snap[layers[k]].epoch = head.epoch
            /\ k - 1 <= MaxDeltas
            /\ snap[layers[k]].kind = IF k = 1 THEN "base" ELSE "delta"
            /\ snap[layers[k]].pub \in Nat
            /\ snap[layers[k]].pub <= head.rev
   <2>1. ASSUME NEW k \in 1..Len(layers)
         PROVE  layers[k] \in Snapshots /\ snap[layers[k]].pub \in Nat
      <3>1. layers[k] \in Snapshots
         BY <1>0
      <3>. QED
         BY <1>0, <3>1 DEF TypeOK, SnapshotRows
   <2>. QED
      BY <2>1 DEF IInv, HeadReadable, PinCatalogTx, HeadOrdered
<1>2. \A k \in 1..Len(layers) : head'.epoch = head.epoch /\ head'.rev >= head.rev
         => Fits(layers[k], k)
   <2>1. head'.rev \in Nat
      BY <1>0, TypeStep DEF TypeOK
   <2>2. ASSUME NEW k \in 1..Len(layers), head'.epoch = head.epoch, head'.rev >= head.rev
         PROVE  Fits(layers[k], k)
      <3>1. /\ snap[layers[k]].epoch = head.epoch /\ k - 1 <= MaxDeltas
            /\ snap[layers[k]].kind = IF k = 1 THEN "base" ELSE "delta"
            /\ snap[layers[k]].pub \in Nat /\ snap[layers[k]].pub <= head.rev
         BY <1>1
      <3>2. /\ snap'[layers[k]].state = "published"
            /\ snap'[layers[k]].kind = snap[layers[k]].kind
            /\ snap'[layers[k]].epoch = snap[layers[k]].epoch
            /\ snap'[layers[k]].pub = snap[layers[k]].pub
         BY LayersKept
      <3>3. snap[layers[k]].pub <= head'.rev
         BY <1>0, <2>1, <2>2, <3>1
      <3>. QED
         BY <2>2, <3>1, <3>2, <3>3 DEF Fits
   <2>. QED
      BY <2>2
<1>3. CASE UNCHANGED <<head, layers>>
   <2>1. head'.epoch = head.epoch /\ head'.rev >= head.rev /\ layers' = layers
      BY <1>0, <1>3
   <2>. QED
      BY <1>1, <1>2, <2>1, HeadFits
<1>4. ASSUME NEW s \in Snapshots, PublishTx(s) PROVE (HeadReadable /\ HeadOrdered)'
   <2>0. snap[s] \in SnapshotRows /\ snap[s].kind \in {"base", "delta"}
      BY <1>0, SnapFields DEF TypeOK
   <2>1. /\ snap[s].state = "ready" /\ snap[s].epoch = head.epoch
         /\ snap[s].parent = head.rev
      BY <1>0, <1>4, ParentIsHead DEF PublishTx, OwnedCandidate
   <2>2. head' = [head EXCEPT !.rev = head.rev + 1]
      BY <1>4, <2>1 DEF PublishTx
   <2>3. head'.rev = head.rev + 1 /\ head'.epoch = head.epoch
      BY <1>0, <2>2, HeadUpdates
   <2>4. /\ snap'[s].state = "published" /\ snap'[s].kind = snap[s].kind
         /\ snap'[s].epoch = snap[s].epoch /\ snap'[s].pub = head.rev + 1
      <3>1. snap'[s] = [snap[s] EXCEPT !.state = "published", !.pub = head.rev + 1]
         BY <1>0, <1>4, <2>1 DEF PublishTx, TypeOK
      <3>. QED
         BY <2>0, <3>1 DEF SnapshotRows
   <2>5. CASE snap[s].kind = "base"
      <3>1. layers' = <<s>>
         BY <1>4, <2>5 DEF PublishTx
      <3>2. Len(layers') = 1 /\ layers'[1] = s
         BY <3>1
      <3>3. Fits(s, 1)
         BY <1>0, <2>1, <2>3, <2>4, <2>5 DEF Fits
      <3>. QED
         BY <3>2, <3>3, HeadFits
   <2>6. CASE snap[s].kind = "delta"
      <3>1. layers' = Append(layers, s) /\ Len(layers) <= MaxDeltas
         BY <1>4, <2>6 DEF PublishTx
      <3>2. /\ Len(layers') = Len(layers) + 1
            /\ layers'[Len(layers) + 1] = s
            /\ \A k \in 1..Len(layers) : layers'[k] = layers[k]
         BY <1>0, <3>1
      <3>3. \A k \in 1..Len(layers) : layers[k] # s
         BY <1>1, <2>1
      <3>4. Fits(s, Len(layers) + 1)
         BY <1>0, <1>1, <2>1, <2>3, <2>4, <2>6, <3>1 DEF Fits
      <3>5. \A k \in 1..Len(layers) : Fits(layers[k], k)
         BY <1>0, <1>2, <2>3
      <3>6. Len(layers') >= 1 /\ \A k \in 1..Len(layers') : Fits(layers'[k], k)
         BY <1>0, <3>2, <3>4, <3>5
      <3>7. \A j, k \in 1..Len(layers') : layers'[j] = layers'[k] => j = k
         BY <1>0, <1>1, <3>2, <3>3
      <3>. QED
         BY <3>6, <3>7, HeadFits
   <2>. QED
      BY <2>0, <2>5, <2>6
<1>5. ASSUME NEW s \in Snapshots, PublishCompactionTx(s) PROVE (HeadReadable /\ HeadOrdered)'
   <2>. DEFINE n == Len(prefix[s])
   <2>0. snap[s] \in SnapshotRows /\ n \in 1..Len(layers)
      BY <1>0, <1>5 DEF PublishCompactionTx, CompactionPrefix, TypeOK
   <2>1. /\ snap[s].state = "ready" /\ snap[s].epoch = head.epoch /\ snap[s].kind = "base"
      <3>1. WorkerKnows(s)
         BY DEF IInv
      <3>2. snap[s].state = "ready" /\ snap[s].epoch = head.epoch
         BY <1>5 DEF PublishCompactionTx, OwnedCandidate
      <3>. QED
         BY <1>5, <3>1, <3>2 DEF PublishCompactionTx, WorkerKnows, KindOf, Preparing
   <2>2. head' = [head EXCEPT !.rev = head.rev + 1] /\ layers' = Rebased(s, n)
      BY <1>5 DEF PublishCompactionTx
   <2>3. head'.rev = head.rev + 1 /\ head'.epoch = head.epoch
      BY <1>0, <2>2, HeadUpdates
   <2>4. /\ snap'[s].state = "published" /\ snap'[s].kind = snap[s].kind
         /\ snap'[s].epoch = snap[s].epoch /\ snap'[s].pub = head.rev + 1
      <3>1. snap'[s] = [snap[s] EXCEPT !.state = "published", !.pub = head.rev + 1]
         BY <1>0, <1>5 DEF PublishCompactionTx, TypeOK
      <3>. QED
         BY <2>0, <3>1 DEF SnapshotRows
   <2>. HIDE DEF n
   <2>5. /\ Len(layers') = Len(layers) - n + 1 /\ layers'[1] = s
         /\ \A k \in 2..(Len(layers) - n + 1) : layers'[k] = layers[n + k - 1]
      BY <1>0, <2>0, <2>2, RebasedShape
   <2>6. Fits(s, 1)
      BY <1>0, <2>1, <2>3, <2>4 DEF Fits
   <2>7. \A k \in 1..Len(layers) : layers[k] # s /\ Fits(layers[k], k)
      BY <1>0, <1>1, <1>2, <2>1, <2>3
   <2>8. ASSUME NEW k \in 2..Len(layers') PROVE Fits(layers'[k], k)
      <3>1. n + k - 1 \in 1..Len(layers) /\ n + k - 1 # 1 /\ k # 1 /\ k - 1 <= n + k - 1 - 1
         BY <1>0, <2>0, <2>5
      <3>2. Fits(layers[n + k - 1], n + k - 1) /\ layers'[k] = layers[n + k - 1]
         BY <2>5, <2>7, <3>1
      <3>. QED
         BY <1>0, <2>0, <3>1, <3>2 DEF Fits
   <2>9. Len(layers') >= 1 /\ \A k \in 1..Len(layers') : Fits(layers'[k], k)
      BY <1>0, <2>0, <2>5, <2>6, <2>8
   <2>10. \A j, k \in 1..Len(layers') : layers'[j] = layers'[k] => j = k
      <3>1. \A k \in 2..Len(layers') : n + k - 1 \in 1..Len(layers) /\ layers'[k] = layers[n + k - 1]
         BY <1>0, <2>0, <2>5
      <3>2. \A k \in 2..Len(layers') : layers'[k] # layers'[1]
         BY <2>5, <2>7, <3>1
      <3>3. ASSUME NEW j \in 2..Len(layers'), NEW k \in 2..Len(layers'), layers'[j] = layers'[k]
            PROVE  j = k
         <4>. DEFINE a == n + j - 1  b == n + k - 1
         <4>1. a \in 1..Len(layers) /\ b \in 1..Len(layers) /\ layers[a] = layers[b]
            BY <3>1, <3>3
         <4>2. \A x, y \in 1..Len(layers) : layers[x] = layers[y] => x = y
            BY <1>1
         <4>. HIDE DEF a, b
         <4>3. a = b
            BY <4>1, <4>2
         <4>. QED
            BY <2>0, <4>3 DEF a, b
      <3>4. \A k \in 1..Len(layers') : k = 1 \/ k \in 2..Len(layers')
         BY <1>0, <2>0, <2>5
      <3>. QED
         BY <3>2, <3>3, <3>4
   <2>. QED
      BY <2>9, <2>10, HeadFits
<1>6. ASSUME NEW s \in Snapshots, ChangeSource(s) PROVE (HeadReadable /\ HeadOrdered)'
   <2>1. layers' = <<s>> /\ head' = [head EXCEPT !.rev = head.rev + 1, !.epoch = head.epoch + 1]
      BY <1>6 DEF ChangeSource
   <2>2. head'.rev = head.rev + 1 /\ head'.epoch = head.epoch + 1
      BY <1>0, <2>1, HeadUpdates
   <2>3. snap'[s] = [kind |-> "base", state |-> "published", parent |-> head.rev,
                     epoch |-> head.epoch + 1, config |-> head.config, pub |-> head.rev + 1]
      BY <1>6 DEF ChangeSource
   <2>4. Fits(s, 1)
      BY <1>0, <2>2, <2>3 DEF Fits
   <2>5. Len(layers') = 1 /\ layers'[1] = s
      BY <2>1
   <2>. QED
      BY <2>4, <2>5, HeadFits
<1>7. ASSUME NEW c \in Configs, ChangeConfig(c) PROVE (HeadReadable /\ HeadOrdered)'
   <2>1. layers' = layers /\ head' = [head EXCEPT !.rev = head.rev + 1, !.config = c]
      BY <1>7 DEF ChangeConfig
   <2>2. head'.rev = head.rev + 1 /\ head'.epoch = head.epoch
      BY <1>0, <2>1, HeadUpdates
   <2>3. head'.epoch = head.epoch /\ head'.rev >= head.rev
      BY <1>0, <2>2
   <2>. QED
      BY <1>1, <1>2, <2>1, <2>3, HeadFits
<1>. QED
   BY <1>3, <1>4, <1>5, <1>6, <1>7, HeadFrame DEF HeadMoves


-----------------------------------------------------------------------------
(* Candidates and their workers                                              *)

\* What does not exist yet goes on saying nothing.
LEMMA AbsentStep ==
    ASSUME IInv, [Next]_vars, NEW t \in Snapshots
    PROVE  AbsentEmpty(t)'
<1>0. TypeOK /\ AbsentEmpty(t) /\ snap[t] \in SnapshotRows
   BY DEF IInv, TypeOK
<1>1. CASE Untouched(t)
   BY <1>0, <1>1 DEF Untouched, AbsentEmpty, NoFacts
<1>2. CASE Abandoned(t)
   BY <1>0, <1>2 DEF Abandoned, AbsentEmpty, SnapshotRows
<1>3. ASSUME NEW p \in {"delta", "base", "compaction"}, Read(t, p) PROVE AbsentEmpty(t)'
   BY <1>0, <1>3 DEF Read, AbsentEmpty, NoFacts
<1>4. CASE BeginCandidate(t)
   <2>1. snap'[t].state # "absent"
      BY <1>0, <1>4 DEF BeginCandidate, OwnedCandidate, AppendBatch, TypeOK, SnapshotRows
   <2>. QED
      BY <2>1 DEF AbsentEmpty
<1>5. CASE GiveUpRead(t)
   BY <1>0, <1>5 DEF GiveUpRead, AbsentEmpty, NoFacts
<1>6. CASE AppendFact(t)
   <2>1. snap'[t].state # "absent"
      BY <1>0, <1>6 DEF AppendFact, OwnedCandidate, AppendBatch, TypeOK, SnapshotRows
   <2>. QED
      BY <2>1 DEF AbsentEmpty
<1>7. CASE AcquirePrefix(t)
   BY <1>0, <1>7 DEF AcquirePrefix, AbsentEmpty, NoFacts
<1>8. CASE CopyRead(t)
   BY <1>0, <1>8 DEF CopyRead, AbsentEmpty, NoFacts
<1>9. CASE CopyAppend(t)
   <2>1. snap'[t].state # "absent"
      BY <1>0, <1>9 DEF CopyAppend, OwnedCandidate, AppendBatch, TypeOK, SnapshotRows
   <2>. QED
      BY <2>1 DEF AbsentEmpty
<1>10. CASE SealFreeze(t)
   <2>1. snap'[t].state # "absent"
      BY <1>0, <1>10 DEF SealFreeze, OwnedCandidate, AppendBatch, TypeOK, SnapshotRows
   <2>. QED
      BY <2>1 DEF AbsentEmpty
<1>11. CASE SealValidate(t)
   BY <1>0, <1>11 DEF SealValidate, AbsentEmpty, NoFacts
<1>12. CASE SealReady(t)
   <2>1. snap'[t].state # "absent"
      BY <1>0, <1>12 DEF SealReady, OwnedCandidate, AppendBatch, TypeOK, SnapshotRows
   <2>. QED
      BY <2>1 DEF AbsentEmpty
<1>13. CASE PublishTx(t)
   <2>1. snap'[t].state # "absent"
      BY <1>0, <1>13 DEF PublishTx, OwnedCandidate, AppendBatch, TypeOK, SnapshotRows
   <2>. QED
      BY <2>1 DEF AbsentEmpty
<1>14. CASE PublishCompactionTx(t)
   <2>1. snap'[t].state # "absent"
      BY <1>0, <1>14 DEF PublishCompactionTx, OwnedCandidate, AppendBatch, TypeOK, SnapshotRows
   <2>. QED
      BY <2>1 DEF AbsentEmpty
<1>15. CASE AuthorityLapses(t)
   BY <1>0, <1>15 DEF AuthorityLapses, AbsentEmpty, NoFacts
<1>16. CASE AuthorityGone(t)
   BY <1>0, <1>16 DEF AuthorityGone, AbsentEmpty, NoFacts
<1>17. CASE MarkGC(t)
   <2>1. snap'[t].state # "absent"
      BY <1>0, <1>17 DEF MarkGC, OwnedCandidate, AppendBatch, TypeOK, SnapshotRows
   <2>. QED
      BY <2>1 DEF AbsentEmpty
<1>18. CASE CollectBatch(t)
   <2>1. snap'[t].state # "absent"
      BY <1>0, <1>18 DEF CollectBatch, OwnedCandidate, AppendBatch, TypeOK, SnapshotRows
   <2>. QED
      BY <2>1 DEF AbsentEmpty
<1>19. CASE ChangeSource(t)
   <2>1. snap'[t].state # "absent"
      BY <1>0, <1>19 DEF ChangeSource, OwnedCandidate, AppendBatch, TypeOK, SnapshotRows
   <2>. QED
      BY <2>1 DEF AbsentEmpty
<1>20. Touches(t)
   BY TouchFrame DEF IInv
<1>. QED
   BY <1>1, <1>2, <1>3, <1>4, <1>5, <1>6, <1>7, <1>8, <1>9, <1>10, <1>11, <1>12, <1>13,
      <1>14, <1>15, <1>16, <1>17, <1>18, <1>19, <1>20
   DEF Touches, OwnStep

\* A worker goes on knowing what it prepares and for which head.
LEMMA WorkerStep ==
    ASSUME IInv, [Next]_vars, NEW t \in Snapshots
    PROVE  WorkerKnows(t)'
<1>0. TypeOK /\ WorkerKnows(t) /\ snap[t] \in SnapshotRows /\ work[t] \in WorkRows
      /\ head.rev \in Nat /\ head'.rev \in Nat /\ work[t].rev \in Nat
   <2>1. TypeOK /\ TypeOK'
      BY TypeStep DEF IInv
   <2>. QED
      BY <2>1 DEF IInv, TypeOK, WorkRows
<1>k. Working(t) =>
          /\ work[t].rev <= head'.rev
          /\ work[t].rev = head'.rev => work[t].seen = Visible(layers)'
          /\ snap[t].state \in {"absent"} \cup Preparing
          /\ snap[t].state \in Preparing =>
                snap[t].parent = work[t].rev /\ snap[t].kind = KindOf(work[t].purpose)
   <2>1. UNCHANGED <<head, layers>> \/ head'.rev > head.rev
      BY <1>0, HeadForward
   <2>2. UNCHANGED layers => Visible(layers)' = Visible(layers)
      <3>1. VisibleIn(facts', layers) = Visible(layers)
         BY LayersKept
      <3>. QED
         BY <3>1 DEF Visible, VisibleIn
   <2>. QED
      BY <1>0, <2>1, <2>2 DEF WorkerKnows
<1>1. CASE Untouched(t)
   BY <1>k, <1>1 DEF Untouched, WorkerKnows, Working
<1>2. CASE Abandoned(t)
   <2>1. work'[t].purpose = "none"
      BY <1>2 DEF Abandoned, NoWork
   <2>. QED
      BY <2>1 DEF WorkerKnows, Working
<1>3. ASSUME NEW p \in {"delta", "base", "compaction"}, Read(t, p) PROVE WorkerKnows(t)'
   <2>1. /\ work'[t].rev = head'.rev /\ work'[t].seen = Visible(layers)
         /\ snap'[t].state = "absent" /\ facts' = facts /\ layers' = layers
      BY <1>0, <1>3 DEF Read, TypeOK
   <2>2. Visible(layers)' = Visible(layers)
      BY <2>1 DEF Visible
   <2>. QED
      BY <1>0, <2>1, <2>2 DEF WorkerKnows, Preparing
<1>4. CASE BeginCandidate(t)
   <2>1. /\ work'[t].rev = work[t].rev /\ work'[t].seen = work[t].seen
         /\ work'[t].purpose = work[t].purpose /\ Working(t)
      BY <1>0, <1>4 DEF BeginCandidate, TypeOK, WorkRows
   <2>2. /\ snap'[t].state = "building" /\ snap'[t].parent = work[t].rev
         /\ snap'[t].kind = KindOf(work[t].purpose)
      BY <1>0, <1>4 DEF BeginCandidate, TypeOK
   <2>. QED
      BY <1>k, <2>1, <2>2 DEF WorkerKnows, Preparing, KindOf
<1>5. CASE GiveUpRead(t)
   <2>1. work'[t].purpose = "none"
      BY <1>0, <1>5 DEF GiveUpRead, NoWork, TypeOK
   <2>. QED
      BY <2>1 DEF WorkerKnows, Working
<1>6. CASE AppendFact(t)
   <2>1. /\ work'[t].rev = work[t].rev /\ work'[t].seen = work[t].seen
         /\ work'[t].purpose = work[t].purpose /\ snap'[t] = snap[t]
      BY <1>0, <1>6 DEF AppendFact, AppendBatch, TypeOK, WorkRows
   <2>. QED
      BY <1>k, <2>1 DEF WorkerKnows, Working
<1>7. CASE AcquirePrefix(t)
   <2>1. /\ work'[t].rev = work[t].rev /\ work'[t].seen = work[t].seen
         /\ work'[t].purpose = work[t].purpose /\ snap'[t] = snap[t]
      BY <1>0, <1>7 DEF AcquirePrefix, TypeOK, WorkRows
   <2>. QED
      BY <1>k, <2>1 DEF WorkerKnows, Working
<1>8. CASE CopyRead(t)
   <2>1. /\ snap' = snap
         /\ \/ work' = [work EXCEPT ![t].copied = TRUE]
            \/ \E r \in Visible(work[t].layers) : work' = [work EXCEPT ![t].batch = r]
      BY <1>8 DEF CopyRead
   <2>2. /\ work'[t].rev = work[t].rev /\ work'[t].seen = work[t].seen
         /\ work'[t].purpose = work[t].purpose /\ snap'[t] = snap[t]
      BY <1>0, <2>1 DEF TypeOK, WorkRows
   <2>. QED
      BY <1>k, <2>2 DEF WorkerKnows, Working
<1>9. CASE CopyAppend(t)
   <2>1. /\ work'[t].rev = work[t].rev /\ work'[t].seen = work[t].seen
         /\ work'[t].purpose = work[t].purpose /\ snap'[t] = snap[t]
      BY <1>0, <1>9 DEF CopyAppend, AppendBatch, TypeOK, WorkRows
   <2>. QED
      BY <1>k, <2>1 DEF WorkerKnows, Working
<1>10. CASE SealFreeze(t)
   <2>1. /\ work'[t] = work[t] /\ snap'[t].state \in Preparing
         /\ snap'[t].parent = snap[t].parent /\ snap'[t].kind = snap[t].kind
         /\ snap[t].state \in Preparing
      BY <1>0, <1>10 DEF SealFreeze, OwnedCandidate, TypeOK, SnapshotRows, Preparing
   <2>. QED
      BY <1>k, <2>1 DEF WorkerKnows, Working
<1>11. CASE SealValidate(t)
   <2>1. /\ work'[t].rev = work[t].rev /\ work'[t].seen = work[t].seen
         /\ work'[t].purpose = work[t].purpose /\ snap'[t] = snap[t]
      BY <1>0, <1>11 DEF SealValidate, TypeOK, WorkRows
   <2>. QED
      BY <1>k, <2>1 DEF WorkerKnows, Working
<1>12. CASE SealReady(t)
   <2>1. /\ work'[t] = work[t] /\ snap'[t].state \in Preparing
         /\ snap'[t].parent = snap[t].parent /\ snap'[t].kind = snap[t].kind
         /\ snap[t].state \in Preparing
      BY <1>0, <1>12 DEF SealReady, OwnedCandidate, TypeOK, SnapshotRows, Preparing
   <2>. QED
      BY <1>k, <2>1 DEF WorkerKnows, Working
<1>13. CASE PublishTx(t)
   <2>1. work'[t].purpose = "none"
      BY <1>0, <1>13 DEF PublishTx, NoWork, TypeOK
   <2>. QED
      BY <2>1 DEF WorkerKnows, Working
<1>14. CASE PublishCompactionTx(t)
   <2>1. work'[t].purpose = "none"
      BY <1>0, <1>14 DEF PublishCompactionTx, NoWork, TypeOK
   <2>. QED
      BY <2>1 DEF WorkerKnows, Working
<1>15. CASE AuthorityLapses(t)
   <2>1. work'[t].purpose = "none"
      BY <1>0, <1>15 DEF AuthorityLapses, NoWork, TypeOK
   <2>. QED
      BY <2>1 DEF WorkerKnows, Working
<1>16. CASE AuthorityGone(t)
   <2>1. /\ work'[t].rev = work[t].rev /\ work'[t].seen = work[t].seen
         /\ work'[t].purpose = work[t].purpose /\ snap'[t] = snap[t]
      BY <1>0, <1>16 DEF AuthorityGone, TypeOK, WorkRows
   <2>. QED
      BY <1>k, <2>1 DEF WorkerKnows, Working
<1>17. CASE MarkGC(t)
   <2>1. work'[t].purpose = "none"
      BY <1>0, <1>17 DEF MarkGC, WorkerKnows, Working, Preparing, Live, TypeOK
   <2>. QED
      BY <2>1 DEF WorkerKnows, Working
<1>18. CASE CollectBatch(t)
   <2>1. work'[t].purpose = "none"
      BY <1>0, <1>18 DEF CollectBatch, WorkerKnows, Working, Preparing, Live, TypeOK
   <2>. QED
      BY <2>1 DEF WorkerKnows, Working
<1>19. CASE ChangeSource(t)
   <2>1. work'[t].purpose = "none"
      BY <1>0, <1>19 DEF ChangeSource, WorkerKnows, Working, Preparing, Live, TypeOK
   <2>. QED
      BY <2>1 DEF WorkerKnows, Working
<1>20. Touches(t)
   BY TouchFrame DEF IInv
<1>. QED
   BY <1>1, <1>2, <1>3, <1>4, <1>5, <1>6, <1>7, <1>8, <1>9, <1>10, <1>11, <1>12, <1>13,
      <1>14, <1>15, <1>16, <1>17, <1>18, <1>19, <1>20
   DEF Touches, OwnStep

\* The references of a compaction go on being held.
LEMMA PrefixStep ==
    ASSUME IInv, [Next]_vars, NEW t \in Snapshots
    PROVE  PrefixHeld(t)'
<1>0. /\ TypeOK /\ PrefixHeld(t) /\ snap[t] \in SnapshotRows /\ work[t] \in WorkRows
      /\ prefix[t] \in Seq(Snapshots)
   BY DEF IInv, TypeOK
<1>k. prefix[t] # <<>> => \A k \in 1..Len(prefix[t]) : snap'[prefix[t][k]].state = "published"
   <2>. SUFFICES ASSUME prefix[t] # <<>>, NEW k \in 1..Len(prefix[t])
                 PROVE  snap'[prefix[t][k]].state = "published"
      OBVIOUS
   <2>1. prefix[t][k] \in Snapshots /\ Referenced(prefix[t][k])
      BY <1>0 DEF Referenced, InLayers
   <2>2. snap[prefix[t][k]].state = "published" /\ Settled(prefix[t][k])
      BY <1>0 DEF PrefixHeld, Settled
   <2>3. SettledKept(prefix[t][k])
      BY <1>0, <2>1, <2>2, SettledStep
   <2>. QED
      BY <2>1, <2>2, <2>3 DEF SettledKept
<1>1. CASE Untouched(t)
   BY <1>0, <1>k, <1>1 DEF Untouched, PrefixHeld, Working
<1>2. CASE Abandoned(t)
   BY <1>2 DEF Abandoned, PrefixHeld
<1>3. ASSUME NEW p \in {"delta", "base", "compaction"}, Read(t, p) PROVE PrefixHeld(t)'
   <2>1. prefix'[t] = <<>>
      BY <1>0, <1>3 DEF Read, PrefixHeld, Preparing, TypeOK
   <2>. QED
      BY <2>1 DEF PrefixHeld
<1>4. CASE BeginCandidate(t)
   <2>1. prefix'[t] = <<>>
      BY <1>0, <1>4 DEF BeginCandidate, PrefixHeld, Preparing, TypeOK
   <2>. QED
      BY <2>1 DEF PrefixHeld
<1>5. CASE GiveUpRead(t)
   <2>1. prefix'[t] = <<>>
      BY <1>0, <1>5 DEF GiveUpRead, PrefixHeld, Preparing, TypeOK
   <2>. QED
      BY <2>1 DEF PrefixHeld
<1>6. CASE AppendFact(t)
   <2>1. /\ prefix'[t] = prefix[t]
         /\ snap'[t].state = snap[t].state
         /\ Working(t)' => /\ Working(t) /\ work'[t].purpose = work[t].purpose
                            /\ work'[t].layers = work[t].layers
      BY <1>0, <1>6 DEF AppendFact, AppendBatch, Working, Preparing, TypeOK, SnapshotRows, WorkRows
   <2>. QED
      BY <1>0, <1>k, <2>1 DEF PrefixHeld
<1>7. CASE AcquirePrefix(t)
   <2>1. /\ prefix'[t] = work[t].layers /\ work' = work /\ snap' = snap
         /\ snap[t].state = "building" /\ work[t].purpose = "compaction"
         /\ \A k \in 1..Len(work[t].layers) : snap[work[t].layers[k]].state = "published"
      BY <1>0, <1>7 DEF AcquirePrefix, OwnedCandidate, TypeOK
   <2>. QED
      BY <2>1 DEF PrefixHeld, Preparing, Working
<1>8. CASE CopyRead(t)
   <2>1. /\ prefix' = prefix /\ snap' = snap /\ Working(t)
         /\ \/ work' = [work EXCEPT ![t].copied = TRUE]
            \/ \E r \in Visible(work[t].layers) : work' = [work EXCEPT ![t].batch = r]
      BY <1>8 DEF CopyRead
   <2>2. work'[t].purpose = work[t].purpose /\ work'[t].layers = work[t].layers
      BY <1>0, <2>1 DEF TypeOK, WorkRows
   <2>. QED
      BY <1>0, <1>k, <2>1, <2>2 DEF PrefixHeld, Working
<1>9. CASE CopyAppend(t)
   <2>1. /\ prefix'[t] = prefix[t]
         /\ snap'[t].state = snap[t].state
         /\ Working(t)' => /\ Working(t) /\ work'[t].purpose = work[t].purpose
                            /\ work'[t].layers = work[t].layers
      BY <1>0, <1>9 DEF CopyAppend, AppendBatch, Working, Preparing, TypeOK, SnapshotRows, WorkRows
   <2>. QED
      BY <1>0, <1>k, <2>1 DEF PrefixHeld
<1>10. CASE SealFreeze(t)
   <2>1. /\ prefix'[t] = prefix[t]
         /\ snap'[t].state \in Preparing
         /\ Working(t)' => /\ Working(t) /\ work'[t].purpose = work[t].purpose
                            /\ work'[t].layers = work[t].layers
      BY <1>0, <1>10 DEF SealFreeze, Working, Preparing, TypeOK, SnapshotRows, WorkRows
   <2>. QED
      BY <1>0, <1>k, <2>1 DEF PrefixHeld
<1>11. CASE SealValidate(t)
   <2>1. /\ prefix'[t] = prefix[t]
         /\ snap'[t].state = snap[t].state
         /\ Working(t)' => /\ Working(t) /\ work'[t].purpose = work[t].purpose
                            /\ work'[t].layers = work[t].layers
      BY <1>0, <1>11 DEF SealValidate, Working, Preparing, TypeOK, SnapshotRows, WorkRows
   <2>. QED
      BY <1>0, <1>k, <2>1 DEF PrefixHeld
<1>12. CASE SealReady(t)
   <2>1. /\ prefix'[t] = prefix[t]
         /\ snap'[t].state \in Preparing
         /\ Working(t)' => /\ Working(t) /\ work'[t].purpose = work[t].purpose
                            /\ work'[t].layers = work[t].layers
      BY <1>0, <1>12 DEF SealReady, Working, Preparing, TypeOK, SnapshotRows, WorkRows
   <2>. QED
      BY <1>0, <1>k, <2>1 DEF PrefixHeld
<1>13. CASE PublishTx(t)
   <2>1. prefix'[t] = <<>>
      BY <1>0, <1>13 DEF PublishTx, PrefixHeld, Preparing, TypeOK
   <2>. QED
      BY <2>1 DEF PrefixHeld
<1>14. CASE PublishCompactionTx(t)
   <2>1. prefix'[t] = <<>>
      BY <1>0, <1>14 DEF PublishCompactionTx, TypeOK
   <2>. QED
      BY <2>1 DEF PrefixHeld
<1>15. CASE AuthorityLapses(t)
   <2>1. /\ prefix'[t] = prefix[t]
         /\ snap'[t].state = snap[t].state
         /\ Working(t)' => /\ Working(t) /\ work'[t].purpose = work[t].purpose
                            /\ work'[t].layers = work[t].layers
      BY <1>0, <1>15 DEF AuthorityLapses, NoWork, Working, Preparing, TypeOK, SnapshotRows, WorkRows
   <2>. QED
      BY <1>0, <1>k, <2>1 DEF PrefixHeld
<1>16. CASE AuthorityGone(t)
   <2>1. /\ prefix'[t] = prefix[t]
         /\ snap'[t].state = snap[t].state
         /\ Working(t)' => /\ Working(t) /\ work'[t].purpose = work[t].purpose
                            /\ work'[t].layers = work[t].layers
      BY <1>0, <1>16 DEF AuthorityGone, Working, Preparing, TypeOK, SnapshotRows, WorkRows
   <2>. QED
      BY <1>0, <1>k, <2>1 DEF PrefixHeld
<1>17. CASE MarkGC(t)
   <2>1. prefix'[t] = <<>>
      BY <1>0, <1>17 DEF MarkGC, PrefixHeld, Preparing, TypeOK
   <2>. QED
      BY <2>1 DEF PrefixHeld
<1>18. CASE CollectBatch(t)
   <2>1. prefix'[t] = <<>>
      BY <1>0, <1>18 DEF CollectBatch, PrefixHeld, Preparing, TypeOK
   <2>. QED
      BY <2>1 DEF PrefixHeld
<1>19. CASE ChangeSource(t)
   <2>1. prefix'[t] = <<>>
      BY <1>0, <1>19 DEF ChangeSource, PrefixHeld, Preparing, TypeOK
   <2>. QED
      BY <2>1 DEF PrefixHeld
<1>20. Touches(t)
   BY TouchFrame DEF IInv
<1>. QED
   BY <1>1, <1>2, <1>3, <1>4, <1>5, <1>6, <1>7, <1>8, <1>9, <1>10, <1>11, <1>12, <1>13,
      <1>14, <1>15, <1>16, <1>17, <1>18, <1>19, <1>20
   DEF Touches, OwnStep

\* The layers a compaction copies from state the same rows after the step, once
\* they are pinned.
LEMMA CopiedRowsKept ==
    ASSUME IInv, [Next]_vars, NEW t \in Snapshots, Working(t), prefix[t] # <<>>
    PROVE  VisibleIn(facts', work[t].layers) = Visible(work[t].layers)
<1>1. TypeOK /\ PrefixHeld(t) /\ prefix[t] \in Seq(Snapshots)
   BY DEF IInv, TypeOK
<1>2. prefix[t] = work[t].layers /\ \A k \in 1..Len(prefix[t]) : snap[prefix[t][k]].state = "published"
   BY <1>1 DEF PrefixHeld
<1>3. VisibleIn(facts', prefix[t]) = VisibleIn(facts, prefix[t])
   BY <1>1, <1>2, VisibleKept
<1>4. Visible(work[t].layers) = VisibleIn(facts, work[t].layers)
   BY DEF Visible, VisibleIn
<1>. QED
   BY <1>2, <1>3, <1>4

\* A copy that has not begun is a copy of any rows up to cursor 0.
LEMMA NothingCopied ==
    ASSUME NEW V \in SUBSET (Ids \X Vals), NEW f, NEW w, w.after = 0, w.batch = None, ~w.copied,
           \A r \in Ids \X Vals : f[r[1]] # r[2]
    PROVE  CopyOf(V, f, w)
<1>1. ASSUME NEW r \in Ids \X Vals PROVE ~(r[1] <= 0)
   <2>1. r[1] \in Ids
      OBVIOUS
   <2>2. r[1] \in Nat /\ r[1] # 0
      BY <2>1, IdsAssumption
   <2>. QED
      BY <2>2
<1>. QED
   BY <1>1 DEF CopyOf

\* One batch more.
LEMMA BatchCopied ==
    ASSUME NEW V \in SUBSET (Ids \X Vals), \A q, r \in V : q[1] = r[1] => q = r,
           NEW f \in Facts, NEW w \in WorkRows, CopyOf(V, f, w), w.batch # None
    PROVE  /\ CopyOf(V, [f EXCEPT ![w.batch[1]] = w.batch[2]],
                     [w EXCEPT !.after = w.batch[1], !.batch = None])
           /\ ~w.copied
<1>. DEFINE b == w.batch
            g == [f EXCEPT ![b[1]] = b[2]]
            x == [w EXCEPT !.after = b[1], !.batch = None]
<1>1. /\ b \in V /\ b[1] \in Ids /\ w.after \in Nat /\ w.after < b[1]
      /\ \A q \in V : w.after < q[1] => b[1] <= q[1]
   BY DEF CopyOf, WorkRows
<1>2. b[1] \in Nat /\ \A r \in Ids \X Vals : r[1] \in Nat
   BY <1>1, IdsAssumption
<1>3. ~w.copied
   <2>1. w.copied => b[1] <= w.after
      BY <1>1 DEF CopyOf
   <2>. QED
      BY <1>1, <1>2, <2>1
<1>4. x.after = b[1] /\ x.batch = None /\ x.copied = w.copied
   BY DEF WorkRows
<1>5. ASSUME NEW r \in Ids \X Vals PROVE g[r[1]] = r[2] <=> r \in V /\ r[1] <= b[1]
   <2>0. f[r[1]] = r[2] <=> r \in V /\ r[1] <= w.after
      BY DEF CopyOf
   <2>1. CASE r[1] = b[1]
      <3>1. g[r[1]] = b[2] /\ b[1] <= b[1] /\ b \in Ids \X Vals
         BY <1>1, <1>2, <2>1 DEF Facts
      <3>2. r[2] = b[2] <=> r = b
         BY <2>1, <3>1
      <3>3. r \in V => r = b
         BY <1>1, <2>1
      <3>. QED
         BY <1>1, <2>1, <3>1, <3>2, <3>3
   <2>2. CASE r[1] # b[1]
      <3>1. g[r[1]] = f[r[1]]
         BY <2>2 DEF Facts
      <3>2. r \in V => (r[1] <= w.after <=> r[1] <= b[1])
         BY <1>1, <1>2, <2>2
      <3>. QED
         BY <2>0, <3>1, <3>2
   <2>. QED
      BY <2>1, <2>2
<1>6. CopyOf(V, g, x)
   <2>. HIDE DEF g, x, b
   <2>. QED
      BY <1>3, <1>4, <1>5 DEF CopyOf
<1>. QED
   BY <1>3, <1>6


\* A step that leaves the copy alone.
LEMMA CopySame ==
    ASSUME IInv, [Next]_vars, NEW t \in Snapshots, facts'[t] = facts[t],
           work'[t].purpose = work[t].purpose, work'[t].layers = work[t].layers,
           work'[t].after = work[t].after, work'[t].batch = work[t].batch,
           work'[t].copied = work[t].copied,
           prefix'[t] = <<>> => prefix[t] = <<>>,
           work[t].purpose = "compaction" /\ snap'[t].state \in {"validating", "ready"}
              => work[t].copied
    PROVE  CopySound(t)'
<1>. SUFFICES ASSUME work[t].purpose = "compaction" PROVE CopySound(t)'
   BY DEF CopySound
<1>1. /\ CopyOf(Visible(work[t].layers), facts[t], work[t]) /\ Working(t)
      /\ prefix[t] = <<>> => work[t].after = 0 /\ work[t].batch = None /\ ~work[t].copied
   BY DEF IInv, CopySound, Working
<1>2. Visible(work[t].layers)' = VisibleIn(facts', work[t].layers)
   BY DEF Visible, VisibleIn
<1>3. CopyOf(VisibleIn(facts', work[t].layers), facts[t], work[t])
   <2>1. CASE prefix[t] = <<>>
      <3>1. ASSUME NEW r \in Ids \X Vals PROVE facts[t][r[1]] # r[2]
         <4>1. facts[t][r[1]] = r[2] => r[1] <= 0
            BY <1>1, <2>1 DEF CopyOf
         <4>2. r[1] \in Ids
            OBVIOUS
         <4>3. r[1] \in Nat /\ r[1] # 0
            BY <4>2, IdsAssumption
         <4>. QED
            BY <4>1, <4>3
      <3>2. VisibleIn(facts', work[t].layers) \in SUBSET (Ids \X Vals)
         BY DEF VisibleIn
      <3>. QED
         BY <1>1, <2>1, <3>1, <3>2, NothingCopied
   <2>2. CASE prefix[t] # <<>>
      BY <1>1, <2>2, CopiedRowsKept
   <2>. QED
      BY <2>1, <2>2
<1>4. CopyOf(Visible(work[t].layers), facts[t], work[t])'
   BY <1>2, <1>3 DEF CopyOf
<1>. QED
   BY <1>1, <1>4 DEF CopySound


\* The copy of a compaction stays exact, although its batches are read in one
\* transaction and written in another.
LEMMA CopyStep ==
    ASSUME IInv, [Next]_vars, NEW t \in Snapshots
    PROVE  CopySound(t)'
<1>0. /\ TypeOK /\ CopySound(t) /\ WorkerKnows(t) /\ AbsentEmpty(t)
      /\ snap[t] \in SnapshotRows /\ work[t] \in WorkRows
   BY DEF IInv, TypeOK
<1>1. CASE Untouched(t)
   <2>1. /\ facts'[t] = facts[t] /\ work'[t] = work[t] /\ prefix'[t] = prefix[t]
         /\ snap'[t] = snap[t]
      BY <1>1 DEF Untouched
   <2>. QED
      BY <1>0, <2>1, CopySame DEF CopySound
<1>2. CASE Abandoned(t)
   <2>1. work'[t].purpose = "none"
      BY <1>2 DEF Abandoned, NoWork
   <2>. QED
      BY <2>1 DEF CopySound
<1>3. ASSUME NEW p \in {"delta", "base", "compaction"}, Read(t, p) PROVE CopySound(t)'
   <2>1. /\ work'[t].after = 0 /\ work'[t].batch = None /\ ~work'[t].copied
         /\ snap'[t].state = "absent" /\ facts' = facts /\ snap[t].state = "absent"
      BY <1>0, <1>3 DEF Read, TypeOK
   <2>2. \A r \in Ids \X Vals : facts'[t][r[1]] # r[2]
      BY <1>0, <2>1, ValsAssumption DEF AbsentEmpty, NoFacts
   <2>3. Visible(work[t].layers)' \in SUBSET (Ids \X Vals)
      BY DEF Visible
   <2>4. CopyOf(Visible(work[t].layers), facts[t], work[t])'
      <3>1. ASSUME NEW V \in SUBSET (Ids \X Vals) PROVE CopyOf(V, facts'[t], work'[t])
         BY <2>1, <2>2, NothingCopied
      <3>. QED
         BY <2>3, <3>1 DEF CopyOf
   <2>. QED
      BY <2>1, <2>4 DEF CopySound
<1>4. CASE BeginCandidate(t)
   <2>1. /\ facts'[t] = facts[t]
         /\ work'[t].purpose = work[t].purpose /\ work'[t].layers = work[t].layers
         /\ work'[t].after = work[t].after /\ work'[t].batch = work[t].batch
         /\ work'[t].copied = work[t].copied
         /\ prefix'[t] = <<>> => prefix[t] = <<>>
         /\ (snap'[t].state \in {"validating", "ready"} => snap[t].state \in {"validating", "ready"})
      BY <1>0, <1>4 DEF BeginCandidate, OwnedCandidate, TypeOK, WorkRows, SnapshotRows
   <2>. QED
      BY <1>0, <2>1, CopySame DEF CopySound
<1>5. CASE GiveUpRead(t)
   <2>1. work'[t].purpose # "compaction"
      BY <1>0, <1>5 DEF GiveUpRead, WorkerKnows, Working, Preparing, Live, NoWork, TypeOK
   <2>. QED
      BY <2>1 DEF CopySound
<1>6. CASE AppendFact(t)
   <2>1. work'[t].purpose # "compaction"
      BY <1>0, <1>6 DEF AppendFact, WorkerKnows, Working, Preparing, Live, NoWork, TypeOK
   <2>. QED
      BY <2>1 DEF CopySound
<1>7. CASE AcquirePrefix(t)
   <2>1. /\ facts'[t] = facts[t]
         /\ work'[t].purpose = work[t].purpose /\ work'[t].layers = work[t].layers
         /\ work'[t].after = work[t].after /\ work'[t].batch = work[t].batch
         /\ work'[t].copied = work[t].copied
         /\ prefix'[t] = <<>> => prefix[t] = <<>>
         /\ (snap'[t].state \in {"validating", "ready"} => snap[t].state \in {"validating", "ready"})
      BY <1>0, <1>7 DEF AcquirePrefix, OwnedCandidate, TypeOK, WorkRows, SnapshotRows
   <2>. QED
      BY <1>0, <2>1, CopySame DEF CopySound
<1>8. CASE CopyRead(t)
   <2>0. work[t].purpose = "compaction" /\ Working(t) /\ prefix[t] # <<>> /\ ~work[t].copied
         /\ work[t].batch = None /\ facts' = facts /\ prefix' = prefix /\ snap' = snap
         /\ snap[t].state = "building"
      BY <1>8 DEF CopyRead, OwnedCandidate
   <2>. DEFINE V == Visible(work[t].layers)
   <2>1. CopyOf(V, facts[t], work[t]) /\ V \in SUBSET (Ids \X Vals)
      BY <1>0, <2>0, VisibleType DEF CopySound
   <2>2. ASSUME work'[t].layers = work[t].layers PROVE Visible(work[t].layers)' = V
      BY <2>0, <2>2 DEF Visible
   <2>3. ASSUME work' = [work EXCEPT ![t].copied = TRUE],
                {r \in V : r[1] > work[t].after} = {}
         PROVE  CopySound(t)'
      <3>1. /\ work'[t].layers = work[t].layers /\ work'[t].after = work[t].after
            /\ work'[t].batch = None /\ work'[t].copied
         BY <1>0, <2>0, <2>3 DEF TypeOK, WorkRows
      <3>2. work[t].after \in Nat /\ \A q \in V : q[1] \in Nat
         BY <1>0, <2>1, IdsAssumption DEF WorkRows
      <3>3. \A q \in V : q[1] <= work[t].after
         BY <2>3, <3>2
      <3>. HIDE DEF V
      <3>4. CopyOf(V, facts'[t], work'[t])
         BY <2>0, <2>1, <3>1, <3>3 DEF CopyOf
      <3>. QED
         BY <2>0, <2>2, <3>1, <3>4 DEF CopySound, CopyOf
   <2>4. ASSUME NEW r \in V, r[1] > work[t].after, work' = [work EXCEPT ![t].batch = r],
                \A q \in V : q[1] > work[t].after => r[1] <= q[1]
         PROVE  CopySound(t)'
      <3>1. /\ work'[t].layers = work[t].layers /\ work'[t].after = work[t].after
            /\ work'[t].batch = r /\ ~work'[t].copied
         BY <1>0, <2>0, <2>4 DEF TypeOK, WorkRows
      <3>2. work[t].after \in Nat /\ \A q \in V : q[1] \in Nat
         BY <1>0, <2>1, IdsAssumption DEF WorkRows
      <3>. HIDE DEF V
      <3>4. CopyOf(V, facts'[t], work'[t])
         BY <2>0, <2>1, <2>4, <3>1, <3>2 DEF CopyOf
      <3>. QED
         BY <2>0, <2>2, <3>1, <3>4 DEF CopySound, CopyOf
   <2>. QED
      BY <1>8, <2>3, <2>4 DEF CopyRead
<1>9. CASE CopyAppend(t)
   <2>0. /\ work[t].purpose = "compaction" /\ Working(t) /\ work[t].batch # None
         /\ facts[t] \in Facts /\ prefix' = prefix /\ snap' = snap
         /\ snap[t].state = "building"
      BY <1>0, <1>9 DEF CopyAppend, AppendBatch, OwnedCandidate, TypeOK
   <2>. DEFINE V == Visible(work[t].layers)
               w == work[t]
   <2>1. CopyOf(V, facts[t], w) /\ V \in SUBSET (Ids \X Vals) /\ prefix[t] # <<>>
      BY <1>0, <2>0, VisibleType DEF CopySound
   <2>2. /\ facts'[t] = [facts[t] EXCEPT ![w.batch[1]] = w.batch[2]]
         /\ work'[t] = [w EXCEPT !.after = w.batch[1], !.batch = None]
      BY <1>0, <1>9 DEF CopyAppend, AppendBatch, TypeOK
   <2>3. work'[t].layers = w.layers /\ work'[t].copied = w.copied
      BY <1>0, <2>2 DEF WorkRows
   <2>4. Visible(work[t].layers)' = V
      <3>1. Visible(work[t].layers)' = VisibleIn(facts', work'[t].layers)
         BY DEF Visible, VisibleIn
      <3>. QED
         BY <2>0, <2>1, <2>3, <3>1, CopiedRowsKept
   <2>5. \A q, r \in V : q[1] = r[1] => q = r
      <3>1. V = VisibleIn(facts, w.layers) /\ Len(w.layers) \in Nat
         BY <1>0 DEF Visible, VisibleIn, WorkRows
      <3>. QED
         BY <3>1, VisibleOnce
   <2>6. w \in WorkRows /\ facts[t] \in Facts /\ w.batch # None
      BY <1>0, <2>0
   <2>. HIDE DEF V
   <2>7. CopyOf(V, facts'[t], work'[t]) /\ ~w.copied
      <3>. HIDE DEF w
      <3>1. /\ CopyOf(V, [facts[t] EXCEPT ![w.batch[1]] = w.batch[2]],
                      [w EXCEPT !.after = w.batch[1], !.batch = None])
            /\ ~w.copied
         BY <2>1, <2>5, <2>6, BatchCopied
      <3>. QED
         BY <2>2, <3>1
   <2>. QED
      BY <2>0, <2>1, <2>3, <2>4, <2>7 DEF CopySound, CopyOf
<1>10. CASE SealFreeze(t)
   <2>1. /\ facts'[t] = facts[t]
         /\ work'[t].purpose = work[t].purpose /\ work'[t].layers = work[t].layers
         /\ work'[t].after = work[t].after /\ work'[t].batch = work[t].batch
         /\ work'[t].copied = work[t].copied
         /\ prefix'[t] = <<>> => prefix[t] = <<>>
         /\ (work[t].purpose = "compaction" => work[t].copied)
      BY <1>0, <1>10 DEF SealFreeze, OwnedCandidate, TypeOK, WorkRows, SnapshotRows
   <2>. QED
      BY <1>0, <2>1, CopySame DEF CopySound
<1>11. CASE SealValidate(t)
   <2>1. /\ facts'[t] = facts[t]
         /\ work'[t].purpose = work[t].purpose /\ work'[t].layers = work[t].layers
         /\ work'[t].after = work[t].after /\ work'[t].batch = work[t].batch
         /\ work'[t].copied = work[t].copied
         /\ prefix'[t] = <<>> => prefix[t] = <<>>
         /\ (snap'[t].state \in {"validating", "ready"} => snap[t].state \in {"validating", "ready"})
      BY <1>0, <1>11 DEF SealValidate, OwnedCandidate, TypeOK, WorkRows, SnapshotRows
   <2>. QED
      BY <1>0, <2>1, CopySame DEF CopySound
<1>12. CASE SealReady(t)
   <2>1. /\ facts'[t] = facts[t]
         /\ work'[t].purpose = work[t].purpose /\ work'[t].layers = work[t].layers
         /\ work'[t].after = work[t].after /\ work'[t].batch = work[t].batch
         /\ work'[t].copied = work[t].copied
         /\ prefix'[t] = <<>> => prefix[t] = <<>>
         /\ (snap'[t].state \in {"validating", "ready"} => snap[t].state \in {"validating", "ready"})
      BY <1>0, <1>12 DEF SealReady, OwnedCandidate, TypeOK, WorkRows, SnapshotRows
   <2>. QED
      BY <1>0, <2>1, CopySame DEF CopySound
<1>13. CASE PublishTx(t)
   <2>1. work'[t].purpose # "compaction"
      BY <1>0, <1>13 DEF PublishTx, WorkerKnows, Working, Preparing, Live, NoWork, TypeOK
   <2>. QED
      BY <2>1 DEF CopySound
<1>14. CASE PublishCompactionTx(t)
   <2>1. work'[t].purpose # "compaction"
      BY <1>0, <1>14 DEF PublishCompactionTx, WorkerKnows, Working, Preparing, Live, NoWork, TypeOK
   <2>. QED
      BY <2>1 DEF CopySound
<1>15. CASE AuthorityLapses(t)
   <2>1. work'[t].purpose # "compaction"
      BY <1>0, <1>15 DEF AuthorityLapses, WorkerKnows, Working, Preparing, Live, NoWork, TypeOK
   <2>. QED
      BY <2>1 DEF CopySound
<1>16. CASE AuthorityGone(t)
   <2>1. /\ facts'[t] = facts[t]
         /\ work'[t].purpose = work[t].purpose /\ work'[t].layers = work[t].layers
         /\ work'[t].after = work[t].after /\ work'[t].batch = work[t].batch
         /\ work'[t].copied = work[t].copied
         /\ prefix'[t] = <<>> => prefix[t] = <<>>
         /\ (snap'[t].state \in {"validating", "ready"} => snap[t].state \in {"validating", "ready"})
      BY <1>0, <1>16 DEF AuthorityGone, OwnedCandidate, TypeOK, WorkRows, SnapshotRows
   <2>. QED
      BY <1>0, <2>1, CopySame DEF CopySound
<1>17. CASE MarkGC(t)
   <2>1. work'[t].purpose # "compaction"
      BY <1>0, <1>17 DEF MarkGC, WorkerKnows, Working, Preparing, Live, NoWork, TypeOK
   <2>. QED
      BY <2>1 DEF CopySound
<1>18. CASE CollectBatch(t)
   <2>1. work'[t].purpose # "compaction"
      BY <1>0, <1>18 DEF CollectBatch, WorkerKnows, Working, Preparing, Live, NoWork, TypeOK
   <2>. QED
      BY <2>1 DEF CopySound
<1>19. CASE ChangeSource(t)
   <2>1. work'[t].purpose # "compaction"
      BY <1>0, <1>19 DEF ChangeSource, WorkerKnows, Working, Preparing, Live, NoWork, TypeOK
   <2>. QED
      BY <2>1 DEF CopySound
<1>20. Touches(t)
   BY TouchFrame DEF IInv
<1>. QED
   BY <1>1, <1>2, <1>3, <1>4, <1>5, <1>6, <1>7, <1>8, <1>9, <1>10, <1>11, <1>12, <1>13,
      <1>14, <1>15, <1>16, <1>17, <1>18, <1>19, <1>20
   DEF Touches, OwnStep

-----------------------------------------------------------------------------
(* Bindings                                                                  *)

\* A binding whose layers stay what they are remains sound, held or not.
LEMMA BindingKept ==
    ASSUME IInv, [Next]_vars, NEW o \in Owners, binding[o] # None, binding'[o] # None,
           binding'[o].layers = binding[o].layers, binding'[o].rev = binding[o].rev,
           binding'[o].epoch = binding[o].epoch, binding'[o].rows = binding[o].rows,
           binding'[o].held => \A k \in 1..Len(binding[o].layers) :
                                  snap'[binding[o].layers[k]].state = "published"
    PROVE  BindingSound(o)'
<1>. DEFINE ls == binding[o].layers
<1>0. /\ TypeOK /\ binding[o] \in BindingRows /\ ls \in Seq(Snapshots)
      /\ Len(ls) \in 1..(MaxDeltas + 1)
      /\ \A j, k \in 1..Len(ls) : ls[j] = ls[k] => j = k
      /\ \A k \in 1..Len(ls) : BoundLayer(o, k)
      /\ (\A k \in 1..Len(ls) : snap[ls[k]].state = "published") => Visible(ls) = binding[o].rows
   <2>1. BindingSound(o) /\ TypeOK
      BY DEF IInv
   <2>. QED
      BY <2>1 DEF BindingSound, TypeOK, BindingRows
<1>1. ASSUME NEW k \in 1..Len(ls) PROVE SettledKept(ls[k])
   <2>1. ls[k] \in Snapshots /\ Settled(ls[k])
      BY <1>0 DEF BoundLayer, Settled
   <2>. QED
      BY <1>0, <2>1, SettledStep
<1>2. ASSUME NEW k \in 1..Len(ls) PROVE BoundLayer(o, k)'
   <2>1. BoundLayer(o, k) /\ SettledKept(ls[k])
      BY <1>0, <1>1
   <2>. QED
      BY <2>1 DEF BoundLayer, SettledKept
<1>3. ASSUME \A k \in 1..Len(ls) : snap'[ls[k]].state = "published"
      PROVE  Visible(binding[o].layers)' = binding[o].rows
   <2>1. \A k \in 1..Len(ls) : snap[ls[k]].state = "published"
      BY <1>1, <1>3 DEF SettledKept
   <2>2. VisibleIn(facts', ls) = VisibleIn(facts, ls)
      BY <1>0, <2>1, VisibleKept
   <2>3. Visible(ls) = VisibleIn(facts, ls)
      BY DEF Visible, VisibleIn
   <2>4. Visible(binding[o].layers)' = VisibleIn(facts', binding'[o].layers)
      BY DEF Visible, VisibleIn
   <2>. QED
      BY <1>0, <2>1, <2>2, <2>3, <2>4
<1>. QED
   BY <1>0, <1>2, <1>3 DEF BindingSound

\* The layers of a held binding are not collected under its owner.
LEMMA BindingStep ==
    ASSUME IInv, [Next]_vars, NEW o \in Owners
    PROVE  BindingSound(o)'
<1>0. /\ TypeOK /\ BindingSound(o) /\ (binding[o] # None => binding[o] \in BindingRows)
      /\ layers \in Seq(Snapshots) /\ Len(layers) \in Nat /\ MaxDeltas \in Nat
   BY LimitAssumption DEF IInv, TypeOK
<1>1. CASE binding'[o] = binding[o]
   <2>1. CASE binding[o] = None
      BY <1>1, <2>1 DEF BindingSound
   <2>2. CASE binding[o] # None
      <3>1. ASSUME binding[o].held, NEW k \in 1..Len(binding[o].layers)
            PROVE  snap'[binding[o].layers[k]].state = "published"
         <4>1. binding[o].layers[k] \in Snapshots /\ Referenced(binding[o].layers[k])
            BY <1>0, <2>2, <3>1 DEF Referenced, Bound, InLayers, BindingRows
         <4>2. snap[binding[o].layers[k]].state = "published" /\ Settled(binding[o].layers[k])
            BY <1>0, <2>2, <3>1 DEF BindingSound, BoundLayer, Settled
         <4>3. SettledKept(binding[o].layers[k])
            BY <1>0, <4>1, <4>2, SettledStep
         <4>. QED
            BY <4>1, <4>2, <4>3 DEF SettledKept
      <3>. QED
         BY <1>1, <2>2, <3>1, BindingKept
   <2>. QED
      BY <2>1, <2>2
<1>2. CASE CaptureBinding(o)
   <2>1. /\ binding'[o] = [rev |-> head.rev, epoch |-> head.epoch, config |-> head.config,
                           layers |-> layers, held |-> TRUE, rows |-> Visible(layers)]
         /\ snap' = snap /\ facts' = facts
      BY <1>0, <1>2 DEF CaptureBinding, TypeOK
   <2>2. /\ binding'[o].layers = layers /\ binding'[o].rows = Visible(layers)
         /\ binding'[o].epoch = head.epoch /\ binding'[o].rev = head.rev
      BY <2>1
   <2>3. Visible(binding[o].layers)' = Visible(layers)
      BY <2>1, <2>2 DEF Visible
   <2>4. Len(layers) \in 1..(MaxDeltas + 1)
      <3>1. Len(layers) >= 1 /\ Len(layers) - 1 <= MaxDeltas
         BY <1>0 DEF IInv, HeadReadable, PinCatalogTx
      <3>. QED
         BY <1>0, <3>1
   <2>5. \A j, k \in 1..Len(layers) : layers[j] = layers[k] => j = k
      BY DEF IInv, HeadOrdered
   <2>6. ASSUME NEW k \in 1..Len(layers) PROVE BoundLayer(o, k)'
      <3>1. /\ snap[layers[k]].state = "published" /\ snap[layers[k]].epoch = head.epoch
            /\ snap[layers[k]].kind = IF k = 1 THEN "base" ELSE "delta"
            /\ snap[layers[k]].pub <= head.rev
         BY DEF IInv, HeadReadable, PinCatalogTx, HeadOrdered
      <3>. QED
         BY <2>1, <2>2, <3>1 DEF BoundLayer
   <2>. QED
      BY <2>2, <2>3, <2>4, <2>5, <2>6 DEF BindingSound
<1>3. CASE ReleaseBinding(o)
   <2>0. binding[o] # None /\ binding[o] \in BindingRows
      BY <1>0, <1>3 DEF ReleaseBinding
   <2>1. binding'[o] = [binding[o] EXCEPT !.held = FALSE]
      BY <1>0, <1>3 DEF ReleaseBinding, TypeOK
   <2>2. /\ binding'[o].layers = binding[o].layers /\ binding'[o].rev = binding[o].rev
         /\ binding'[o].epoch = binding[o].epoch /\ binding'[o].rows = binding[o].rows
         /\ ~binding'[o].held
      BY <2>0, <2>1 DEF BindingRows
   <2>. QED
      BY <2>0, <2>2, BindingKept DEF BindingSound
<1>4. CASE ReacquireBinding(o)
   <2>0. /\ binding[o] # None /\ binding[o] \in BindingRows /\ snap' = snap
         /\ \A k \in 1..Len(binding[o].layers) : snap[binding[o].layers[k]].state = "published"
      BY <1>0, <1>4 DEF ReacquireBinding
   <2>1. binding'[o] = [binding[o] EXCEPT !.held = TRUE]
      BY <1>0, <1>4 DEF ReacquireBinding, TypeOK
   <2>2. /\ binding'[o].layers = binding[o].layers /\ binding'[o].rev = binding[o].rev
         /\ binding'[o].epoch = binding[o].epoch /\ binding'[o].rows = binding[o].rows
      BY <2>0, <2>1 DEF BindingRows
   <2>. QED
      BY <2>0, <2>2, BindingKept DEF BindingSound
<1>5. ASSUME NEW p \in Owners, p # o, CaptureBinding(p) \/ ReleaseBinding(p) \/ ReacquireBinding(p)
      PROVE  binding'[o] = binding[o]
   BY <1>0, <1>5 DEF CaptureBinding, ReleaseBinding, ReacquireBinding, TypeOK
<1>. QED
   BY <1>1, <1>2, <1>3, <1>4, <1>5, BindingFrame DEF BindingMoves


-----------------------------------------------------------------------------
(* The invariant and what it gives                                           *)

\* A library starts with layers in the order they were published in.
LEMMA InitInv == Init => IInv
<1>. SUFFICES ASSUME Init PROVE IInv
   OBVIOUS
<1>1. TypeOK
   BY InitTypeOK
<1>2. /\ layers = Stack /\ Stack \in Seq(Snapshots) /\ Len(Stack) \in 1..(MaxDeltas + 1)
      /\ head = [rev |-> Len(Stack), epoch |-> 1, config |-> FirstConfig]
      /\ MaxDeltas \in Nat /\ Len(Stack) \in Nat
   BY StackAssumption, LimitAssumption DEF Init
<1>3. ASSUME NEW k \in 1..Len(Stack)
      PROVE  /\ snap[Stack[k]].state = "published" /\ snap[Stack[k]].epoch = 1
             /\ snap[Stack[k]].kind = IF k = 1 THEN "base" ELSE "delta"
             /\ snap[Stack[k]].pub = k
   <2>. DEFINE m == CHOOSE j \in 1..Len(Stack) : Stack[j] = Stack[k]
   <2>1. m \in 1..Len(Stack) /\ Stack[m] = Stack[k]
      OBVIOUS
   <2>2. m = k
      <3>. HIDE DEF m
      <3>. QED
         BY <2>1, StackAssumption
   <2>3. Stack[k] \in Snapshots /\ InLayers(Stack[k], Stack)
      BY <1>2 DEF InLayers
   <2>4. snap[Stack[k]] =
            [kind |-> IF k = 1 THEN "base" ELSE "delta", state |-> "published",
             parent |-> k - 1, epoch |-> 1, config |-> FirstConfig, pub |-> k]
      BY <2>2, <2>3 DEF Init
   <2>. QED
      BY <2>4
<1>4. HeadReadable /\ HeadOrdered
   <2>1. \A j, k \in 1..Len(Stack) : Stack[j] = Stack[k] => j = k
      BY StackAssumption
   <2>2. ASSUME NEW k \in 1..Len(Stack)
         PROVE  /\ snap[Stack[k]].state = "published" /\ snap[Stack[k]].epoch = head.epoch
                /\ k - 1 <= MaxDeltas /\ snap[Stack[k]].pub <= head.rev
                /\ snap[Stack[k]].kind = IF k = 1 THEN "base" ELSE "delta"
      BY <1>2, <1>3
   <2>. QED
      BY <1>2, <2>1, <2>2 DEF HeadReadable, PinCatalogTx, HeadOrdered
<1>5. ASSUME NEW s \in Snapshots PROVE AbsentEmpty(s)
   <2>1. CASE InLayers(s, Stack)
      <3>1. PICK k \in 1..Len(Stack) : Stack[k] = s
         BY <2>1 DEF InLayers
      <3>. QED
         BY <1>3, <3>1 DEF AbsentEmpty
   <2>2. CASE ~InLayers(s, Stack)
      <3>1. \A i \in Ids : facts[s][i] = None
         BY <2>2, StackFactsAssumption DEF Init, InLayers
      <3>2. facts[s] \in [Ids -> Vals \cup {None, Tombstone}]
         BY <1>1 DEF TypeOK, Facts
      <3>. QED
         BY <3>1, <3>2 DEF AbsentEmpty, NoFacts
   <2>. QED
      BY <2>1, <2>2
<1>6. ASSUME NEW s \in Snapshots PROVE WorkerKnows(s) /\ PrefixHeld(s) /\ CopySound(s)
   <2>1. work[s].purpose = "none" /\ prefix[s] = <<>>
      BY DEF Init, NoWork
   <2>. QED
      BY <2>1 DEF WorkerKnows, PrefixHeld, CopySound, Working
<1>7. ASSUME NEW o \in Owners PROVE BindingSound(o)
   BY DEF Init, BindingSound
<1>. QED
   BY <1>1, <1>4, <1>5, <1>6, <1>7 DEF IInv

\* Every step keeps the inductive invariant.
LEMMA InvStep == IInv /\ [Next]_vars => IInv'
<1>. SUFFICES ASSUME IInv, [Next]_vars PROVE IInv'
   OBVIOUS
<1>1. TypeOK'
   BY TypeStep DEF IInv
<1>2. (HeadReadable /\ HeadOrdered)'
   BY HeadStep
<1>3. \A s \in Snapshots :
         (AbsentEmpty(s) /\ WorkerKnows(s) /\ PrefixHeld(s) /\ CopySound(s))'
   BY AbsentStep, WorkerStep, PrefixStep, CopyStep
<1>4. \A o \in Owners : BindingSound(o)'
   BY BindingStep
<1>. QED
   BY <1>1, <1>2, <1>3, <1>4 DEF IInv

\* The inductive invariant holds of every behaviour.
THEOREM SpecInv == Spec => []IInv
<1>1. Init => IInv
   BY InitInv
<1>2. IInv /\ [Next]_vars => IInv'
   BY InvStep
<1>. QED
   BY <1>1, <1>2, PTL DEF Spec

\* The catalogue tables and the memory of every worker keep their types, for any
\* number of snapshots, rows and bindings.
THEOREM SpecTypeOK == Spec => []TypeOK
<1>1. IInv => TypeOK
   BY DEF IInv
<1>. QED
   BY <1>1, SpecInv, PTL

\* PinCatalogTx never answers ErrCatalogInvalid: whatever was published, compacted,
\* collected or reconfigured before, every layer of the head is published, under the
\* present source, with the base first and deltas above it, and within
\* CatalogMaxDeltas.
THEOREM SpecHeadReadable == Spec => []HeadReadable
<1>1. IInv => HeadReadable
   BY DEF IInv
<1>. QED
   BY <1>1, SpecInv, PTL

\* PinBoundCatalogTx accepts a binding for as long as its owner holds the references,
\* although its layers left the head long ago: the collector takes none of them.
THEOREM SpecBoundReadable == Spec => []BoundReadable
<1>1. ASSUME IInv PROVE BoundReadable
   <2>. SUFFICES ASSUME NEW o \in Owners, binding[o] # None, binding[o].held
                 PROVE  PinBoundCatalogTx(o)
      BY DEF BoundReadable
   <2>1. BindingSound(o)
      BY <1>1 DEF IInv
   <2>. QED
      BY <2>1 DEF BindingSound, BoundLayer, PinBoundCatalogTx
<1>. QED
   BY <1>1, SpecInv, PTL

\* A finished copy states the rows of the layers it was made from.
LEMMA Exact == IInv => CompactionExact
<1>. SUFFICES ASSUME IInv, NEW s \in Snapshots, work[s].purpose = "compaction",
                     snap[s].state \in {"validating", "ready"}
              PROVE  Visible(<<s>>) = Visible(prefix[s])
   BY DEF CompactionExact
<1>1. /\ CopyOf(Visible(work[s].layers), facts[s], work[s]) /\ work[s].copied
      /\ prefix[s] # <<>>
   BY DEF IInv, CopySound
<1>2. prefix[s] = work[s].layers
   BY <1>1 DEF IInv, PrefixHeld, Working
<1>3. ASSUME NEW r \in Ids \X Vals PROVE r \in Visible(<<s>>) <=> facts[s][r[1]] = r[2]
   BY DEF Visible
<1>4. ASSUME NEW r \in Ids \X Vals PROVE facts[s][r[1]] = r[2] <=> r \in Visible(work[s].layers)
   BY <1>1 DEF CopyOf
<1>. QED
   BY <1>2, <1>3, <1>4, VisibleType

\* A compaction that froze its facts states exactly the rows of the layers it will
\* replace, for any number of rows, batches and deltas published meanwhile.
THEOREM SpecCompactionExact == Spec => []CompactionExact
BY Exact, SpecInv, PTL


-----------------------------------------------------------------------------
(* The refinement of CatalogView                                             *)

\* One layer by itself, and a delta on top of others.
LEMMA SingleRows ==
    ASSUME NEW f, NEW s
    PROVE  VisibleIn(f, <<s>>) = View!RowsOf(f[s])
<1>1. Len(<<s>>) = 1 /\ <<s>>[1] = s /\ 1..1 = {1} /\ (1 + 1)..1 = {}
   OBVIOUS
<1>. QED
   BY <1>1 DEF VisibleIn, View!RowsOf, View!Rows

\* One more layer on top changes the rows the way the view overlays a draft.
LEMMA OverlayRows ==
    ASSUME NEW f, NEW ls \in Seq(Snapshots), NEW s \in Snapshots
    PROVE  VisibleIn(f, Append(ls, s)) = View!Overlay(VisibleIn(f, ls), f[s])
<1>. DEFINE n == Len(ls)
            new == Append(ls, s)
<1>1. /\ n \in Nat /\ Len(new) = n + 1 /\ new[n + 1] = s
      /\ \A k \in 1..n : new[k] = ls[k]
   OBVIOUS
<1>. HIDE DEF n, new
<1>2. ASSUME NEW r \in Ids \X Vals
      PROVE  r \in VisibleIn(f, new) <=> r \in View!Overlay(VisibleIn(f, ls), f[s])
   <2>0. r[2] # None
      BY ValsAssumption
   <2>1. ASSUME f[s][r[1]] = r[2] PROVE r \in VisibleIn(f, new)
      <3>1. n + 1 \in 1..Len(new) /\ f[new[n + 1]][r[1]] = r[2]
         BY <1>1, <2>1
      <3>2. \A j \in ((n + 1) + 1)..Len(new) : f[new[j]][r[1]] = None
         BY <1>1
      <3>. QED
         BY <3>1, <3>2 DEF VisibleIn
   <2>2. ASSUME r \in VisibleIn(f, ls), f[s][r[1]] = None PROVE r \in VisibleIn(f, new)
      <3>1. PICK k \in 1..n : f[ls[k]][r[1]] = r[2] /\ \A j \in (k + 1)..n : f[ls[j]][r[1]] = None
         BY <2>2 DEF VisibleIn, n
      <3>2. k \in 1..Len(new) /\ f[new[k]][r[1]] = r[2]
         BY <1>1, <3>1
      <3>3. ASSUME NEW j \in (k + 1)..Len(new) PROVE f[new[j]][r[1]] = None
         <4>1. j = n + 1 \/ j \in (k + 1)..n
            BY <1>1
         <4>2. j \in (k + 1)..n => new[j] = ls[j]
            BY <1>1
         <4>. QED
            BY <1>1, <2>2, <3>1, <4>1, <4>2
      <3>. QED
         BY <3>2, <3>3 DEF VisibleIn
   <2>3. ASSUME r \in VisibleIn(f, new), f[s][r[1]] # r[2]
         PROVE  r \in VisibleIn(f, ls) /\ f[s][r[1]] = None
      <3>1. PICK k \in 1..Len(new) :
               f[new[k]][r[1]] = r[2] /\ \A j \in (k + 1)..Len(new) : f[new[j]][r[1]] = None
         BY <2>3 DEF VisibleIn
      <3>2. k \in 1..n /\ n + 1 \in (k + 1)..Len(new)
         BY <1>1, <2>3, <3>1
      <3>3. f[s][r[1]] = None
         BY <1>1, <3>1, <3>2
      <3>4. f[ls[k]][r[1]] = r[2] /\ \A j \in (k + 1)..n : f[ls[j]][r[1]] = None
         BY <1>1, <3>1, <3>2
      <3>. QED
         BY <3>2, <3>3, <3>4 DEF VisibleIn, n
   <2>. QED
      BY <2>1, <2>2, <2>3 DEF View!Overlay, View!RowsOf, View!Rows
<1>3. View!Overlay(VisibleIn(f, ls), f[s]) \in SUBSET (Ids \X Vals)
   BY DEF View!Overlay, View!RowsOf, View!Rows, VisibleIn
<1>4. VisibleIn(f, new) \in SUBSET (Ids \X Vals)
   BY DEF VisibleIn
<1>. QED
   BY <1>2, <1>3, <1>4 DEF new

\* A base with the rows of the n lowest layers stands for them.
LEMMA CompactRows ==
    ASSUME NEW f, NEW ls \in Seq(Snapshots), NEW ps \in Seq(Snapshots), NEW s, NEW new,
           Len(ps) \in 1..Len(ls), \A k \in 1..Len(ps) : ls[k] = ps[k],
           Len(new) = Len(ls) - Len(ps) + 1, new[1] = s,
           \A k \in 2..(Len(ls) - Len(ps) + 1) : new[k] = ls[Len(ps) + k - 1],
           VisibleIn(f, <<s>>) = VisibleIn(f, ps)
    PROVE  VisibleIn(f, new) = VisibleIn(f, ls)
<1>. DEFINE n == Len(ps)
            z == Len(ls)
            y == z - n + 1
<1>0. n \in Nat /\ z \in Nat /\ n >= 1 /\ n <= z /\ y \in Nat /\ Len(new) = y
   OBVIOUS
<1>1. \A k \in 2..y : new[k] = ls[n + k - 1]
   OBVIOUS
<1>m. \A k \in 1..n : ls[k] = ps[k]
   OBVIOUS
<1>. HIDE DEF n, z, y
<1>2. ASSUME NEW r \in Ids \X Vals
      PROVE  f[s][r[1]] = r[2] <=>
                \E m \in 1..n : f[ls[m]][r[1]] = r[2] /\ \A j \in (m + 1)..n : f[ls[j]][r[1]] = None
   <2>1. f[s][r[1]] = r[2] <=> r \in VisibleIn(f, <<s>>)
      BY SingleRows DEF View!RowsOf, View!Rows
   <2>2. r \in VisibleIn(f, ps) <=>
            \E m \in 1..n : f[ps[m]][r[1]] = r[2] /\ \A j \in (m + 1)..n : f[ps[j]][r[1]] = None
      BY DEF VisibleIn, n
   <2>3. ASSUME NEW m \in 1..n
         PROVE  (f[ps[m]][r[1]] = r[2] /\ \A j \in (m + 1)..n : f[ps[j]][r[1]] = None)
                <=> (f[ls[m]][r[1]] = r[2] /\ \A j \in (m + 1)..n : f[ls[j]][r[1]] = None)
      <3>1. ps[m] = ls[m] /\ \A j \in (m + 1)..n : ps[j] = ls[j]
         BY <1>0, <1>m
      <3>. QED
         BY <3>1
   <2>. QED
      BY <2>1, <2>2, <2>3
<1>3. ASSUME NEW r \in VisibleIn(f, new) PROVE r \in VisibleIn(f, ls)
   <2>1. PICK k \in 1..y :
            f[new[k]][r[1]] = r[2] /\ \A j \in (k + 1)..y : f[new[j]][r[1]] = None
      BY <1>0 DEF VisibleIn
   <2>2. r \in Ids \X Vals
      BY DEF VisibleIn
   <2>3. ASSUME NEW j \in (n + 1)..z PROVE j - n + 1 \in 2..y /\ new[j - n + 1] = ls[j]
      <3>1. j - n + 1 \in 2..y /\ n + (j - n + 1) - 1 = j
         BY <1>0 DEF y
      <3>. QED
         BY <1>1, <3>1
   <2>4. CASE k = 1
      <3>1. PICK m \in 1..n : f[ls[m]][r[1]] = r[2] /\ \A j \in (m + 1)..n : f[ls[j]][r[1]] = None
         BY <1>2, <2>1, <2>2, <2>4
      <3>2. ASSUME NEW j \in (m + 1)..z PROVE f[ls[j]][r[1]] = None
         <4>1. CASE j \in (m + 1)..n
            BY <3>1, <4>1
         <4>2. CASE j \in (n + 1)..z
            <5>1. j - n + 1 \in (k + 1)..y
               BY <2>3, <2>4, <4>2
            <5>. QED
               BY <2>1, <2>3, <4>2, <5>1
         <4>. QED
            BY <1>0, <4>1, <4>2
      <3>3. m \in 1..z
         BY <1>0
      <3>. QED
         BY <2>2, <3>1, <3>2, <3>3 DEF VisibleIn, z
   <2>5. CASE k # 1
      <3>1. /\ n + k - 1 \in 1..z /\ ls[n + k - 1] = new[k] /\ n + k - 1 \in (n + 1)..z
         BY <1>0, <1>1, <2>5 DEF y
      <3>2. ASSUME NEW j \in (n + k - 1 + 1)..z PROVE f[ls[j]][r[1]] = None
         <4>1. j \in (n + 1)..z /\ j - n + 1 \in (k + 1)..y
            BY <1>0, <2>5 DEF y
         <4>. QED
            BY <2>1, <2>3, <4>1
      <3>. QED
         BY <2>1, <2>2, <3>1, <3>2 DEF VisibleIn, z
   <2>. QED
      BY <2>4, <2>5
<1>4. ASSUME NEW r \in VisibleIn(f, ls) PROVE r \in VisibleIn(f, new)
   <2>1. PICK m \in 1..z :
            f[ls[m]][r[1]] = r[2] /\ \A j \in (m + 1)..z : f[ls[j]][r[1]] = None
      BY <1>0 DEF VisibleIn, z
   <2>2. r \in Ids \X Vals
      BY DEF VisibleIn
   <2>3. ASSUME NEW j \in 2..y PROVE n + j - 1 \in (n + 1)..z /\ new[j] = ls[n + j - 1]
      BY <1>0, <1>1 DEF y
   <2>4. CASE m <= n
      <3>1. m \in 1..n /\ \A j \in (m + 1)..n : f[ls[j]][r[1]] = None
         BY <1>0, <2>1, <2>4
      <3>2. f[new[1]][r[1]] = r[2] /\ 1 \in 1..y
         <4>1. f[s][r[1]] = r[2]
            BY <1>2, <2>1, <2>2, <3>1
         <4>. QED
            BY <1>0, <4>1 DEF y
      <3>3. ASSUME NEW j \in (1 + 1)..y PROVE f[new[j]][r[1]] = None
         <4>1. j \in 2..y
            OBVIOUS
         <4>2. n + j - 1 \in (m + 1)..z
            BY <1>0, <2>3, <2>4, <4>1
         <4>. QED
            BY <2>1, <2>3, <4>1, <4>2
      <3>. QED
         BY <1>0, <2>2, <3>2, <3>3 DEF VisibleIn
   <2>5. CASE m > n
      <3>1. m - n + 1 \in 2..y /\ n + (m - n + 1) - 1 = m
         BY <1>0, <2>5 DEF y
      <3>2. m - n + 1 \in 1..y /\ f[new[m - n + 1]][r[1]] = r[2]
         <4>1. new[m - n + 1] = ls[m]
            BY <1>1, <3>1
         <4>. QED
            BY <1>0, <2>1, <3>1, <4>1
      <3>3. ASSUME NEW j \in (m - n + 1 + 1)..y PROVE f[new[j]][r[1]] = None
         <4>1. j \in 2..y /\ n + j - 1 \in (m + 1)..z
            BY <1>0, <2>5, <3>1 DEF y
         <4>. QED
            BY <2>1, <2>3, <4>1
      <3>. QED
         BY <1>0, <2>2, <3>2, <3>3 DEF VisibleIn
   <2>. QED
      BY <1>0, <2>4, <2>5
<1>. QED
   BY <1>3, <1>4


Draft(s) ==
    IF snap[s].state \in Preparing /\ work[s].purpose \in {"delta", "base"}
    THEN [full |-> snap[s].kind = "base", basis |-> work[s].seen, change |-> facts[s]]
    ELSE None

\* A step of the catalogue is a step of CatalogView or none at all.
Maps == [View!ViewNext]_(View!viewVars)

\* The drafts of the view, one per snapshot, before and after a step.
LEMMA DraftsAre ==
    /\ Drafts = [t \in Snapshots |-> Draft(t)]
    /\ Drafts' = [t \in Snapshots |-> Draft(t)']
BY DEF Drafts, Draft

\* A draft is a record, never None.
LEMMA DraftRecord ==
    ASSUME TypeOK, NEW s \in Snapshots, snap[s].state \in Preparing,
           work[s].purpose \in {"delta", "base"}
    PROVE  /\ Draft(s) = [full |-> snap[s].kind = "base", basis |-> work[s].seen,
                          change |-> facts[s]]
           /\ Draft(s) # None
<1>1. Draft(s) = [full |-> snap[s].kind = "base", basis |-> work[s].seen, change |-> facts[s]]
   BY DEF Draft
<1>2. work[s].seen \in SUBSET (Ids \X Vals) /\ facts[s] \in Facts
   BY DEF TypeOK, WorkRows
<1>3. Draft(s) \in [full : BOOLEAN, basis : SUBSET (Ids \X Vals), change : Facts]
   BY <1>1, <1>2
<1>. QED
   BY <1>1, <1>3, NoneAssumption

\* A snapshot that a step leaves alone keeps its draft.
LEMMA DraftElsewhere ==
    ASSUME NEW t \in Snapshots, Untouched(t)
    PROVE  Draft(t)' = Draft(t)
BY DEF Untouched, Draft

\* Held or not, an owner is bound to the rows it captured.
BoundToRows ==
    Bounds = [o \in Owners |->
                 IF binding[o] = None THEN None
                 ELSE [view |-> binding[o].rows, held |-> binding[o].held]]

\* What the view says is bound are the rows that were captured.
LEMMA BoundsAre == IInv => BoundToRows
<1>. SUFFICES ASSUME IInv PROVE BoundToRows
   OBVIOUS
<1>1. ASSUME NEW o \in Owners, binding[o] # None, binding[o].held
      PROVE  Visible(binding[o].layers) = binding[o].rows
   <2>1. BindingSound(o)
      BY DEF IInv
   <2>. QED
      BY <1>1, <2>1 DEF BindingSound, BoundLayer
<1>. QED
   BY <1>1 DEF Bounds, BoundToRows

\* The same after a step.
LEMMA BoundsNext == IInv' => BoundToRows'
BY BoundsAre, PTL

\* A step that leaves the bindings alone changes nothing that is bound.
LEMMA BoundsKept ==
    ASSUME IInv, IInv', UNCHANGED binding
    PROVE  Bounds' = Bounds
BY BoundsAre, BoundsNext DEF BoundToRows


\* As long as the head keeps its layers the catalogue keeps its rows.
LEMMA ContentKept ==
    ASSUME IInv, [Next]_vars, UNCHANGED layers
    PROVE  Visible(layers)' = Visible(layers)
<1>1. VisibleIn(facts', layers) = Visible(layers)
   BY LayersKept
<1>. QED
   BY <1>1 DEF Visible, VisibleIn

\* A step of one preparation changes at most its own draft.
LEMMA OneDraft ==
    ASSUME TypeOK, NEW s \in Snapshots, StepOf(s)
    PROVE  Drafts' = [Drafts EXCEPT ![s] = Draft(s)']
<1>1. \A t \in Snapshots : t # s => Draft(t)' = Draft(t)
   BY Elsewhere, DraftElsewhere
<1>. QED
   BY <1>1, DraftsAre

\* A step of one snapshot nobody sees.
LEMMA SilentSnapshot ==
    ASSUME IInv, IInv', [Next]_vars, NEW s \in Snapshots, StepOf(s), Draft(s)' = Draft(s),
           UNCHANGED binding, Visible(layers)' = Visible(layers)
    PROVE  Maps
<1>1. Drafts' = Drafts
   <2>1. TypeOK /\ Drafts' = [Drafts EXCEPT ![s] = Draft(s)']
      BY OneDraft DEF IInv
   <2>. QED
      BY <2>1, DraftsAre
<1>. QED
   BY <1>1, BoundsKept DEF Maps, View!viewVars

\* A step that changes no draft, no binding and no layer is a stutter of the view.
LEMMA SilentStep ==
    ASSUME IInv, IInv', [Next]_vars, NEW s \in Snapshots, StepOf(s), Draft(s)' = Draft(s),
           UNCHANGED <<binding, layers>>
    PROVE  Maps
BY ContentKept, SilentSnapshot

\* A step that takes drafts away.
LEMMA DropStep ==
    ASSUME IInv, IInv', [Next]_vars, NEW C \in SUBSET Snapshots, UNCHANGED <<layers, binding>>,
           \A t \in Snapshots : Draft(t)' = IF t \in C THEN None ELSE Draft(t)
    PROVE  Maps
<1>1. Drafts' = [t \in Snapshots |-> IF t \in C THEN None ELSE Drafts[t]]
   BY DraftsAre
<1>2. Visible(layers)' = Visible(layers) /\ Bounds' = Bounds
   BY ContentKept, BoundsKept
<1>3. View!Drop(C)
   BY <1>1, <1>2 DEF View!Drop
<1>. QED
   BY <1>3 DEF Maps, View!ViewNext

\* Every step of the layered catalogue is one of CatalogView, or nothing anybody
\* can see.
LEMMA ViewStep ==
    ASSUME IInv, IInv', [Next]_vars
    PROVE  Maps
<1>0. TypeOK /\ TypeOK'
   BY DEF IInv
<1>1. ASSUME NEW s \in Snapshots, NEW p \in {"delta", "base", "compaction"}, Read(s, p)
      PROVE  Maps
   <2>1. /\ snap[s].state \notin Preparing /\ snap'[s].state \notin Preparing
      BY <1>0, <1>1 DEF Read, Preparing, TypeOK, SnapshotRows, WorkRows
   <2>2. Draft(s)' = Draft(s)
      BY <2>1 DEF Draft
   <2>. QED
      BY <1>1, <2>2, SilentStep DEF Read, StepOf
<1>2. ASSUME NEW s \in Snapshots, BeginCandidate(s) PROVE Maps
   <2>0. /\ snap[s].state = "absent" /\ work[s].purpose # "none" /\ UNCHANGED <<facts, layers, binding>>
         /\ work[s].purpose \in {"none", "delta", "base", "compaction"}
         /\ work'[s].purpose = work[s].purpose /\ work'[s].seen = work[s].seen
         /\ work[s].rev = head.rev
      BY <1>0, <1>2 DEF BeginCandidate, Working, TypeOK, WorkRows
   <2>1. CASE work[s].purpose = "compaction"
      <3>1. Draft(s)' = Draft(s)
         BY <2>0, <2>1 DEF Draft
      <3>. QED
         BY <1>2, <2>0, <3>1, SilentStep DEF StepOf
   <2>2. CASE work[s].purpose \in {"delta", "base"}
      <3>1. Draft(s) = None
         BY <2>0 DEF Draft, Preparing
      <3>2. work[s].seen = Visible(layers) /\ facts[s] = NoFacts
         BY <2>0 DEF IInv, WorkerKnows, Working, AbsentEmpty
      <3>3. snap'[s].state = "building"
         BY <1>0, <1>2 DEF BeginCandidate, TypeOK
      <3>4. Draft(s)' = [full |-> snap'[s].kind = "base", basis |-> Visible(layers),
                         change |-> NoFacts]
         BY <2>0, <2>2, <3>2, <3>3 DEF Draft, Preparing
      <3>5. Drafts[s] = None
         BY <3>1, DraftsAre
      <3>6. Drafts' = [Drafts EXCEPT ![s] = [full |-> snap'[s].kind = "base",
                                             basis |-> Visible(layers), change |-> NoFacts]]
         BY <1>0, <1>2, <3>4, OneDraft DEF StepOf
      <3>7. Visible(layers)' = Visible(layers) /\ Bounds' = Bounds
         BY <2>0, ContentKept, BoundsKept
      <3>8. View!Start(s)
         BY <3>5, <3>6, <3>7 DEF View!Start, View!NoFacts, NoFacts
      <3>. QED
         BY <3>8 DEF Maps, View!ViewNext
   <2>. QED
      BY <2>0, <2>1, <2>2
<1>3. ASSUME NEW s \in Snapshots, GiveUpRead(s) PROVE Maps
   <2>1. /\ snap[s].state \notin Preparing /\ snap'[s].state \notin Preparing
      BY <1>0, <1>3 DEF GiveUpRead, Preparing, TypeOK, SnapshotRows, WorkRows
   <2>2. Draft(s)' = Draft(s)
      BY <2>1 DEF Draft
   <2>. QED
      BY <1>3, <2>2, SilentStep DEF GiveUpRead, StepOf
<1>4. ASSUME NEW s \in Snapshots, AppendFact(s) PROVE Maps
   <2>1. /\ snap[s].state = "building" /\ work[s].purpose # "none" /\ work[s].purpose # "compaction"
         /\ work[s].purpose \in {"none", "delta", "base", "compaction"}
         /\ UNCHANGED <<snap, layers, binding, work>>
      BY <1>0, <1>4 DEF AppendFact, AppendBatch, OwnedCandidate, Working, TypeOK, WorkRows
   <2>2. snap[s].state \in Preparing /\ work[s].purpose \in {"delta", "base"}
      BY <2>1 DEF Preparing
   <2>3. /\ Draft(s) = [full |-> snap[s].kind = "base", basis |-> work[s].seen, change |-> facts[s]]
         /\ Draft(s) # None
      BY <1>0, <2>2, DraftRecord
   <2>4. Draft(s)' = [full |-> snap[s].kind = "base", basis |-> work[s].seen, change |-> facts'[s]]
      BY <2>1, <2>2 DEF Draft
   <2>5. facts'[s] \in View!Facts
      BY <1>0 DEF TypeOK, Facts, View!Facts
   <2>6. Draft(s)' = [Draft(s) EXCEPT !.change = facts'[s]]
      BY <2>3, <2>4
   <2>7. Drafts[s] = Draft(s)
      BY DraftsAre
   <2>8. Drafts' = [Drafts EXCEPT ![s] = [Drafts[s] EXCEPT !.change = facts'[s]]]
      BY <1>0, <1>4, <2>6, <2>7, OneDraft DEF StepOf
   <2>9. Visible(layers)' = Visible(layers) /\ Bounds' = Bounds
      BY <2>1, ContentKept, BoundsKept
   <2>10. View!Write(s)
      BY <2>3, <2>5, <2>7, <2>8, <2>9 DEF View!Write
   <2>. QED
      BY <2>10 DEF Maps, View!ViewNext
<1>5. ASSUME NEW s \in Snapshots, AcquirePrefix(s) PROVE Maps
   <2>1. /\ snap' = snap /\ facts' = facts /\ work'[s].purpose = work[s].purpose /\ work'[s].seen = work[s].seen
      BY <1>0, <1>5 DEF AcquirePrefix, Preparing, TypeOK, SnapshotRows, WorkRows
   <2>2. Draft(s)' = Draft(s)
      BY <2>1 DEF Draft
   <2>. QED
      BY <1>5, <2>2, SilentStep DEF AcquirePrefix, StepOf
<1>6. ASSUME NEW s \in Snapshots, CopyRead(s) PROVE Maps
   <2>1. /\ snap' = snap /\ work[s].purpose = "compaction"
         /\ \/ work' = [work EXCEPT ![s].copied = TRUE]
            \/ \E r \in Visible(work[s].layers) : work' = [work EXCEPT ![s].batch = r]
      BY <1>6 DEF CopyRead
   <2>2. work'[s].purpose = "compaction"
      BY <1>0, <2>1 DEF TypeOK, WorkRows
   <2>3. Draft(s)' = Draft(s)
      BY <2>1, <2>2 DEF Draft
   <2>. QED
      BY <1>6, <2>3, SilentStep DEF CopyRead, StepOf
<1>7. ASSUME NEW s \in Snapshots, CopyAppend(s) PROVE Maps
   <2>1. /\ work[s].purpose = "compaction" /\ work'[s].purpose = "compaction"
      BY <1>0, <1>7 DEF CopyAppend, AppendBatch, Preparing, TypeOK, SnapshotRows, WorkRows
   <2>2. Draft(s)' = Draft(s)
      BY <2>1 DEF Draft
   <2>. QED
      BY <1>7, <2>2, SilentStep DEF CopyAppend, AppendBatch, StepOf
<1>8. ASSUME NEW s \in Snapshots, SealFreeze(s) PROVE Maps
   <2>1. /\ snap[s].state \in Preparing /\ snap'[s].state \in Preparing
         /\ snap'[s].kind = snap[s].kind /\ work' = work /\ facts' = facts
      BY <1>0, <1>8 DEF SealFreeze, OwnedCandidate, Preparing, TypeOK, SnapshotRows
   <2>2. Draft(s)' = Draft(s)
      BY <2>1 DEF Draft
   <2>. QED
      BY <1>8, <2>2, SilentStep DEF SealFreeze, StepOf
<1>9. ASSUME NEW s \in Snapshots, SealValidate(s) PROVE Maps
   <2>1. /\ snap' = snap /\ facts' = facts /\ work'[s].purpose = work[s].purpose /\ work'[s].seen = work[s].seen
      BY <1>0, <1>9 DEF SealValidate, Preparing, TypeOK, SnapshotRows, WorkRows
   <2>2. Draft(s)' = Draft(s)
      BY <2>1 DEF Draft
   <2>. QED
      BY <1>9, <2>2, SilentStep DEF SealValidate, StepOf
<1>10. ASSUME NEW s \in Snapshots, SealReady(s) PROVE Maps
   <2>1. /\ snap[s].state \in Preparing /\ snap'[s].state \in Preparing
         /\ snap'[s].kind = snap[s].kind /\ work' = work /\ facts' = facts
      BY <1>0, <1>10 DEF SealReady, OwnedCandidate, Preparing, TypeOK, SnapshotRows
   <2>2. Draft(s)' = Draft(s)
      BY <2>1 DEF Draft
   <2>. QED
      BY <1>10, <2>2, SilentStep DEF SealReady, StepOf
<1>11. ASSUME NEW s \in Snapshots, PublishTx(s) PROVE Maps
   <2>1. /\ snap[s].state = "ready" /\ work[s].purpose # "none" /\ work[s].purpose # "compaction"
         /\ work[s].purpose \in {"none", "delta", "base", "compaction"}
         /\ UNCHANGED <<facts, binding>> /\ work'[s].purpose = "none"
         /\ snap[s].kind \in {"base", "delta"}
      BY <1>0, <1>11 DEF PublishTx, OwnedCandidate, Working, NoWork, TypeOK, WorkRows, SnapshotRows
   <2>2. snap[s].state \in Preparing /\ work[s].purpose \in {"delta", "base"}
      BY <2>1 DEF Preparing
   <2>3. /\ Draft(s) = [full |-> snap[s].kind = "base", basis |-> work[s].seen, change |-> facts[s]]
         /\ Draft(s) # None
      BY <1>0, <2>2, DraftRecord
   <2>4. work[s].seen = Visible(layers)
      <3>1. snap[s].parent = head.rev
         BY <1>0, <1>11, ParentIsHead
      <3>2. work[s].rev = head.rev
         BY <2>1, <2>2, <3>1 DEF IInv, WorkerKnows, Working
      <3>. QED
         BY <2>1, <3>2 DEF IInv, WorkerKnows, Working
   <2>5. Draft(s)' = None
      BY <2>1 DEF Draft
   <2>6. Drafts' = [Drafts EXCEPT ![s] = None] /\ Drafts[s] = Draft(s)
      BY <1>0, <1>11, <2>5, OneDraft, DraftsAre DEF StepOf
   <2>7. Visible(layers) = VisibleIn(facts, layers) /\ Visible(layers)' = VisibleIn(facts, layers')
      BY <2>1 DEF Visible, VisibleIn
   <2>8. CASE snap[s].kind = "base"
      <3>1. layers' = <<s>>
         BY <1>11, <2>8 DEF PublishTx
      <3>2. Visible(layers)' = View!RowsOf(facts[s])
         BY <2>7, <3>1, SingleRows
      <3>a. (snap[s].kind = "base") = TRUE
         BY <2>8
      <3>b. Drafts[s] = [full |-> TRUE, basis |-> Visible(layers), change |-> facts[s]]
         BY <2>3, <2>4, <2>6, <3>a, Zenon
      <3>3. Drafts[s].full /\ Drafts[s].change = facts[s] /\ Drafts[s].basis = Visible(layers)
         BY <3>b
      <3>4. View!Publish(s)
         BY <2>1, <2>3, <2>6, <3>2, <3>3, BoundsKept DEF View!Publish
      <3>. QED
         BY <3>4 DEF Maps, View!ViewNext
   <2>9. CASE snap[s].kind = "delta"
      <3>1. layers' = Append(layers, s) /\ layers \in Seq(Snapshots)
         BY <1>0, <1>11, <2>9 DEF PublishTx, TypeOK
      <3>2. Visible(layers)' = View!Overlay(Visible(layers), facts[s])
         BY <2>7, <3>1, OverlayRows
      <3>a. (snap[s].kind = "base") = FALSE
         BY <2>9
      <3>b. Drafts[s] = [full |-> FALSE, basis |-> Visible(layers), change |-> facts[s]]
         BY <2>3, <2>4, <2>6, <3>a, Zenon
      <3>3. ~Drafts[s].full /\ Drafts[s].change = facts[s] /\ Drafts[s].basis = Visible(layers)
         BY <3>b
      <3>4. View!Publish(s)
         BY <2>1, <2>3, <2>6, <3>2, <3>3, BoundsKept DEF View!Publish
      <3>. QED
         BY <3>4 DEF Maps, View!ViewNext
   <2>. QED
      BY <2>1, <2>8, <2>9
<1>12. ASSUME NEW s \in Snapshots, PublishCompactionTx(s) PROVE Maps
   <2>1. /\ work[s].purpose = "compaction" /\ work'[s].purpose = "none" /\ facts' = facts
         /\ binding' = binding /\ layers' = Rebased(s, Len(prefix[s]))
         /\ CompactionPrefix(s) /\ snap[s].state = "ready" /\ prefix[s] \in Seq(Snapshots)
      BY <1>0, <1>12 DEF PublishCompactionTx, OwnedCandidate, NoWork, TypeOK
   <2>2. Draft(s)' = Draft(s)
      BY <2>1 DEF Draft
   <2>3. Visible(<<s>>) = Visible(prefix[s])
      BY <2>1, Exact DEF CompactionExact
   <2>4. VisibleIn(facts, <<s>>) = VisibleIn(facts, prefix[s])
      BY <2>3 DEF Visible, VisibleIn
   <2>5. /\ Len(prefix[s]) \in 1..Len(layers) /\ layers \in Seq(Snapshots)
         /\ \A k \in 1..Len(prefix[s]) : layers[k] = prefix[s][k]
      <3>1. layers \in Seq(Snapshots)
         BY <1>0 DEF TypeOK
      <3>2. Len(prefix[s]) \in Nat /\ Len(layers) \in Nat
         BY <2>1, <3>1
      <3>. QED
         BY <2>1, <3>1, <3>2 DEF CompactionPrefix
   <2>6. VisibleIn(facts, layers') = VisibleIn(facts, layers)
      <3>1. /\ Len(layers') = Len(layers) - Len(prefix[s]) + 1 /\ layers'[1] = s
            /\ \A k \in 2..(Len(layers) - Len(prefix[s]) + 1) :
                  layers'[k] = layers[Len(prefix[s]) + k - 1]
         BY <2>1, <2>5, RebasedShape
      <3>2. ASSUME NEW ps \in Seq(Snapshots), NEW ls \in Seq(Snapshots), NEW new, NEW f,
                   ps = prefix[s], ls = layers, new = layers', f = facts
            PROVE  VisibleIn(f, new) = VisibleIn(f, ls)
         <4>1. /\ Len(ps) \in 1..Len(ls) /\ (\A k \in 1..Len(ps) : ls[k] = ps[k])
               /\ Len(new) = Len(ls) - Len(ps) + 1 /\ new[1] = s
               /\ \A k \in 2..(Len(ls) - Len(ps) + 1) : new[k] = ls[Len(ps) + k - 1]
               /\ VisibleIn(f, <<s>>) = VisibleIn(f, ps)
            BY <2>4, <2>5, <3>1, <3>2
         <4>. QED
            BY <4>1, CompactRows
      <3>. QED
         BY <2>1, <2>5, <3>2
   <2>7. Visible(layers)' = Visible(layers)
      BY <2>1, <2>6 DEF Visible, VisibleIn
   <2>. QED
      BY <1>12, <2>1, <2>2, <2>7, SilentSnapshot DEF StepOf
<1>13. ASSUME NEW s \in Snapshots, Abandon(s) PROVE Maps
   <2>1. Draft(s)' = None /\ UNCHANGED <<layers, binding>>
      BY <1>0, <1>13 DEF Abandon, AbandonAll, Draft, NoWork, Preparing, TypeOK, SnapshotRows
   <2>2. \A t \in Snapshots : Draft(t)' = IF t \in {s} THEN None ELSE Draft(t)
      BY <1>0, <1>13, <2>1, Elsewhere, DraftElsewhere DEF StepOf
   <2>. QED
      BY <2>1, <2>2, DropStep
<1>14. ASSUME NEW s \in Snapshots, AuthorityLapses(s) PROVE Maps
   <2>1. Draft(s)' = None /\ UNCHANGED <<layers, binding>>
      BY <1>0, <1>14 DEF AuthorityLapses, Draft, NoWork, Preparing, TypeOK, SnapshotRows
   <2>2. \A t \in Snapshots : Draft(t)' = IF t \in {s} THEN None ELSE Draft(t)
      BY <1>0, <1>14, <2>1, Elsewhere, DraftElsewhere DEF StepOf
   <2>. QED
      BY <2>1, <2>2, DropStep
<1>15. ASSUME NEW s \in Snapshots, AuthorityGone(s) PROVE Maps
   <2>1. /\ snap' = snap /\ facts' = facts /\ work'[s].purpose = work[s].purpose /\ work'[s].seen = work[s].seen
      BY <1>0, <1>15 DEF AuthorityGone, Preparing, TypeOK, SnapshotRows, WorkRows
   <2>2. Draft(s)' = Draft(s)
      BY <2>1 DEF Draft
   <2>. QED
      BY <1>15, <2>2, SilentStep DEF AuthorityGone, StepOf
<1>16. ASSUME NEW s \in Snapshots, MaintainAbandon(s) PROVE Maps
   <2>1. Draft(s)' = None /\ UNCHANGED <<layers, binding>>
      BY <1>0, <1>16 DEF MaintainAbandon, AbandonAll, Draft, NoWork, Preparing, TypeOK, SnapshotRows
   <2>2. \A t \in Snapshots : Draft(t)' = IF t \in {s} THEN None ELSE Draft(t)
      BY <1>0, <1>16, <2>1, Elsewhere, DraftElsewhere DEF StepOf
   <2>. QED
      BY <2>1, <2>2, DropStep
<1>17. ASSUME NEW s \in Snapshots, MarkGC(s) PROVE Maps
   <2>1. /\ snap[s].state \notin Preparing /\ snap'[s].state \notin Preparing
      BY <1>0, <1>17 DEF MarkGC, Preparing, TypeOK, SnapshotRows, WorkRows
   <2>2. Draft(s)' = Draft(s)
      BY <2>1 DEF Draft
   <2>. QED
      BY <1>17, <2>2, SilentStep DEF MarkGC, StepOf
<1>18. ASSUME NEW s \in Snapshots, CollectBatch(s) PROVE Maps
   <2>1. /\ snap[s].state \notin Preparing /\ snap'[s].state \notin Preparing
      BY <1>0, <1>18 DEF CollectBatch, Preparing, TypeOK, SnapshotRows, WorkRows
   <2>2. Draft(s)' = Draft(s)
      BY <2>1 DEF Draft
   <2>. QED
      BY <1>18, <2>2, SilentStep DEF CollectBatch, StepOf
<1>19. ASSUME NEW s \in Snapshots, ChangeSource(s) PROVE Maps
   <2>1. binding' = binding /\ facts' = facts /\ layers' = <<s>> /\ snap[s].state = "absent"
      BY <1>19 DEF ChangeSource
   <2>2. Visible(layers)' = {}
      <3>1. Visible(layers)' = VisibleIn(facts, <<s>>)
         BY <2>1 DEF Visible, VisibleIn
      <3>2. facts[s] = NoFacts
         BY <2>1 DEF IInv, AbsentEmpty
      <3>3. View!RowsOf(NoFacts) = {}
         BY ValsAssumption DEF View!RowsOf, View!Rows, NoFacts
      <3>. QED
         BY <3>1, <3>2, <3>3, SingleRows
   <2>3. ASSUME NEW t \in Snapshots PROVE Draft(t)' = None
      <3>1. CASE t \in Live
         BY <1>19, <3>1 DEF ChangeSource, Draft, NoWork
      <3>2. CASE t \notin Live
         BY <1>19, <3>2 DEF ChangeSource, Live, Draft, Preparing
      <3>. QED
         BY <3>1, <3>2
   <2>4. Drafts' = [t \in Snapshots |-> None] /\ Bounds' = Bounds
      BY <2>1, <2>3, DraftsAre, BoundsKept
   <2>. QED
      BY <2>2, <2>4 DEF Maps, View!ViewNext, View!Replace
<1>20. ASSUME NEW o \in Owners, CaptureBinding(o) PROVE Maps
   <2>1. UNCHANGED <<snap, facts, layers, work>> /\ (binding[o] # None => ~binding[o].held)
         /\ binding' = [binding EXCEPT ![o] =
               [rev |-> head.rev, epoch |-> head.epoch, config |-> head.config,
                layers |-> layers, held |-> TRUE, rows |-> Visible(layers)]]
      BY <1>0, <1>20 DEF CaptureBinding, TypeOK
   <2>2. Drafts' = Drafts /\ Visible(layers)' = Visible(layers)
      BY <2>1 DEF Drafts, Visible
   <2>3. /\ binding'[o].rows = Visible(layers) /\ binding'[o].held = TRUE /\ binding'[o] # None
         /\ \A q \in Owners : q # o => binding'[q] = binding[q]
      <3>1. binding'[o] \in BindingRows
         BY <1>0, <2>1, BindingUpdates DEF TypeOK
      <3>. QED
         BY <1>0, <2>1, <3>1, NoneAssumption DEF TypeOK
   <2>4. Bounds' = [Bounds EXCEPT ![o] = [view |-> Visible(layers), held |-> TRUE]]
      BY <2>3, BoundsAre, BoundsNext DEF BoundToRows
   <2>5. Bounds[o] = None \/ ~Bounds[o].held
      BY <2>1, BoundsAre DEF BoundToRows
   <2>9. View!Capture(o)
      BY <2>2, <2>4, <2>5 DEF View!Capture
   <2>. QED
      BY <2>9 DEF Maps, View!ViewNext
<1>21. ASSUME NEW o \in Owners, ReleaseBinding(o) PROVE Maps
   <2>1. UNCHANGED <<snap, facts, layers, work>> /\ binding[o] # None /\ binding[o].held
         /\ binding' = [binding EXCEPT ![o].held = FALSE]
      BY <1>0, <1>21 DEF ReleaseBinding, TypeOK
   <2>2. Drafts' = Drafts /\ Visible(layers)' = Visible(layers)
      BY <2>1 DEF Drafts, Visible
   <2>3. binding[o] \in BindingRows
      BY <1>0, <2>1 DEF TypeOK
   <2>4. /\ binding'[o].rows = binding[o].rows /\ binding'[o].held = FALSE
         /\ binding'[o] \in BindingRows /\ binding'[o] # None
         /\ \A q \in Owners : q # o => binding'[q] = binding[q]
      <3>1. binding'[o] = [binding[o] EXCEPT !.held = FALSE]
         BY <1>0, <2>1 DEF TypeOK
      <3>2. /\ binding'[o].rows = binding[o].rows /\ binding'[o].held = FALSE
            /\ binding'[o] \in BindingRows
         BY <2>3, <3>1 DEF BindingRows
      <3>. QED
         BY <1>0, <2>1, <3>2, NoneAssumption DEF TypeOK
   <2>5. Bounds[o] = [view |-> binding[o].rows, held |-> binding[o].held]
      BY <2>1, BoundsAre DEF BoundToRows
   <2>6. Bounds[o] # None
      <3>1. Bounds[o] \in [view : SUBSET (Ids \X Vals), held : BOOLEAN]
         BY <2>3, <2>5 DEF BindingRows
      <3>. QED
         BY <3>1, NoneAssumption
   <2>7. Bounds'[o] = [Bounds[o] EXCEPT !.held = FALSE]
      BY <2>4, <2>5, BoundsNext DEF BoundToRows
   <2>8. Bounds' = [Bounds EXCEPT ![o] = [Bounds[o] EXCEPT !.held = FALSE]]
      BY <2>4, <2>7, BoundsAre, BoundsNext DEF BoundToRows
   <2>9. View!Release(o)
      BY <2>1, <2>2, <2>5, <2>6, <2>8 DEF View!Release
   <2>. QED
      BY <2>9 DEF Maps, View!ViewNext
<1>22. ASSUME NEW o \in Owners, ReacquireBinding(o) PROVE Maps
   <2>1. UNCHANGED <<snap, facts, layers, work>> /\ binding[o] # None /\ ~binding[o].held
         /\ binding' = [binding EXCEPT ![o].held = TRUE]
      BY <1>0, <1>22 DEF ReacquireBinding, TypeOK
   <2>2. Drafts' = Drafts /\ Visible(layers)' = Visible(layers)
      BY <2>1 DEF Drafts, Visible
   <2>3. binding[o] \in BindingRows
      BY <1>0, <2>1 DEF TypeOK
   <2>4. /\ binding'[o].rows = binding[o].rows /\ binding'[o].held = TRUE
         /\ binding'[o] \in BindingRows /\ binding'[o] # None
         /\ \A q \in Owners : q # o => binding'[q] = binding[q]
      <3>1. binding'[o] = [binding[o] EXCEPT !.held = TRUE]
         BY <1>0, <2>1 DEF TypeOK
      <3>2. /\ binding'[o].rows = binding[o].rows /\ binding'[o].held = TRUE
            /\ binding'[o] \in BindingRows
         BY <2>3, <3>1 DEF BindingRows
      <3>. QED
         BY <1>0, <2>1, <3>2, NoneAssumption DEF TypeOK
   <2>5. Bounds[o] = [view |-> binding[o].rows, held |-> binding[o].held]
      BY <2>1, BoundsAre DEF BoundToRows
   <2>6. Bounds[o] # None
      <3>1. Bounds[o] \in [view : SUBSET (Ids \X Vals), held : BOOLEAN]
         BY <2>3, <2>5 DEF BindingRows
      <3>. QED
         BY <3>1, NoneAssumption
   <2>7. Bounds'[o] = [Bounds[o] EXCEPT !.held = TRUE]
      BY <2>4, <2>5, BoundsNext DEF BoundToRows
   <2>8. Bounds' = [Bounds EXCEPT ![o] = [Bounds[o] EXCEPT !.held = TRUE]]
      BY <2>4, <2>7, BoundsAre, BoundsNext DEF BoundToRows
   <2>9. View!Rebind(o)
      BY <2>1, <2>2, <2>5, <2>6, <2>8 DEF View!Rebind
   <2>. QED
      BY <2>9 DEF Maps, View!ViewNext
<1>23. ASSUME NEW c \in Configs, ChangeConfig(c) PROVE Maps
   <2>1. UNCHANGED <<layers, binding>> /\ Live \in SUBSET Snapshots
      BY <1>23 DEF ChangeConfig, Live
   <2>2. ASSUME NEW t \in Snapshots PROVE Draft(t)' = IF t \in Live THEN None ELSE Draft(t)
      <3>1. CASE t \in Live
         <4>1. work'[t].purpose = "none"
            BY <1>23, <3>1 DEF ChangeConfig, AbandonAll, NoWork
         <4>. QED
            BY <3>1, <4>1 DEF Draft
      <3>2. CASE t \notin Live
         <4>1. Untouched(t)
            BY <1>0, <1>23, <3>2 DEF ChangeConfig, AbandonAll, Untouched, TypeOK
         <4>. QED
            BY <3>2, <4>1, DraftElsewhere
      <3>. QED
         BY <3>1, <3>2
   <2>3. ASSUME NEW C \in SUBSET Snapshots, C = Live PROVE Maps
      BY <2>1, <2>2, <2>3, DropStep
   <2>. QED
      BY <2>1, <2>3
<1>24. CASE UNCHANGED vars
   <2>1. Drafts' = Drafts /\ Bounds' = Bounds /\ Visible(layers)' = Visible(layers)
      BY <1>24 DEF vars, Drafts, Bounds, Visible
   <2>. QED
      BY <2>1 DEF Maps, View!viewVars
<1>. QED
   BY <1>1, <1>2, <1>3, <1>4, <1>5, <1>6, <1>7, <1>8, <1>9, <1>10, <1>11, <1>12, <1>13,
      <1>14, <1>15, <1>16, <1>17, <1>18, <1>19, <1>20, <1>21, <1>22, <1>23, <1>24
   DEF Next, Prepare, Authority, Maintain

\* The catalogue with its layers, leases, compactions and collector implements
\* CatalogView: nothing is published over rows its author has not read, compaction and
\* collection are invisible, and a bound owner keeps the rows it captured.
THEOREM SpecImplementsView == Spec => ImplementsView
<1>1. Init => View!ViewInit
   <2>. SUFFICES ASSUME Init PROVE View!ViewInit
      OBVIOUS
   <2>1. Visible(layers) \in SUBSET View!Rows
      BY DEF Visible, View!Rows
   <2>2. Drafts = [t \in Snapshots |-> None]
      BY DEF Init, Drafts, NoWork
   <2>3. Bounds = [o \in Owners |-> None]
      BY DEF Init, Bounds
   <2>. QED
      BY <2>1, <2>2, <2>3 DEF View!ViewInit
<1>2. IInv /\ IInv' /\ [Next]_vars => [View!ViewNext]_(View!viewVars)
   BY ViewStep DEF Maps
<1>. QED
   BY <1>1, <1>2, SpecInv, PTL DEF Spec, ImplementsView, View!ViewSpec

=============================================================================
