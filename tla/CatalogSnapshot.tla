-------------------------- MODULE CatalogSnapshot --------------------------
(***************************************************************************)
(* The versioned catalogue of one media library: immutable snapshots       *)
(* stacked into the layers of a head (one base, then deltas), candidates   *)
(* that are prepared in many short transactions and published in one,      *)
(* compaction of the lower layers while newer deltas keep arriving,        *)
(* bindings that pin the layers of a moment for long-running work, and the *)
(* collection of snapshots nobody can reach any more.                      *)
(*                                                                         *)
(* Every action is one transaction of the code; the worker that prepares a *)
(* candidate keeps in memory (work) what it read in earlier ones.          *)
(***************************************************************************)
EXTENDS Naturals, Sequences, FiniteSets

CONSTANTS Snapshots,       \* snapshot ids (a fresh uuid each)
          Stack,           \* the layers the library starts with
          StackFacts,      \* the facts these layers may start with
          Purposes,        \* snapshot -> what its id may be created for
          Ids,             \* identities of catalogue rows, in cursor order
          Vals,            \* what a row may say
          Owners,          \* binding owners: artifact, repair, reorganization
          Configs,         \* configuration fingerprints
          None,            \* no fact, no binding, no row read
          Tombstone,       \* a fact that deletes the row below it
          MaxDeltas,       \* CatalogMaxDeltas
          MaxDeltaRows,    \* CatalogMaxDeltaRows
          MaxPreparations, \* CatalogMaxPreparations
          MaxRevision      \* bound of the instances on the head revision

ASSUME StackAssumption ==
    /\ Stack \in Seq(Snapshots)
    /\ Len(Stack) \in 1..(MaxDeltas + 1)
    /\ \A j, k \in 1..Len(Stack) : Stack[j] = Stack[k] => j = k
ASSUME StackFactsAssumption ==
    \A f \in StackFacts :
        /\ f \in [Snapshots -> [Ids -> Vals \cup {None, Tombstone}]]
        /\ \A s \in Snapshots, i \in Ids :
              (\A k \in 1..Len(Stack) : Stack[k] # s) => f[s][i] = None
ASSUME PurposesAssumption ==
    Purposes \in [Snapshots -> SUBSET {"delta", "base", "compaction", "source"}]
ASSUME ConfigsAssumption == Configs # {}
ASSUME IdsAssumption == Ids \subseteq Nat \ {0}
ASSUME ValsAssumption == None \notin Vals /\ Tombstone \notin Vals /\ None # Tombstone
ASSUME LimitAssumption ==
    /\ MaxDeltas \in Nat
    /\ MaxPreparations \in Nat
    /\ MaxDeltaRows \in Nat
    /\ MaxRevision \in Nat

VARIABLES snap,     \* catalog_snapshots
          facts,    \* catalog_*_facts of each snapshot: identity -> value
          head,     \* catalog_heads: revision, source epoch, configuration
          layers,   \* catalog_head_layers, by rank
          prefix,   \* compaction references of a candidate, by rank
          binding,  \* owner -> the layers it captured; held while its references exist
          work      \* what the worker of a candidate knows, and its leases

vars == <<snap, facts, head, layers, prefix, binding, work>>

Preparing == {"building", "validating", "ready"}

Facts == [Ids -> Vals \cup {None, Tombstone}]

NoFacts == [i \in Ids |-> None]

FirstConfig == CHOOSE c \in Configs : TRUE

Absent == [kind |-> "base", state |-> "absent", parent |-> 0, epoch |-> 0,
           config |-> FirstConfig, pub |-> 0]

NoWork == [purpose |-> "none", rev |-> 0, epoch |-> 0, config |-> FirstConfig,
           seen |-> {}, layers |-> <<>>, after |-> 0, batch |-> None,
           copied |-> FALSE, validated |-> FALSE, auth |-> "gone"]

(* A worker that still may act reads for, or prepares, this snapshot.        *)
Working(s) == work[s].purpose # "none"

(* effectiveSQL and the tombstone filter over it: the row of the highest     *)
(* layer that mentions the identity, chosen before tombstones are dropped.   *)
Visible(ls) ==
    {r \in Ids \X Vals :
        \E k \in 1..Len(ls) :
            /\ facts[ls[k]][r[1]] = r[2]
            /\ \A j \in (k + 1)..Len(ls) : facts[ls[j]][r[1]] = None}

InLayers(s, ls) == \E k \in 1..Len(ls) : ls[k] = s

(* PinCatalogTx: what a reader of the head requires of its layers.           *)
PinCatalogTx ==
    /\ Len(layers) >= 1
    /\ \A k \in 1..Len(layers) :
          /\ snap[layers[k]].state = "published"
          /\ snap[layers[k]].epoch = head.epoch
          /\ k - 1 <= MaxDeltas
          /\ snap[layers[k]].kind = IF k = 1 THEN "base" ELSE "delta"

Rows(s) == Cardinality({i \in Ids : facts[s][i] # None})

DeltaRows ==
    Cardinality({p \in (2..Len(layers)) \X Ids : facts[layers[p[1]]][p[2]] # None})

(* catalogCompactionPrefix: the layers the candidate's references name,      *)
(* rank by rank, still are the lowest layers of the head.                    *)
CompactionPrefix(s) ==
    /\ Len(prefix[s]) > 0
    /\ Len(prefix[s]) <= Len(layers)
    /\ \A k \in 1..Len(prefix[s]) : layers[k] = prefix[s][k]

(* The authority of a candidate is its own lease together with the job that  *)
(* began it, if any: "held" while the lease is live and catalogCheckJob      *)
(* accepts the job, "gone" when the lease has run out and no job runs under  *)
(* the lease it was begun with, "lapsed" in between: nobody may act on the   *)
(* candidate any more and nobody may abandon it yet.                         *)

(* catalogOwnedCandidate: what every step of a preparation checks in its own *)
(* transaction. Only a compaction survives a newer head.                     *)
OwnedCandidate(s, state) ==
    /\ snap[s].state = state
    /\ work[s].auth = "held"
    /\ head.epoch = snap[s].epoch
    /\ head.config = snap[s].config
    /\ head.rev # snap[s].parent =>
          /\ head.rev > snap[s].parent
          /\ CompactionPrefix(s)

(* A library with a published catalogue: the base it was created with or one *)
(* of a full scan, and deltas above it.                                      *)
Init ==
    /\ head = [rev |-> Len(Stack), epoch |-> 1, config |-> FirstConfig]
    /\ snap = [s \in Snapshots |->
          IF InLayers(s, Stack)
          THEN LET k == CHOOSE k \in 1..Len(Stack) : Stack[k] = s
               IN  [kind |-> IF k = 1 THEN "base" ELSE "delta", state |-> "published",
                    parent |-> k - 1, epoch |-> 1, config |-> FirstConfig, pub |-> k]
          ELSE Absent]
    /\ layers = Stack
    /\ facts \in StackFacts
    /\ prefix = [t \in Snapshots |-> <<>>]
    /\ binding = [o \in Owners |-> None]
    /\ work = [t \in Snapshots |-> NoWork]

----------------------------------------------------------------------------
(* Preparing a candidate                                                     *)

(* A worker reads the catalogue it is going to change (or, for a compaction, *)
(* to rewrite) in a read transaction of its own.                             *)
Read(s, purpose) ==
    /\ snap[s].state = "absent"
    /\ work[s].purpose = "none"
    /\ PinCatalogTx
    /\ work' = [work EXCEPT ![s] =
          [purpose |-> purpose, rev |-> head.rev, epoch |-> head.epoch,
           config |-> head.config, seen |-> Visible(layers), layers |-> layers,
           after |-> 0, batch |-> None, copied |-> FALSE, validated |-> FALSE,
           auth |-> "gone"]]
    /\ UNCHANGED <<snap, facts, head, layers, prefix, binding>>

\* Mutant: the kind is stored as the caller names its purpose.
KindOfAsGiven(purpose) == purpose

KindOf(purpose) == IF purpose = "delta" THEN "delta" ELSE "base"

(* catalogPreparationBudgetTx                                                *)
PreparationBudget(kind) ==
    LET active == {t \in Snapshots : snap[t].state \in Preparing}
    IN  /\ Cardinality(active) < MaxPreparations
        /\ kind = "base" => \A t \in active : snap[t].kind # "base"

(* BeginCandidate: the head must still be the one that was read.             *)
BeginCandidate(s) ==
    /\ Working(s)
    /\ snap[s].state = "absent"
    /\ LET kind == KindOf(work[s].purpose)
       IN  /\ PreparationBudget(kind)
           /\ head.rev = work[s].rev
           /\ head.epoch = work[s].epoch
           /\ head.config = work[s].config
           /\ snap' = [snap EXCEPT ![s] =
                 [kind |-> kind, state |-> "building", parent |-> head.rev,
                  epoch |-> head.epoch, config |-> head.config, pub |-> 0]]
    /\ work' = [work EXCEPT ![s].auth = "held"]
    /\ UNCHANGED <<facts, head, layers, prefix, binding>>

(* The worker gives up before anything of it is stored.                      *)
GiveUpRead(s) ==
    /\ Working(s)
    /\ snap[s].state = "absent"
    /\ work' = [work EXCEPT ![s] = NoWork]
    /\ UNCHANGED <<snap, facts, head, layers, prefix, binding>>

(* AppendBatch: facts are only ever added; one that exists is a conflict.    *)
AppendBatch(s, i, v) ==
    /\ Working(s)
    /\ OwnedCandidate(s, "building")
    /\ facts[s][i] = None
    /\ snap[s].kind = "delta" => Rows(s) + 1 <= MaxDeltaRows
    /\ facts' = [facts EXCEPT ![s][i] = v]

(* A scan or a mutation writes the facts it found; only a delta has rows to  *)
(* delete.                                                                   *)
AppendFact(s) ==
    /\ Working(s)
    /\ work[s].purpose # "compaction"
    /\ \E i \in Ids, v \in Vals \cup {Tombstone} :
          /\ v = Tombstone => snap[s].kind = "delta"
          /\ AppendBatch(s, i, v)
    /\ UNCHANGED <<snap, head, layers, prefix, binding, work>>

(* Compact pins the layers it read, each under the candidate and its rank,   *)
(* in one transaction that still sees the head it read.                      *)
AcquirePrefix(s) ==
    /\ Working(s)
    /\ work[s].purpose = "compaction"
    /\ prefix[s] = <<>>
    /\ OwnedCandidate(s, "building")
    /\ \A k \in 1..Len(work[s].layers) : snap[work[s].layers[k]].state = "published"
    /\ prefix' = [prefix EXCEPT ![s] = work[s].layers]
    /\ UNCHANGED <<snap, facts, head, layers, binding, work>>

(* copyCatalogCompactionFacts reads the next rows of the captured layers     *)
(* after its cursor and appends them in another transaction.                 *)
CopyRead(s) ==
    /\ Working(s)
    /\ work[s].purpose = "compaction"
    /\ prefix[s] # <<>>
    /\ ~work[s].copied
    /\ work[s].batch = None
    /\ OwnedCandidate(s, "building")
    /\ LET rest == {r \in Visible(work[s].layers) : r[1] > work[s].after}
       IN  \/ /\ rest = {}
              /\ work' = [work EXCEPT ![s].copied = TRUE]
           \/ \E r \in rest :
                /\ \A q \in rest : r[1] <= q[1]
                /\ work' = [work EXCEPT ![s].batch = r]
    /\ UNCHANGED <<snap, facts, head, layers, prefix, binding>>

\* Mutant: the cursor steps past the row after the one it copied.
CopyAppendSkips(s) ==
    /\ Working(s)
    /\ work[s].purpose = "compaction"
    /\ work[s].batch # None
    /\ AppendBatch(s, work[s].batch[1], work[s].batch[2])
    /\ work' = [work EXCEPT ![s].after = work[s].batch[1] + 1, ![s].batch = None]
    /\ UNCHANGED <<snap, head, layers, prefix, binding>>

CopyAppend(s) ==
    /\ Working(s)
    /\ work[s].purpose = "compaction"
    /\ work[s].batch # None
    /\ AppendBatch(s, work[s].batch[1], work[s].batch[2])
    /\ work' = [work EXCEPT ![s].after = work[s].batch[1], ![s].batch = None]
    /\ UNCHANGED <<snap, head, layers, prefix, binding>>

(* Seal freezes the facts, validates them in a read transaction and marks    *)
(* the candidate ready in a third one.                                       *)
SealFreeze(s) ==
    /\ Working(s)
    /\ work[s].purpose = "compaction" => work[s].copied
    /\ \E state \in {"building", "validating"} : OwnedCandidate(s, state)
    /\ snap' = [snap EXCEPT ![s].state = "validating"]
    /\ UNCHANGED <<facts, head, layers, prefix, binding, work>>

SealValidate(s) ==
    /\ Working(s)
    /\ OwnedCandidate(s, "validating")
    /\ PinCatalogTx
    /\ snap[s].kind = "delta" => Len(layers) <= MaxDeltas
    /\ work' = [work EXCEPT ![s].validated = TRUE]
    /\ UNCHANGED <<snap, facts, head, layers, prefix, binding>>

SealReady(s) ==
    /\ Working(s)
    /\ work[s].validated
    /\ OwnedCandidate(s, "validating")
    /\ snap' = [snap EXCEPT ![s].state = "ready"]
    /\ UNCHANGED <<facts, head, layers, prefix, binding, work>>

----------------------------------------------------------------------------
(* Publication                                                               *)

(* PublishTx                                                                 *)
PublishTx(s) ==
    /\ Working(s)
    /\ work[s].purpose # "compaction"
    /\ OwnedCandidate(s, "ready")
    /\ prefix[s] = <<>>
    /\ snap[s].kind = "delta" =>
          /\ Len(layers) >= 1
          /\ Len(layers) <= MaxDeltas
          /\ DeltaRows + Rows(s) <= MaxDeltaRows
    /\ head.rev < MaxRevision
    /\ head' = [head EXCEPT !.rev = snap[s].parent + 1]
    /\ layers' = IF snap[s].kind = "base" THEN <<s>> ELSE Append(layers, s)
    /\ snap' = [snap EXCEPT ![s].state = "published", ![s].pub = snap[s].parent + 1]
    /\ work' = [work EXCEPT ![s] = NoWork]
    /\ UNCHANGED <<facts, prefix, binding>>

(* The layers above the compacted prefix must be deltas published since the  *)
(* compaction began, under the same source and configuration.                *)
SuffixVerified(s) ==
    \A k \in (Len(prefix[s]) + 1)..Len(layers) :
        /\ snap[layers[k]].kind = "delta"
        /\ snap[layers[k]].state = "published"
        /\ snap[layers[k]].epoch = snap[s].epoch
        /\ snap[layers[k]].config = snap[s].config
        /\ snap[layers[k]].pub > snap[s].parent

\* Mutant: the new base replaces the deltas published meanwhile as well.
RebasedOverAll(s, n) == <<s>>

(* The layers of the head once a base stands for its n lowest ones.          *)
Rebased(s, n) == <<s>> \o SubSeq(layers, n + 1, Len(layers))

(* PublishCompactionTx                                                       *)
PublishCompactionTx(s) ==
    /\ Working(s)
    /\ work[s].purpose = "compaction"
    /\ OwnedCandidate(s, "ready")
    /\ CompactionPrefix(s)
    /\ PinCatalogTx
    /\ SuffixVerified(s)
    /\ head.rev < MaxRevision
    /\ head' = [head EXCEPT !.rev = head.rev + 1]
    /\ layers' = Rebased(s, Len(prefix[s]))
    /\ snap' = [snap EXCEPT ![s].state = "published", ![s].pub = head.rev + 1]
    /\ prefix' = [prefix EXCEPT ![s] = <<>>]
    /\ work' = [work EXCEPT ![s] = NoWork]
    /\ UNCHANGED <<facts, binding>>

----------------------------------------------------------------------------
(* Giving up, losing authority, maintenance                                  *)

\* Mutant: the compaction references of an abandoned candidate stay.
AbandonAllKeepsReferences(S) ==
    /\ snap' = [s \in Snapshots |->
                  IF s \in S THEN [snap[s] EXCEPT !.state = "abandoned"] ELSE snap[s]]
    /\ work' = [s \in Snapshots |-> IF s \in S THEN NoWork ELSE work[s]]
    /\ UNCHANGED prefix

AbandonAll(S) ==
    /\ snap' = [s \in Snapshots |->
                  IF s \in S THEN [snap[s] EXCEPT !.state = "abandoned"] ELSE snap[s]]
    /\ prefix' = [s \in Snapshots |-> IF s \in S THEN <<>> ELSE prefix[s]]
    /\ work' = [s \in Snapshots |-> IF s \in S THEN NoWork ELSE work[s]]

(* Abandon: the owner of the candidate gives it up, whatever its lease.      *)
Abandon(s) ==
    /\ snap[s].state \in Preparing
    /\ AbandonAll({s})
    /\ UNCHANGED <<facts, head, layers, binding>>

(* The worker ends without abandoning its candidate (a crash, or an abandon  *)
(* that fails), its lease runs out before it renews it, or its job is asked  *)
(* to stop or ends. What it knew is of no use: every step would be refused.  *)
AuthorityLapses(s) ==
    /\ Working(s)
    /\ snap[s].state \in Preparing
    /\ work' = [work EXCEPT ![s] = [NoWork EXCEPT !.auth = "lapsed"]]
    /\ UNCHANGED <<snap, facts, head, layers, prefix, binding>>

(* The lease has run out and no job runs under the lease that began the      *)
(* candidate.                                                                *)
AuthorityGone(s) ==
    /\ snap[s].state \in Preparing
    /\ work[s].auth = "lapsed"
    /\ work' = [work EXCEPT ![s].auth = "gone"]
    /\ UNCHANGED <<snap, facts, head, layers, prefix, binding>>

(* Maintain abandons a candidate whose lease ran out, unless its job still   *)
(* runs under the lease that began it.                                       *)
MaintainAbandon(s) ==
    /\ snap[s].state \in Preparing
    /\ work[s].auth = "gone"
    /\ AbandonAll({s})
    /\ UNCHANGED <<facts, head, layers, binding>>

\* Mutant: only compactions are asked whether they still need a snapshot.
ReferencedByCompaction(s) == \E t \in Snapshots : InLayers(s, prefix[t])

Bound(s) ==
    \E o \in Owners : binding[o] # None /\ binding[o].held /\ InLayers(s, binding[o].layers)

Referenced(s) ==
    \/ Bound(s)
    \/ \E t \in Snapshots : InLayers(s, prefix[t])

\* Mutant: the layers of the head are not looked at.
MarkGCListed(s) ==
    /\ \A t \in Snapshots : snap[t].state # "gc"
    /\ snap[s].state \in {"published", "abandoned"}
    /\ ~Referenced(s)
    /\ snap' = [snap EXCEPT ![s].state = "gc"]
    /\ UNCHANGED <<facts, head, layers, prefix, binding, work>>

(* MarkCatalogGCTx, as Maintain calls it: when nothing is marked already.    *)
MarkGC(s) ==
    /\ \A t \in Snapshots : snap[t].state # "gc"
    /\ snap[s].state \in {"published", "abandoned"}
    /\ ~InLayers(s, layers)
    /\ ~Referenced(s)
    /\ snap' = [snap EXCEPT ![s].state = "gc"]
    /\ UNCHANGED <<facts, head, layers, prefix, binding, work>>

(* CollectBatch deletes the facts of a marked snapshot, lowest ids first,    *)
(* and its own row when no fact is left.                                     *)
CollectBatch(s) ==
    /\ snap[s].state = "gc"
    /\ \/ /\ facts[s] = NoFacts
          /\ snap' = [snap EXCEPT ![s].state = "removed"]
          /\ UNCHANGED facts
       \/ \E i \in Ids :
             /\ facts[s][i] # None
             /\ \A j \in Ids : facts[s][j] # None => i <= j
             /\ facts' = [facts EXCEPT ![s][i] = None]
             /\ UNCHANGED snap
    /\ UNCHANGED <<head, layers, prefix, binding, work>>

----------------------------------------------------------------------------
(* Bindings                                                                  *)

(* CaptureCatalogBindingTx references every layer of the head. The rows are  *)
(* what the owner may rely on from now on.                                   *)
CaptureBinding(o) ==
    /\ binding[o] # None => ~binding[o].held
    /\ PinCatalogTx
    /\ binding' = [binding EXCEPT ![o] =
          [rev |-> head.rev, epoch |-> head.epoch, config |-> head.config,
           layers |-> layers, held |-> TRUE, rows |-> Visible(layers)]]
    /\ UNCHANGED <<snap, facts, head, layers, prefix, work>>

ReleaseBinding(o) ==
    /\ binding[o] # None
    /\ binding[o].held
    /\ binding' = [binding EXCEPT ![o].held = FALSE]
    /\ UNCHANGED <<snap, facts, head, layers, prefix, work>>

(* A refresh of completed artifacts references the layers of the old binding *)
(* again: the newest one, under an unchanged source and configuration, whose *)
(* snapshots are all still published.                                        *)
ReacquireBinding(o) ==
    /\ binding[o] # None
    /\ ~binding[o].held
    /\ \A p \in Owners : binding[p] # None => binding[p].rev <= binding[o].rev
    /\ PinCatalogTx
    /\ binding[o].epoch = head.epoch
    /\ binding[o].config = head.config
    /\ \A k \in 1..Len(binding[o].layers) : snap[binding[o].layers[k]].state = "published"
    /\ binding' = [binding EXCEPT ![o].held = TRUE]
    /\ UNCHANGED <<snap, facts, head, layers, prefix, work>>

(* PinBoundCatalogTx: what a reader of a held binding requires.              *)
PinBoundCatalogTx(o) ==
    /\ \A k \in 1..Len(binding[o].layers) :
          LET s == binding[o].layers[k]
          IN  /\ snap[s].state = "published"
              /\ snap[s].epoch = binding[o].epoch
              /\ snap[s].kind = IF k = 1 THEN "base" ELSE "delta"
              /\ snap[s].pub <= binding[o].rev
              /\ \A j \in 1..Len(binding[o].layers) : binding[o].layers[j] = s => j = k
    /\ Len(binding[o].layers) \in 1..(MaxDeltas + 1)

----------------------------------------------------------------------------
(* The library changes: applyCatalogLibraryChangeTx                          *)

Live == {s \in Snapshots : snap[s].state \in Preparing}

ChangeConfig(c) ==
    /\ c # head.config
    /\ head.rev < MaxRevision
    /\ head' = [head EXCEPT !.rev = head.rev + 1, !.config = c]
    /\ AbandonAll(Live)
    /\ UNCHANGED <<facts, layers, binding>>

(* A new source starts with a published base that knows nothing.             *)
ChangeSource(s) ==
    /\ "source" \in Purposes[s]
    /\ snap[s].state = "absent"
    /\ work[s].purpose = "none"
    /\ head.rev < MaxRevision
    /\ head' = [head EXCEPT !.rev = head.rev + 1, !.epoch = head.epoch + 1]
    /\ layers' = <<s>>
    /\ snap' = [t \in Snapshots |->
          IF t = s THEN [kind |-> "base", state |-> "published", parent |-> head.rev,
                         epoch |-> head.epoch + 1, config |-> head.config, pub |-> head.rev + 1]
          ELSE IF t \in Live THEN [snap[t] EXCEPT !.state = "abandoned"]
          ELSE snap[t]]
    /\ prefix' = [t \in Snapshots |-> IF t \in Live THEN <<>> ELSE prefix[t]]
    /\ work' = [t \in Snapshots |-> IF t \in Live THEN NoWork ELSE work[t]]
    /\ UNCHANGED <<facts, binding>>

----------------------------------------------------------------------------
Prepare(s) ==
    \/ \E purpose \in Purposes[s] \cap {"delta", "base", "compaction"} : Read(s, purpose)
    \/ BeginCandidate(s) \/ GiveUpRead(s)
    \/ AppendFact(s)
    \/ AcquirePrefix(s) \/ CopyRead(s) \/ CopyAppend(s)
    \/ SealFreeze(s) \/ SealValidate(s) \/ SealReady(s)
    \/ PublishTx(s) \/ PublishCompactionTx(s)
    \/ Abandon(s)

Authority(s) == AuthorityLapses(s) \/ AuthorityGone(s)

Maintain(s) == MaintainAbandon(s) \/ MarkGC(s) \/ CollectBatch(s)

Next ==
    \/ \E s \in Snapshots : Prepare(s) \/ Authority(s) \/ Maintain(s)
    \/ \E o \in Owners : CaptureBinding(o) \/ ReleaseBinding(o) \/ ReacquireBinding(o)
    \/ \E c \in Configs : ChangeConfig(c)
    \/ \E s \in Snapshots : ChangeSource(s)

Spec == Init /\ [][Next]_vars

(* The maintenance loop runs for as long as the process does, the leases of  *)
(* a worker that is gone run out, and the queue recovers the job it left.    *)
Fairness(s) ==
    /\ WF_vars(MaintainAbandon(s))
    /\ WF_vars(MarkGC(s))
    /\ WF_vars(CollectBatch(s))
    /\ WF_vars(AuthorityGone(s))

FairSpec == Spec /\ \A s \in Snapshots : Fairness(s)

----------------------------------------------------------------------------
(* Properties                                                                *)

SnapshotRows ==
    [kind : {"base", "delta"},
     state : {"absent", "building", "validating", "ready", "published",
              "abandoned", "gc", "removed"},
     parent : Nat, epoch : Nat, config : Configs, pub : Nat]

WorkRows ==
    [purpose : {"none", "delta", "base", "compaction"}, rev : Nat, epoch : Nat,
     config : Configs, seen : SUBSET (Ids \X Vals), layers : Seq(Snapshots),
     after : Nat, batch : (Ids \X Vals) \cup {None}, copied : BOOLEAN,
     validated : BOOLEAN, auth : {"held", "lapsed", "gone"}]

BindingRows ==
    [rev : Nat, epoch : Nat, config : Configs, layers : Seq(Snapshots),
     held : BOOLEAN, rows : SUBSET (Ids \X Vals)]

\* None stands for a row that does not exist: it is no binding, and no draft and
\* nothing bound in the view below.
ASSUME NoneAssumption ==
    /\ None \notin BindingRows
    /\ None \notin [full : BOOLEAN, basis : SUBSET (Ids \X Vals), change : Facts]
    /\ None \notin [view : SUBSET (Ids \X Vals), held : BOOLEAN]

(* The tables and the workers' memory hold values of their types.            *)
TypeOK ==
    /\ snap \in [Snapshots -> SnapshotRows]
    /\ facts \in [Snapshots -> Facts]
    /\ head \in [rev : Nat, epoch : Nat, config : Configs]
    /\ layers \in Seq(Snapshots)
    /\ prefix \in [Snapshots -> Seq(Snapshots)]
    /\ binding \in [Owners -> BindingRows \cup {None}]
    /\ work \in [Snapshots -> WorkRows]

(* Every read of the catalogue pins its head: PinCatalogTx must never answer *)
(* ErrCatalogInvalid, whatever was published, compacted, collected or        *)
(* reconfigured before (catalog_snapshot_reader.go:24).                      *)
HeadReadable == PinCatalogTx

(* Long-running work reads its binding page by page in separate              *)
(* transactions: PinBoundCatalogTx must accept it for as long as the owner   *)
(* holds its references (catalog_snapshot_binding.go:44).                    *)
BoundReadable ==
    \A o \in Owners : binding[o] # None /\ binding[o].held => PinBoundCatalogTx(o)

(* A compaction that is ready to publish states exactly the rows of the      *)
(* layers it is going to replace, although it copied them in many            *)
(* transactions while newer deltas were published and old snapshots          *)
(* collected (catalog_compaction.go:167).                                    *)
CompactionExact ==
    \A s \in Snapshots :
        snap[s].state \in {"validating", "ready"} /\ work[s].purpose = "compaction" =>
            Visible(<<s>>) = Visible(prefix[s])

(* The catalogue as its users see it.                                        *)
Drafts ==
    [s \in Snapshots |->
        IF snap[s].state \in Preparing /\ work[s].purpose \in {"delta", "base"}
        THEN [full |-> snap[s].kind = "base", basis |-> work[s].seen, change |-> facts[s]]
        ELSE None]

Bounds ==
    [o \in Owners |->
        IF binding[o] = None THEN None
        ELSE [view |-> IF binding[o].held THEN Visible(binding[o].layers)
                                          ELSE binding[o].rows,
              held |-> binding[o].held]]

View == INSTANCE CatalogView WITH
            Candidates <- Snapshots, content <- Visible(layers),
            draft <- Drafts, bound <- Bounds

(* The layered, leased and collected catalogue implements the simple one of  *)
(* CatalogView: a change is published only over the rows its author read, a  *)
(* compaction and the collector change nothing anybody can see, and a bound  *)
(* owner keeps the rows it captured.                                         *)
ImplementsView == View!ViewSpec

(* A candidate whose worker is gone, and a snapshot that no head lists, is   *)
(* collected in the end unless a binding or a compaction still at work holds *)
(* it: its preparation slot, its references and its rows come back           *)
(* (catalog_maintenance.go:19).                                              *)
CollectedInTheEnd ==
    \A s \in Snapshots :
        (\/ snap[s].state \in Preparing /\ ~Working(s)
         \/ snap[s].state = "abandoned"
         \/ snap[s].state = "published" /\ ~InLayers(s, layers))
        ~> (\/ snap[s].state = "removed"
            \/ Bound(s)
            \/ \E t \in Snapshots : Working(t) /\ InLayers(s, prefix[t]))
=============================================================================
