-------------------------- MODULE MediaRefreshProofs --------------------------
(***************************************************************************)
(* Proofs about MediaRefresh, for any targets, kinds, batch, tokens and    *)
(* budgets: the type invariant, that a player is told everything up to its *)
(* cursor, that the newest ready revision reaches every enabled target,    *)
(* that a target believes only in refreshes that happened, and that no     *)
(* pending change is deleted that nothing newer stands for.                *)
(***************************************************************************)
EXTENDS MediaRefresh, FiniteSetTheorems, WellFoundedInduction, TLAPS

\* A change as RecordTx makes it and as both ways to readiness rewrite it.
ChangeRows == [seq : Nat, rev : Revs, gen : 1..MaxGen, kind : Kinds,
               state : {"pending", "ready"}]

\* What the users and the changes may still spend fits the bounds, and the
\* sequences do: each change takes one when it is recorded and one when it is ready.
RoomLeft ==
    /\ lib.rev + left.changes <= MaxRev
    /\ lib.gen + left.scans <= MaxGen
    /\ IsFiniteSet(rows)
    /\ lib.seq + Cardinality(Pending) <= 2 * lib.rev

AskedRoom == \A t \in Targets : target[t].manual + left.requests <= MaxAsked

\* The library has seen every sequence and every revision of its rows, and the
\* pending changes stand in the order of their revisions.
FeedOrdered ==
    /\ \A c \in rows : c.seq <= lib.seq /\ c.rev <= lib.rev
    /\ \A c, d \in Pending : c.rev < d.rev => c.seq < d.seq

\* The history knows of exactly the ready changes, and only of recorded ones.
ReadyKnown ==
    /\ \A c \in rows : ready[c.rev] # 0 <=> c.state = "ready"
    /\ \A r \in Revs : ready[r] <= Readied /\ (ready[r] # 0 => r <= lib.rev)

\* What the cleanup marker has written off is older than a change that stands for it.
CleanupSound ==
    /\ cleanup.max <= lib.seq
    /\ \A c \in Pending : c.seq <= cleanup.max => c.rev < stood

\* Nobody asks for a revision that was not ready.
MarkerReady == dispatch.rev # 0 => ready[dispatch.rev] # 0
TargetsReady == \A t \in Targets : target[t].desired # 0 => ready[target[t].desired] # 0

\* A goroutine in a call began it after the revision it read was ready, and an
\* accepted call is one the history knows of.
CallKnows(w) ==
    /\ w.pc # "off" => w.target \in Targets
    /\ w.desired # 0 => ready[w.desired] # 0
    /\ w.pc \in {"calling", "accepted"} /\ w.desired # 0 => ready[w.desired] <= w.saw
    /\ w.pc = "accepted" => w.saw <= reached[w.target]

\* A cursor is never ahead of the feed.
PlayerBehind == player.cursor <= lib.seq /\ player.latest <= lib.seq

\* The inductive invariant.
IInv ==
    /\ TypeOK
    /\ RoomLeft
    /\ AskedRoom
    /\ FeedOrdered
    /\ ReadyKnown
    /\ CleanupSound
    /\ MarkerReady
    /\ TargetsReady
    /\ \A k \in Tokens : CallKnows(work[k])
    /\ PlayerBehind
    /\ FeedTellsEverything
    /\ NewestReachesTargets
    /\ RefreshedIsTrue

-----------------------------------------------------------------------------
(* Largest elements, first elements and ranks of finite sets                 *)

\* A non-empty set of naturals has a least element.
LEMMA LeastElement ==
    ASSUME NEW T \in SUBSET Nat, T # {}
    PROVE  \E x \in T : \A y \in T : x <= y
<1>. DEFINE R == OpToRel(<, Nat)
<1>1. IsWellFoundedOn(R, Nat)
   BY NatLessThanWellFounded
<1>. HIDE DEF R
<1>2. PICK x \in T : \A y \in T : ~ (<<y, x>> \in R)
   BY <1>1, WFMin
<1>3. \A y \in T : y < x => <<y, x>> \in R
   BY DEF R, OpToRel
<1>4. ASSUME NEW y \in T PROVE x <= y
   <2>1. x \in Nat /\ y \in Nat /\ ~ (y < x)
      BY <1>2, <1>3
   <2>. QED
      BY <2>1
<1>. QED
   BY <1>4

\* A finite set of naturals has a largest element: the least cardinality of a set
\* without one would be that of a set with an element to take out.
LEMMA GreatestElement ==
    ASSUME NEW S \in SUBSET Nat, IsFiniteSet(S), S # {}
    PROVE  \E x \in S : \A y \in S : x >= y
<1>. DEFINE Top(U) == \E x \in U : \A y \in U : x >= y
            Bad == {n \in Nat : \E U \in SUBSET Nat : /\ IsFiniteSet(U) /\ U # {}
                                                      /\ Cardinality(U) = n /\ ~ Top(U)}
<1>1. Bad = {}
   <2>1. SUFFICES ASSUME Bad # {} PROVE FALSE
      OBVIOUS
   <2>2. PICK n \in Bad : \A m \in Bad : n <= m
      BY <2>1, LeastElement
   <2>3. PICK U \in SUBSET Nat : IsFiniteSet(U) /\ U # {} /\ Cardinality(U) = n /\ ~ Top(U)
      BY <2>2
   <2>4. PICK x \in U : TRUE
      BY <2>3
   <2>. DEFINE V == U \ {x}
   <2>5. IsFiniteSet(V) /\ Cardinality(V) = n - 1 /\ V \in SUBSET Nat
      BY <2>3, <2>4, FS_RemoveElement
   <2>6. Cardinality(V) \in Nat
      BY <2>5, FS_CardinalityType
   <2>7. CASE V = {}
      BY <2>3, <2>4, <2>7
   <2>8. CASE V # {}
      <3>1. ~ (Cardinality(V) \in Bad)
         <4>1. n \in Nat /\ ~ (n <= Cardinality(V))
            BY <2>5, <2>6
         <4>. HIDE DEF Bad, V
         <4>. QED
            BY <2>2, <4>1
      <3>2. Top(V)
         BY <3>1, <2>5, <2>6, <2>8
      <3>3. PICK z \in V : \A y \in V : z >= y
         BY <3>2
      <3>4. z \in Nat /\ x \in Nat /\ z \in U
         BY <2>3
      <3>5. CASE x <= z
         BY <3>3, <3>4, <3>5, <2>3
      <3>6. CASE z <= x
         <4>1. \A y \in U : x >= y
            BY <3>3, <3>4, <3>6, <2>3
         <4>. QED
            BY <4>1, <2>3, <2>4
      <3>. QED
         BY <3>4, <3>5, <3>6
   <2>. QED
      BY <2>7, <2>8
<1>2. Cardinality(S) \in Nat
   BY FS_CardinalityType
<1>. QED
   BY <1>1, <1>2

\* Max chooses the greatest element of a finite set.
LEMMA MaxOf ==
    ASSUME NEW S \in SUBSET Nat, IsFiniteSet(S), S # {}
    PROVE  Max(S) \in S /\ \A y \in S : y <= Max(S)
<1>1. \E x \in S : \A y \in S : x >= y
   BY GreatestElement
<1>. QED
   BY <1>1 DEF Max

\* Largest is the greatest element, or 0 when there is none.
LEMMA LargestOf ==
    ASSUME NEW S \in SUBSET Nat, IsFiniteSet(S)
    PROVE  /\ Largest(S) \in Nat
           /\ Largest(S) \in S \cup {0}
           /\ \A y \in S : y <= Largest(S)
<1>1. IsFiniteSet(S \cup {0}) /\ S \cup {0} \in SUBSET Nat /\ S \cup {0} # {}
   BY FS_AddElement
<1>. QED
   BY <1>1, MaxOf DEF Largest

\* The first elements of a set are an initial part of it.
LEMMA FirstOfDown ==
    ASSUME NEW S \in SUBSET Nat, IsFiniteSet(S), NEW n \in Nat
    PROVE  /\ FirstOf(S, n) \subseteq S
           /\ \A s \in FirstOf(S, n) : \A u \in S : u <= s => u \in FirstOf(S, n)
<1>1. ASSUME NEW s \in FirstOf(S, n), NEW u \in S, u <= s PROVE u \in FirstOf(S, n)
   <2>. DEFINE A == {v \in S : v <= u}
               B == {v \in S : v <= s}
   <2>1. s \in S /\ Cardinality(B) <= n
      BY DEF FirstOf
   <2>2. IsFiniteSet(A) /\ IsFiniteSet(B)
      BY FS_Subset
   <2>3. A \in SUBSET B
      <3>1. ASSUME NEW v \in A PROVE v \in S /\ v <= s
         <4>1. v \in Nat /\ u \in Nat /\ s \in Nat /\ v <= u
            BY <2>1
         <4>. QED
            BY <1>1, <4>1
      <3>. QED
         BY <3>1
   <2>4. Cardinality(A) <= Cardinality(B)
      BY <2>2, <2>3, FS_Subset
   <2>5. Cardinality(A) \in Nat /\ Cardinality(B) \in Nat
      BY <2>2, FS_CardinalityType
   <2>. QED
      BY <2>1, <2>4, <2>5 DEF FirstOf
<1>. QED
   BY <1>1 DEF FirstOf

\* A batch of a non-empty set is not empty.
LEMMA FirstOfSome ==
    ASSUME NEW S \in SUBSET Nat, S # {}, NEW n \in Nat \ {0}
    PROVE  FirstOf(S, n) # {}
<1>1. PICK x \in S : \A y \in S : x <= y
   BY LeastElement
<1>2. {u \in S : u <= x} = {x}
   <2>1. ASSUME NEW u \in S, u <= x PROVE u = x
      <3>1. u \in Nat /\ x \in Nat /\ x <= u
         BY <1>1
      <3>. QED
         BY <2>1, <3>1
   <2>2. x <= x
      BY <1>1
   <2>. QED
      BY <2>1, <2>2
<1>3. Cardinality({u \in S : u <= x}) = 1
   BY <1>2, FS_Singleton
<1>. QED
   BY <1>3 DEF FirstOf

\* The ranks of changes with different revisions are different, and count from 1.
LEMMA RankOf ==
    ASSUME NEW S, IsFiniteSet(S), \A c \in S : c.rev \in Nat
    PROVE  /\ Cardinality(S) \in Nat
           /\ \A c \in S : Rank(S, c) \in 1..Cardinality(S)
           /\ \A c, d \in S : c.rev < d.rev => Rank(S, c) < Rank(S, d)
<1>. DEFINE Upto(c) == {d \in S : d.rev <= c.rev}
<1>1. Cardinality(S) \in Nat
   BY FS_CardinalityType
<1>2. \A c \in S : IsFiniteSet(Upto(c)) /\ Cardinality(Upto(c)) <= Cardinality(S)
   BY FS_Subset
<1>3. \A c \in S : Cardinality(Upto(c)) \in Nat
   BY <1>2, FS_CardinalityType
<1>4. \A c \in S : Cardinality(Upto(c)) # 0
   <2>1. \A c \in S : c \in Upto(c)
      OBVIOUS
   <2>. QED
      BY <2>1, <1>2, FS_EmptySet
<1>5. ASSUME NEW c \in S, NEW d \in S, c.rev < d.rev
      PROVE  Cardinality(Upto(c)) < Cardinality(Upto(d))
   <2>1. Upto(c) \in SUBSET Upto(d)
      BY <1>5
   <2>2. d \in Upto(d) /\ d \notin Upto(c)
      BY <1>5
   <2>3. /\ Cardinality(Upto(c)) <= Cardinality(Upto(d))
         /\ Cardinality(Upto(d)) = Cardinality(Upto(c)) => Upto(d) = Upto(c)
      BY <1>2, <2>1, FS_Subset
   <2>. HIDE DEF Upto
   <2>. QED
      BY <2>2, <2>3, <1>3
<1>6. \A c \in S : Rank(S, c) = Cardinality(Upto(c))
   BY DEF Rank
<1>. HIDE DEF Upto
<1>. QED
   BY <1>1, <1>2, <1>3, <1>4, <1>5, <1>6

\* The revisions of changes that share none are as many as the changes.
LEMMA RevsOf ==
    ASSUME NEW S, IsFiniteSet(S), \A c, d \in S : c.rev = d.rev => c = d
    PROVE  /\ IsFiniteSet({c.rev : c \in S})
           /\ Cardinality({c.rev : c \in S}) = Cardinality(S)
<1>. DEFINE T == {c.rev : c \in S}
            f == [c \in S |-> c.rev]
<1>1. f \in Surjection(S, T)
   BY DEF Surjection
<1>2. f \in Injection(S, T)
   BY DEF Injection, IsInjective
<1>. QED
   BY <1>1, <1>2, FS_Surjection

\* The same for any field: an image of a finite set is finite.
LEMMA SeqsOf ==
    ASSUME NEW S, IsFiniteSet(S)
    PROVE  IsFiniteSet({c.seq : c \in S}) /\ IsFiniteSet({c.rev : c \in S})
<1>1. [c \in S |-> c.seq] \in Surjection(S, {c.seq : c \in S})
   BY DEF Surjection
<1>2. [c \in S |-> c.rev] \in Surjection(S, {c.rev : c \in S})
   BY DEF Surjection
<1>. QED
   BY <1>1, <1>2, FS_Surjection

\* What the budgets allow.
LEMMA Bounds ==
    /\ MaxRev \in Nat /\ MaxGen \in Nat \ {0} /\ MaxAsked \in Nat
    /\ \A b \in Budgets : b.changes <= MaxRev /\ 1 + b.scans <= MaxGen /\ b.requests <= MaxAsked
<1>. DEFINE C == {b.changes : b \in Budgets}
            G == {b.scans : b \in Budgets}
            A == {b.requests : b \in Budgets}
<1>1. C \in SUBSET Nat /\ G \in SUBSET Nat /\ A \in SUBSET Nat
   BY BudgetsAssumption DEF Budget
<1>2. C # {} /\ G # {} /\ A # {}
   BY BudgetsAssumption
<1>3. /\ [b \in Budgets |-> b.changes] \in Surjection(Budgets, C)
      /\ [b \in Budgets |-> b.scans] \in Surjection(Budgets, G)
      /\ [b \in Budgets |-> b.requests] \in Surjection(Budgets, A)
   BY DEF Surjection
<1>4. IsFiniteSet(C) /\ IsFiniteSet(G) /\ IsFiniteSet(A)
   BY <1>3, BudgetsAssumption, FS_Surjection
<1>. HIDE DEF C, G, A
<1>5. /\ Max(C) \in C /\ \A y \in C : y <= Max(C)
      /\ Max(G) \in G /\ \A y \in G : y <= Max(G)
      /\ Max(A) \in A /\ \A y \in A : y <= Max(A)
   BY <1>1, <1>2, <1>4, MaxOf
<1>6. MaxRev = Max(C) /\ MaxGen = 1 + Max(G) /\ MaxAsked = Max(A)
   BY DEF MaxRev, MaxGen, MaxAsked, C, G, A
<1>7. \A b \in Budgets : b.changes \in C /\ b.scans \in G /\ b.requests \in A
   BY DEF C, G, A
<1>8. /\ Max(C) \in Nat /\ Max(G) \in Nat /\ Max(A) \in Nat
      /\ \A b \in Budgets : b.changes \in Nat /\ b.scans \in Nat /\ b.requests \in Nat
   BY <1>1, <1>5, <1>7
<1>. QED
   BY <1>5, <1>6, <1>7, <1>8

-----------------------------------------------------------------------------
(* The parts of the type invariant, by who writes them                       *)

FeedTypes ==
    /\ lib \in [rev : 0..MaxRev, gen : 1..MaxGen, seq : 0..(2 * MaxRev)]
    /\ rows \subseteq [seq : Seqs, rev : Revs, gen : 1..MaxGen, kind : Kinds,
                       state : {"pending", "ready"}]
    /\ \A c, d \in rows : c = d \/ (c.seq # d.seq /\ c.rev # d.rev)
    /\ cleanup \in [gen : 0..MaxGen, max : 0..(2 * MaxRev), after : 0..(2 * MaxRev)]
    /\ ready \in [Revs -> 0..MaxRev]
    /\ stood \in 0..MaxRev

TargetRows == [state : {"unborn", "present", "gone"}, enabled : BOOLEAN,
               desired : 0..MaxRev, success : 0..MaxRev, manual : 0..MaxAsked,
               manualOk : 0..MaxAsked, linked : BOOLEAN,
               status : {"idle", "queued", "running", "retry_wait", "failed", "completed"}]
JobRows == [lease : Tokens \cup {0}, attempts : 0..MaxAttempts, behind : BOOLEAN,
            status : Live \cup {"none", "completed", "failed", "cancelled"}]
WorkRows == [target : Targets \cup {0}, desired : 0..MaxRev,
             manual : 0..MaxAsked, saw : 0..MaxRev,
             pc : {"off", "claimed", "read", "calling", "accepted", "done", "failed", "again"}]
CallerRows == [todo : SUBSET Targets, linking : Targets \cup {0}, newest : BOOLEAN]
PlayerRows == [cursor : 0..(2 * MaxRev), latest : 0..(2 * MaxRev), told : SUBSET Seqs,
               pc : {"idle", "finding"}]
MarkerRows == [rev : 0..MaxRev, after : Targets \cup {0}]

\* The type invariant, variable by variable.
LEMMA TypeParts ==
    TypeOK <=> /\ FeedTypes
               /\ dispatch \in MarkerRows
               /\ target \in [Targets -> TargetRows]
               /\ job \in [Targets -> JobRows]
               /\ work \in [Tokens -> WorkRows]
               /\ caller \in [Callers -> CallerRows]
               /\ player \in PlayerRows
               /\ left \in Budget
               /\ reached \in [Targets -> 0..MaxRev]
BY DEF TypeOK, FeedTypes, MarkerRows, TargetRows, JobRows, WorkRows, CallerRows, PlayerRows

\* What the feed itself must keep.
FeedInv == FeedTypes /\ RoomLeft /\ FeedOrdered /\ ReadyKnown /\ CleanupSound

\* What the marker, the targets and their users must keep.
TargetInv ==
    /\ dispatch \in MarkerRows
    /\ target \in [Targets -> TargetRows]
    /\ reached \in [Targets -> 0..MaxRev]
    /\ AskedRoom /\ MarkerReady /\ TargetsReady
    /\ NewestReachesTargets /\ RefreshedIsTrue

\* What the poll must keep, and the goroutines of the jobs.
PlayerInv == player \in PlayerRows /\ PlayerBehind /\ FeedTellsEverything
WorkInv == work \in [Tokens -> WorkRows] /\ \A k \in Tokens : CallKnows(work[k])

\* The rest is of its type.
RestTypes ==
    /\ left \in Budget
    /\ job \in [Targets -> JobRows]
    /\ caller \in [Callers -> CallerRows]

\* The inductive invariant, by the parts of the system it speaks of.
LEMMA Parts == IInv <=> FeedInv /\ TargetInv /\ PlayerInv /\ WorkInv /\ RestTypes
BY TypeParts DEF IInv, FeedInv, TargetInv, PlayerInv, WorkInv, RestTypes

\* What a budget becomes.
LEMMA LeftPending ==
    ASSUME NEW b \in Budget, NEW n \in Nat, n <= b.scans, b.changes > 0
    PROVE  /\ [b EXCEPT !.changes = @ - 1, !.scans = @ - n] \in Budget
           /\ [b EXCEPT !.changes = @ - 1, !.scans = @ - n].changes = b.changes - 1
           /\ [b EXCEPT !.changes = @ - 1, !.scans = @ - n].scans = b.scans - n
           /\ [b EXCEPT !.changes = @ - 1, !.scans = @ - n].requests = b.requests
<1>1. b.changes - 1 \in Nat /\ b.scans - n \in Nat
   BY DEF Budget
<1>. DEFINE d == [b EXCEPT !.changes = b.changes - 1, !.scans = b.scans - n]
<1>2. d \in Budget /\ d.changes = b.changes - 1 /\ d.scans = b.scans - n /\ d.requests = b.requests
   BY <1>1 DEF Budget
<1>. QED
   BY <1>2

\* Spending from a budget leaves a budget.
LEMMA SpendKeeps ==
    ASSUME left \in Budget,
           NEW f \in {"changes", "scans", "polls", "prunes", "requests", "faults"}, Spend(f)
    PROVE  /\ left' \in Budget
           /\ left'.changes = IF f = "changes" THEN left.changes - 1 ELSE left.changes
           /\ left'.scans = IF f = "scans" THEN left.scans - 1 ELSE left.scans
           /\ left'.requests = IF f = "requests" THEN left.requests - 1 ELSE left.requests
           /\ left.changes \in Nat /\ left.scans \in Nat /\ left.requests \in Nat
BY DEF Budget, Spend

-----------------------------------------------------------------------------
(* Changes become ready                                                      *)

\* S is a set of changes that may become ready in one transaction.
Announceable(S) ==
    /\ S \subseteq ChangeRows /\ IsFiniteSet(S)
    /\ \A c \in S : c.state = "pending" /\ ready[c.rev] = 0
    /\ \A c, d \in S : c.rev = d.rev => c = d
    /\ \A c \in S, d \in rows \ S : c.rev # d.rev

\* The number of changes that became ready is bounded by the revisions.
LEMMA ReadiedType ==
    ASSUME ready \in [Revs -> 0..MaxRev]
    PROVE  Readied \in Nat /\ Readied <= MaxRev /\ IsFiniteSet({r \in Revs : ready[r] # 0})
<1>1. IsFiniteSet(Revs) /\ Cardinality(Revs) = MaxRev
   BY Bounds, FS_Interval DEF Revs
<1>2. IsFiniteSet({r \in Revs : ready[r] # 0}) /\ Readied <= MaxRev
   BY <1>1, FS_Subset DEF Readied
<1>. QED
   BY <1>2, FS_CardinalityType DEF Readied

\* Publication gives every change a sequence of its own, past all the old ones.
LEMMA PublishedIs ==
    ASSUME FeedTypes, NEW S, Announceable(S)
    PROVE  /\ \A p \in Published(S) :
                 /\ p \in ChangeRows /\ p.state = "ready"
                 /\ p.seq \in (lib.seq + 1)..(lib.seq + Cardinality(S))
                 /\ \E c \in S : c.rev = p.rev
           /\ \A c \in S : \E p \in Published(S) : p.rev = c.rev
           /\ \A p, q \in Published(S) : p = q \/ (p.seq # q.seq /\ p.rev # q.rev)
           /\ IsFiniteSet(Published(S))
           /\ Cardinality(S) \in Nat
<1>. DEFINE P(c) == [c EXCEPT !.state = "ready", !.seq = lib.seq + Rank(S, c)]
<1>1. \A c \in S : c \in ChangeRows /\ c.rev \in Nat
   BY Bounds DEF Announceable, ChangeRows, Revs
<1>2. /\ Cardinality(S) \in Nat
      /\ \A c \in S : Rank(S, c) \in 1..Cardinality(S)
      /\ \A c, d \in S : c.rev < d.rev => Rank(S, c) < Rank(S, d)
   BY <1>1, RankOf DEF Announceable
<1>3. lib.seq \in Nat
   BY Bounds DEF FeedTypes
<1>4. ASSUME NEW c \in S
      PROVE  P(c) \in ChangeRows /\ P(c).state = "ready" /\ P(c).rev = c.rev
             /\ P(c).seq = lib.seq + Rank(S, c)
   <2>1. lib.seq + Rank(S, c) \in Nat
      BY <1>2, <1>3
   <2>. QED
      BY <1>1, <2>1 DEF ChangeRows
<1>. HIDE DEF P
<1>5. ASSUME NEW c \in S, NEW d \in S, P(c).seq = P(d).seq PROVE c = d
   <2>1. Rank(S, c) \in Nat /\ Rank(S, d) \in Nat /\ lib.seq + Rank(S, c) = lib.seq + Rank(S, d)
      BY <1>2, <1>4, <1>5
   <2>2. ~ (c.rev < d.rev) /\ ~ (d.rev < c.rev)
      BY <2>1, <1>2, <1>3
   <2>3. c.rev \in Nat /\ d.rev \in Nat
      BY <1>1
   <2>4. c.rev = d.rev
      BY <2>2, <2>3
   <2>. QED
      BY <2>4 DEF Announceable
<1>6. ASSUME NEW c \in S, NEW d \in S, P(c).rev = P(d).rev PROVE c = d
   BY <1>4, <1>6 DEF Announceable
<1>7. Published(S) = {P(c) : c \in S}
   BY DEF Published, P
<1>8. IsFiniteSet(Published(S))
   <2>1. [c \in S |-> P(c)] \in Surjection(S, {P(c) : c \in S})
      BY DEF Surjection
   <2>2. IsFiniteSet({P(c) : c \in S})
      BY <2>1, FS_Surjection DEF Announceable
   <2>. QED
      BY <2>2, <1>7
<1>9. \A c \in S : P(c).seq \in (lib.seq + 1)..(lib.seq + Cardinality(S))
   BY <1>2, <1>3, <1>4
<1>. QED
   BY <1>2, <1>4, <1>5, <1>6, <1>7, <1>8, <1>9

\* The history of an announcement.
LEMMA ReadiedBy ==
    ASSUME FeedTypes, NEW S, Announceable(S), Announce(S), S # {}
    PROVE  /\ Readied \in Nat /\ Readied' \in Nat /\ Readied' <= MaxRev
           /\ Readied' = Readied + Cardinality(S)
           /\ ready' \in [Revs -> 0..MaxRev]
           /\ \A c \in S : ready'[c.rev] \in (Readied + 1)..Readied'
           /\ \A r \in Revs : (\A c \in S : c.rev # r) => ready'[r] = ready[r]
<1>1. \A c \in S : c.rev \in Revs /\ c.rev \in Nat
   BY Bounds DEF Announceable, ChangeRows, Revs
<1>2. /\ Cardinality(S) \in Nat
      /\ \A c \in S : Rank(S, c) \in 1..Cardinality(S)
   BY <1>1, RankOf DEF Announceable
<1>3. ready \in [Revs -> 0..MaxRev] /\ Readied \in Nat /\ IsFiniteSet({r \in Revs : ready[r] # 0})
   BY ReadiedType DEF FeedTypes
<1>4. ready' = [r \in Revs |-> IF \E c \in S : c.rev = r
                                 THEN Readied + Rank(S, CHOOSE c \in S : c.rev = r)
                                 ELSE ready[r]]
   BY DEF Announce
<1>5. ASSUME NEW c \in S PROVE ready'[c.rev] = Readied + Rank(S, c)
   <2>1. (CHOOSE d \in S : d.rev = c.rev) = c
      <3>1. \A d \in S : d.rev = c.rev => d = c
         BY DEF Announceable
      <3>. QED
         BY <3>1
   <2>. QED
      BY <1>1, <1>4, <2>1
<1>6. \A r \in Revs : (\A c \in S : c.rev # r) => ready'[r] = ready[r]
   BY <1>4
<1>. DEFINE A == {r \in Revs : ready[r] # 0}
            B == {c.rev : c \in S}
            C == {r \in Revs : ready'[r] # 0}
<1>7. C = A \cup B
   <2>1. ASSUME NEW r \in C PROVE r \in A \cup B
      BY <1>6, <2>1
   <2>2. ASSUME NEW r \in A PROVE r \in C
      <3>1. \A c \in S : c.rev # r
         BY DEF Announceable
      <3>. QED
         BY <3>1, <1>6
   <2>3. ASSUME NEW c \in S PROVE c.rev \in C
      <3>1. Readied + Rank(S, c) # 0
         BY <1>2, <1>3
      <3>. QED
         BY <1>1, <1>5, <3>1
   <2>. QED
      BY <2>1, <2>2, <2>3
<1>8. A \cap B = {}
   BY DEF Announceable
<1>9. IsFiniteSet(B) /\ Cardinality(B) = Cardinality(S)
   BY RevsOf DEF Announceable
<1>10. Cardinality(C) = Cardinality(A) + Cardinality(B) - Cardinality(A \cap B)
   BY <1>3, <1>7, <1>9, FS_Union
<1>11. Cardinality(A \cap B) = 0
   BY <1>8, FS_EmptySet
<1>12. Readied = Cardinality(A) /\ Readied' = Cardinality(C)
   BY DEF Readied
<1>. HIDE DEF A, B, C
<1>13. Readied' = Readied + Cardinality(S) /\ Readied' \in Nat
   BY <1>2, <1>3, <1>9, <1>10, <1>11, <1>12
<1>14. Readied' <= MaxRev
   <2>1. IsFiniteSet(Revs) /\ Cardinality(Revs) = MaxRev
      BY Bounds, FS_Interval DEF Revs
   <2>2. C \in SUBSET Revs
      BY DEF C
   <2>. QED
      BY <2>1, <2>2, <1>12, FS_Subset
<1>15. \A c \in S : ready'[c.rev] \in (Readied + 1)..Readied'
   BY <1>2, <1>3, <1>5, <1>13
<1>16. ready' \in [Revs -> 0..MaxRev]
   <2>1. ASSUME NEW r \in Revs PROVE ready'[r] \in 0..MaxRev
      <3>1. CASE \E c \in S : c.rev = r
         <4>1. ready'[r] \in (Readied + 1)..Readied'
            BY <3>1, <1>15
         <4>. QED
            BY <4>1, <1>3, <1>13, <1>14, Bounds
      <3>2. CASE \A c \in S : c.rev # r
         BY <3>2, <1>3, <1>6
      <3>. QED
         BY <3>1, <3>2
   <2>2. ready' = [r \in Revs |-> ready'[r]]
      BY <1>4
   <2>. QED
      BY <2>1, <2>2
<1>. QED
   BY <1>3, <1>6, <1>13, <1>14, <1>15, <1>16

\* The rows after an announcement, and what is said of them.
LEMMA RowsAnnounced ==
    ASSUME FeedInv, NEW S, Announceable(S), Announce(S), S # {},
           lib'.seq = lib.seq + Cardinality(S), lib'.seq <= 2 * MaxRev,
           lib'.rev \in Nat, lib.rev <= lib'.rev, \A c \in S : c.rev <= lib'.rev
    PROVE  /\ Pending' = Pending \ S
           /\ Ready' = Ready \cup Published(S)
           /\ rows' \subseteq [seq : Seqs, rev : Revs, gen : 1..MaxGen, kind : Kinds,
                               state : {"pending", "ready"}]
           /\ (\A c, d \in rows : c = d \/ (c.seq # d.seq /\ c.rev # d.rev))'
           /\ IsFiniteSet(rows')
           /\ FeedOrdered'
           /\ ReadyKnown'
<1>. USE DEF FeedInv
<1>1. rows' = (rows \ S) \cup Published(S)
   BY DEF Announce
<1>2. /\ \A p \in Published(S) :
            /\ p \in ChangeRows /\ p.state = "ready"
            /\ p.seq \in (lib.seq + 1)..(lib.seq + Cardinality(S))
            /\ \E c \in S : c.rev = p.rev
      /\ \A p, q \in Published(S) : p = q \/ (p.seq # q.seq /\ p.rev # q.rev)
      /\ IsFiniteSet(Published(S))
      /\ Cardinality(S) \in Nat
   BY PublishedIs
<1>3. /\ Readied \in Nat /\ Readied' \in Nat
      /\ Readied' = Readied + Cardinality(S)
      /\ ready' \in [Revs -> 0..MaxRev]
      /\ \A c \in S : ready'[c.rev] \in (Readied + 1)..Readied'
      /\ \A r \in Revs : (\A c \in S : c.rev # r) => ready'[r] = ready[r]
   BY ReadiedBy
<1>4. \A c \in S : c.state = "pending" /\ c.rev \in Revs
   BY DEF Announceable, ChangeRows
<1>5. Pending' = Pending \ S
   BY <1>1, <1>2 DEF Pending
<1>6. Ready' = Ready \cup Published(S)
   BY <1>1, <1>2, <1>4 DEF Ready
<1>7. /\ lib.seq \in Nat /\ lib.rev \in Nat /\ ready \in [Revs -> 0..MaxRev]
      /\ \A c \in rows : /\ c.seq \in Nat /\ c.rev \in Nat /\ c.rev \in Revs
                         /\ c.seq <= lib.seq /\ c.rev <= lib.rev
                         /\ ready[c.rev] # 0 <=> c.state = "ready"
   <2>1. /\ lib.seq \in Nat /\ lib.rev \in Nat /\ ready \in [Revs -> 0..MaxRev]
      BY Bounds DEF FeedTypes
   <2>2. ASSUME NEW c \in rows PROVE c.seq \in Nat /\ c.rev \in Nat /\ c.rev \in Revs
      <3>1. c.seq \in Seqs /\ c.rev \in Revs
         BY DEF FeedTypes
      <3>. QED
         BY <3>1, Bounds DEF Seqs, Revs
   <2>3. \A c \in rows : /\ c.seq <= lib.seq /\ c.rev <= lib.rev
                         /\ ready[c.rev] # 0 <=> c.state = "ready"
      BY DEF FeedOrdered, ReadyKnown
   <2>. QED
      BY <2>1, <2>2, <2>3
<1>8. rows' \subseteq [seq : Seqs, rev : Revs, gen : 1..MaxGen, kind : Kinds,
                       state : {"pending", "ready"}]
   <2>1. ASSUME NEW p \in Published(S) PROVE p.seq \in Seqs
      <3>1. p.seq \in (lib.seq + 1)..(lib.seq + Cardinality(S))
         BY <1>2
      <3>. QED
         BY <3>1, <1>2, <1>7, Bounds DEF Seqs
   <2>2. ASSUME NEW p \in Published(S)
         PROVE  p \in [seq : Seqs, rev : Revs, gen : 1..MaxGen, kind : Kinds,
                       state : {"pending", "ready"}]
      BY <1>2, <2>1 DEF ChangeRows
   <2>. QED
      BY <1>1, <2>2 DEF FeedTypes
<1>9. \A c, d \in rows' : c = d \/ (c.seq # d.seq /\ c.rev # d.rev)
   <2>1. ASSUME NEW c \in rows \ S, NEW p \in Published(S) PROVE c.seq # p.seq /\ c.rev # p.rev
      <3>1. c.seq # p.seq
         <4>1. p.seq \in (lib.seq + 1)..(lib.seq + Cardinality(S)) /\ c.seq \in Nat /\ c.seq <= lib.seq
            BY <1>2, <1>7
         <4>. QED
            BY <4>1, <1>2, <1>7
      <3>2. c.rev # p.rev
         BY <1>2 DEF Announceable
      <3>. QED
         BY <3>1, <3>2
   <2>2. \A c, d \in rows \ S : c = d \/ (c.seq # d.seq /\ c.rev # d.rev)
      BY DEF FeedTypes
   <2>. QED
      BY <1>1, <1>2, <2>1, <2>2
<1>10. IsFiniteSet(rows')
   <2>1. IsFiniteSet(rows \ S)
      BY FS_Difference DEF RoomLeft
   <2>. QED
      BY <1>1, <1>2, <2>1, FS_Union
<1>11. FeedOrdered'
   <2>1. ASSUME NEW c \in rows' PROVE c.seq <= lib'.seq /\ c.rev <= lib'.rev
      <3>1. CASE c \in rows
         <4>1. c.seq \in Nat /\ c.rev \in Nat /\ c.seq <= lib.seq /\ c.rev <= lib.rev
            BY <3>1, <1>7
         <4>. QED
            BY <4>1, <1>2, <1>7
      <3>2. CASE c \in Published(S)
         <4>1. c.seq \in (lib.seq + 1)..(lib.seq + Cardinality(S))
            BY <3>2, <1>2
         <4>2. c.rev <= lib'.rev
            BY <3>2, <1>2
         <4>. QED
            BY <4>1, <4>2, <1>2, <1>7
      <3>. QED
         BY <3>1, <3>2, <1>1
   <2>2. \A c, d \in Pending' : c.rev < d.rev => c.seq < d.seq
      BY <1>5 DEF FeedOrdered
   <2>. QED
      BY <2>1, <2>2 DEF FeedOrdered
<1>12. ReadyKnown'
   <2>1. ASSUME NEW c \in rows' PROVE ready'[c.rev] # 0 <=> c.state = "ready"
      <3>1. CASE c \in rows \ S
         <4>1. \A d \in S : d.rev # c.rev
            BY <3>1 DEF Announceable
         <4>. QED
            BY <3>1, <4>1, <1>3, <1>7
      <3>2. CASE c \in Published(S)
         <4>1. PICK d \in S : d.rev = c.rev
            BY <3>2, <1>2
         <4>2. ready'[c.rev] \in (Readied + 1)..Readied'
            BY <4>1, <1>3
         <4>3. ready'[c.rev] # 0
            BY <4>2, <1>3
         <4>. QED
            BY <4>3, <3>2, <1>2
      <3>. QED
         BY <3>1, <3>2, <1>1
   <2>2. ASSUME NEW r \in Revs
         PROVE  ready'[r] <= Readied' /\ (ready'[r] # 0 => r <= lib'.rev)
      <3>1. CASE \E c \in S : c.rev = r
         <4>1. ready'[r] \in (Readied + 1)..Readied' /\ r <= lib'.rev
            BY <3>1, <1>3
         <4>. QED
            BY <4>1, <1>3
      <3>2. CASE \A c \in S : c.rev # r
         <4>1. ready'[r] = ready[r] /\ ready[r] \in Nat /\ r \in Nat
            BY <3>2, <1>3, <1>7, Bounds DEF Revs
         <4>2. ready[r] <= Readied /\ (ready[r] # 0 => r <= lib.rev)
            BY DEF ReadyKnown
         <4>. QED
            BY <4>1, <4>2, <1>2, <1>3, <1>7
      <3>. QED
         BY <3>1, <3>2
   <2>. QED
      BY <2>1, <2>2 DEF ReadyKnown
<1>. QED
   BY <1>5, <1>6, <1>8, <1>9, <1>10, <1>11, <1>12

-----------------------------------------------------------------------------
(* The feed                                                                  *)

\* Numbers the steps of the feed reckon with.
LEMMA FeedNumbers ==
    ASSUME FeedInv, left \in Budget
    PROVE  /\ lib.rev \in Nat /\ lib.gen \in Nat /\ lib.gen >= 1 /\ lib.seq \in Nat
           /\ lib = [rev |-> lib.rev, gen |-> lib.gen, seq |-> lib.seq]
           /\ left.changes \in Nat /\ left.scans \in Nat /\ left.kinds \subseteq Kinds
           /\ IsFiniteSet(Pending) /\ Cardinality(Pending) \in Nat
           /\ lib.rev <= MaxRev /\ lib.gen <= MaxGen /\ lib.seq <= 2 * MaxRev
           /\ cleanup.gen \in Nat /\ cleanup.max \in Nat /\ cleanup.after \in Nat
           /\ cleanup.gen <= MaxGen /\ cleanup.max <= 2 * MaxRev /\ cleanup.after <= 2 * MaxRev
           /\ stood \in Nat /\ stood <= MaxRev
           /\ \A c \in rows : /\ c.seq \in Nat /\ c.rev \in Nat /\ c.rev \in Revs /\ c.seq \in Seqs
                              /\ c.seq >= 1 /\ c.rev >= 1
                              /\ c.gen \in 1..MaxGen /\ c.kind \in Kinds
                              /\ c.seq <= lib.seq /\ c.rev <= lib.rev
<1>1. IsFiniteSet(Pending) /\ Cardinality(Pending) \in Nat
   <2>1. IsFiniteSet(rows) /\ Pending \in SUBSET rows
      BY DEF FeedInv, RoomLeft, Pending
   <2>2. IsFiniteSet(Pending)
      BY <2>1, FS_Subset
   <2>. QED
      BY <2>2, FS_CardinalityType
<1>2. /\ lib.rev \in Nat /\ lib.gen \in Nat /\ lib.gen >= 1 /\ lib.seq \in Nat
      /\ lib.rev <= MaxRev /\ lib.gen <= MaxGen /\ lib.seq <= 2 * MaxRev
      /\ lib = [rev |-> lib.rev, gen |-> lib.gen, seq |-> lib.seq]
      /\ cleanup.gen \in Nat /\ cleanup.max \in Nat /\ cleanup.after \in Nat
      /\ cleanup.gen <= MaxGen /\ cleanup.max <= 2 * MaxRev /\ cleanup.after <= 2 * MaxRev
      /\ stood \in Nat /\ stood <= MaxRev
   BY Bounds DEF FeedInv, FeedTypes
<1>3. left.changes \in Nat /\ left.scans \in Nat /\ left.kinds \subseteq Kinds
   BY DEF Budget
<1>4. \A c \in rows : /\ c.seq \in Nat /\ c.rev \in Nat /\ c.rev \in Revs /\ c.seq \in Seqs
                      /\ c.seq >= 1 /\ c.rev >= 1
                      /\ c.gen \in 1..MaxGen /\ c.kind \in Kinds
                      /\ c.seq <= lib.seq /\ c.rev <= lib.rev
   <2>1. ASSUME NEW c \in rows
         PROVE  c.seq \in Seqs /\ c.rev \in Revs /\ c.gen \in 1..MaxGen /\ c.kind \in Kinds
      BY DEF FeedInv, FeedTypes
   <2>2. \A n \in Seqs : n \in Nat /\ n >= 1
      BY Bounds DEF Seqs
   <2>3. \A n \in Revs : n \in Nat /\ n >= 1
      BY Bounds DEF Revs
   <2>4. \A c \in rows : c.seq <= lib.seq /\ c.rev <= lib.rev
      BY DEF FeedInv, FeedOrdered
   <2>. QED
      BY <2>1, <2>2, <2>3, <2>4
<1>. QED
   BY <1>1, <1>2, <1>3, <1>4

\* Pending changes may be published: there are sequences left for all of them.
LEMMA PendingAnnounceable ==
    ASSUME FeedInv, left \in Budget, NEW S \in SUBSET Pending
    PROVE  /\ Announceable(S)
           /\ Cardinality(S) \in Nat /\ Cardinality(S) <= Cardinality(Pending)
           /\ Cardinality(Pending \ S) = Cardinality(Pending) - Cardinality(S)
<1>1. IsFiniteSet(S) /\ Cardinality(S) <= Cardinality(Pending)
   BY FeedNumbers, FS_Subset
<1>2. Pending \cap S = S
   OBVIOUS
<1>3. Cardinality(Pending \ S) = Cardinality(Pending) - Cardinality(S)
   BY <1>2, FeedNumbers, FS_Difference
<1>4. S \subseteq ChangeRows
   <2>1. \A c \in rows : c \in ChangeRows
      BY FeedNumbers DEF FeedInv, FeedTypes, ChangeRows
   <2>. QED
      BY <2>1 DEF Pending
<1>5. \A c \in S : c.state = "pending" /\ ready[c.rev] = 0
   BY DEF Pending, FeedInv, ReadyKnown
<1>6. \A c, d \in rows : c.rev = d.rev => c = d
   BY DEF FeedInv, FeedTypes
<1>7. S \subseteq rows
   BY DEF Pending
<1>. QED
   BY <1>1, <1>3, <1>4, <1>5, <1>6, <1>7, FS_CardinalityType DEF Announceable

\* Recording a pending change keeps the invariant of the feed.
LEMMA FeedRecordPending ==
    ASSUME FeedInv, left \in Budget, NEW kind \in left.kinds,
           NEW g \in lib.gen..(lib.gen + left.scans), RecordPending(kind, g)
    PROVE  FeedInv' /\ left' \in Budget /\ left'.requests = left.requests
<1>. DEFINE new == [seq |-> lib.seq + 1, rev |-> lib.rev + 1, gen |-> g,
                    kind |-> kind, state |-> "pending"]
<1>1. /\ rows' = rows \cup {new}
      /\ lib' = [rev |-> lib.rev + 1, gen |-> g, seq |-> lib.seq + 1]
      /\ left' = [left EXCEPT !.changes = @ - 1, !.scans = @ - (g - lib.gen)]
      /\ left.changes > 0
      /\ cleanup' = cleanup /\ ready' = ready /\ stood' = stood
   BY DEF RecordPending
<1>2. g \in Nat /\ g - lib.gen \in Nat /\ g - lib.gen <= left.scans
   BY FeedNumbers
<1>3. /\ left' \in Budget /\ left'.requests = left.requests
      /\ left'.changes = left.changes - 1 /\ left'.scans = left.scans - (g - lib.gen)
   BY <1>1, <1>2, LeftPending
<1>4. /\ lib.rev + left.changes <= MaxRev /\ lib.gen + left.scans <= MaxGen
      /\ lib.seq + Cardinality(Pending) <= 2 * lib.rev
   BY DEF FeedInv, RoomLeft
<1>5. lib.rev + 1 <= MaxRev /\ g <= MaxGen /\ g >= 1 /\ lib.seq + 1 <= 2 * MaxRev
   BY <1>1, <1>2, <1>4, FeedNumbers, Bounds
<1>6. lib' \in [rev : 0..MaxRev, gen : 1..MaxGen, seq : 0..(2 * MaxRev)]
   <2>1. lib.rev + 1 \in 0..MaxRev /\ g \in 1..MaxGen /\ lib.seq + 1 \in 0..(2 * MaxRev)
      BY <1>2, <1>5, FeedNumbers, Bounds
   <2>. QED
      BY <1>1, <2>1
<1>7. new \in [seq : Seqs, rev : Revs, gen : 1..MaxGen, kind : Kinds, state : {"pending", "ready"}]
   <2>1. lib.seq + 1 \in Seqs /\ lib.rev + 1 \in Revs /\ g \in 1..MaxGen /\ kind \in Kinds
      BY <1>2, <1>5, FeedNumbers, Bounds DEF Seqs, Revs
   <2>. QED
      BY <2>1
<1>8. \A c \in rows : c.seq < lib.seq + 1 /\ c.rev < lib.rev + 1 /\ c.seq # lib.seq + 1 /\ c.rev # lib.rev + 1
   BY FeedNumbers
<1>9. FeedTypes'
   BY <1>1, <1>6, <1>7, <1>8 DEF FeedInv, FeedTypes
<1>10. Pending' = Pending \cup {new} /\ new \notin Pending
   BY <1>1, <1>8 DEF Pending
<1>11. RoomLeft'
   <2>1. IsFiniteSet(rows') 
      BY <1>1, FS_AddElement DEF FeedInv, RoomLeft
   <2>2. Cardinality(Pending') = Cardinality(Pending) + 1
      BY <1>10, FeedNumbers, FS_AddElement
   <2>3. lib'.rev = lib.rev + 1 /\ lib'.gen = g /\ lib'.seq = lib.seq + 1
      BY <1>1
   <2>4. lib'.seq + Cardinality(Pending') <= 2 * lib'.rev
      BY <2>2, <2>3, <1>4, FeedNumbers
   <2>5. lib'.rev + left'.changes <= MaxRev /\ lib'.gen + left'.scans <= MaxGen
      BY <2>3, <1>2, <1>3, <1>4, FeedNumbers, Bounds
   <2>. QED
      BY <2>1, <2>4, <2>5 DEF RoomLeft
<1>12. FeedOrdered'
   <2>1. ASSUME NEW c \in rows' PROVE c.seq <= lib'.seq /\ c.rev <= lib'.rev
      BY <1>1, FeedNumbers
   <2>2. ASSUME NEW c \in Pending', NEW d \in Pending', c.rev < d.rev PROVE c.seq < d.seq
      <3>1. CASE c \in Pending /\ d \in Pending
         BY <3>1, <2>2 DEF FeedInv, FeedOrdered
      <3>2. CASE d = new
         <4>1. c # new
            BY <2>2, <3>2, FeedNumbers
         <4>2. c \in rows
            BY <4>1, <1>10 DEF Pending
         <4>. QED
            BY <4>2, <1>8, <3>2
      <3>3. CASE c = new /\ d \in Pending
         <4>1. d.rev < lib.rev + 1 /\ d.rev \in Nat
            BY <3>3, <1>8, FeedNumbers DEF Pending
         <4>. QED
            BY <4>1, <3>3, <2>2, FeedNumbers
      <3>. QED
         BY <3>1, <3>2, <3>3, <1>10
   <2>. QED
      BY <2>1, <2>2 DEF FeedOrdered
<1>13. ReadyKnown'
   <2>1. lib.rev + 1 \in Revs
      BY <1>5, FeedNumbers, Bounds DEF Revs
   <2>2. ready[lib.rev + 1] = 0
      <3>1. ready[lib.rev + 1] # 0 => lib.rev + 1 <= lib.rev
         BY <2>1 DEF FeedInv, ReadyKnown
      <3>. QED
         BY <3>1, FeedNumbers
   <2>3. Readied' = Readied
      BY <1>1 DEF Readied
   <2>4. ASSUME NEW r \in Revs PROVE ready'[r] <= Readied' /\ (ready'[r] # 0 => r <= lib'.rev)
      <3>1. ready[r] <= Readied /\ (ready[r] # 0 => r <= lib.rev) /\ r \in Nat
         BY Bounds DEF FeedInv, ReadyKnown, Revs
      <3>. QED
         BY <3>1, <2>3, <1>1, FeedNumbers
   <2>5. \A c \in rows' : ready'[c.rev] # 0 <=> c.state = "ready"
      BY <1>1, <2>2 DEF FeedInv, ReadyKnown
   <2>. QED
      BY <2>4, <2>5 DEF ReadyKnown
<1>14. CleanupSound'
   <2>1. cleanup.max <= lib.seq /\ cleanup.max \in Nat
      BY FeedNumbers DEF FeedInv, CleanupSound
   <2>2. \A c \in Pending' : c.seq <= cleanup.max => c.rev < stood
      <3>1. ~ (new.seq <= cleanup.max)
         BY <2>1, FeedNumbers
      <3>. QED
         BY <3>1, <1>10 DEF FeedInv, CleanupSound
   <2>. QED
      BY <1>1, <2>1, <2>2, FeedNumbers DEF CleanupSound
<1>. QED
   BY <1>3, <1>9, <1>11, <1>12, <1>13, <1>14 DEF FeedInv

\* Recording a change that is ready at once keeps it.
LEMMA FeedRecordReady ==
    ASSUME FeedInv, left \in Budget, NEW kind \in left.kinds, RecordReady(kind)
    PROVE  /\ FeedInv' /\ left' \in Budget /\ left'.requests = left.requests
           /\ \E S : Announceable(S) /\ Announce(S) /\ S # {} /\ Ready' = Ready \cup Published(S)
                     /\ Pending \subseteq rows'
<1>. DEFINE new == [seq |-> 0, rev |-> lib.rev + 1, gen |-> lib.gen, kind |-> kind,
                    state |-> "pending"]
            S == {new}
<1>1. /\ Announce(S) /\ Spend("changes")
      /\ lib' = [lib EXCEPT !.rev = @ + 1, !.seq = @ + 1]
      /\ cleanup' = cleanup /\ stood' = stood
   BY DEF RecordReady
<1>2. /\ left' \in Budget /\ left'.changes = left.changes - 1 /\ left'.scans = left.scans
      /\ left'.requests = left.requests /\ left.changes > 0
   BY <1>1, SpendKeeps DEF Spend
<1>3. lib' = [rev |-> lib.rev + 1, gen |-> lib.gen, seq |-> lib.seq + 1]
   BY <1>1, FeedNumbers
<1>4. /\ lib.rev + left.changes <= MaxRev /\ lib.gen + left.scans <= MaxGen
      /\ lib.seq + Cardinality(Pending) <= 2 * lib.rev
   BY DEF FeedInv, RoomLeft
<1>5. lib.rev + 1 \in Revs /\ lib.rev + 1 <= MaxRev /\ lib.seq + 1 <= 2 * MaxRev
   BY <1>2, <1>4, FeedNumbers, Bounds DEF Revs
<1>6. \A c \in rows : c.rev # lib.rev + 1 /\ c.seq # 0
   BY FeedNumbers
<1>7. ready[lib.rev + 1] = 0
   <2>1. ready[lib.rev + 1] # 0 => lib.rev + 1 <= lib.rev
      BY <1>5 DEF FeedInv, ReadyKnown
   <2>. QED
      BY <2>1, FeedNumbers
<1>8. new \in ChangeRows
   <2>1. lib.gen \in 1..MaxGen /\ kind \in Kinds
      BY FeedNumbers, Bounds
   <2>. QED
      BY <1>5, <2>1 DEF ChangeRows
<1>9. IsFiniteSet(S) /\ Cardinality(S) = 1
   BY FS_Singleton
<1>10. Announceable(S)
   BY <1>6, <1>7, <1>8, <1>9 DEF Announceable
<1>11. new \notin rows
   BY <1>6
<1>12. /\ lib'.seq = lib.seq + Cardinality(S) /\ lib'.seq <= 2 * MaxRev
       /\ lib'.rev \in Nat /\ lib.rev <= lib'.rev /\ \A c \in S : c.rev <= lib'.rev
   BY <1>3, <1>5, <1>9, FeedNumbers
<1>13. /\ Pending' = Pending \ S
       /\ Ready' = Ready \cup Published(S)
       /\ rows' \subseteq [seq : Seqs, rev : Revs, gen : 1..MaxGen, kind : Kinds,
                           state : {"pending", "ready"}]
       /\ (\A c, d \in rows : c = d \/ (c.seq # d.seq /\ c.rev # d.rev))'
       /\ IsFiniteSet(rows')
       /\ FeedOrdered'
       /\ ReadyKnown'
   <2>. HIDE DEF S
   <2>1. S # {}
      BY DEF S
   <2>. QED
      BY <1>1, <1>10, <1>12, <2>1, RowsAnnounced
<1>14. Pending' = Pending /\ Pending \subseteq rows'
   BY <1>11, <1>13 DEF Pending
<1>15. FeedTypes'
   <2>1. lib' \in [rev : 0..MaxRev, gen : 1..MaxGen, seq : 0..(2 * MaxRev)]
      <3>1. lib.rev + 1 \in 0..MaxRev /\ lib.gen \in 1..MaxGen /\ lib.seq + 1 \in 0..(2 * MaxRev)
         BY <1>5, FeedNumbers, Bounds
      <3>. QED
         BY <1>3, <3>1
   <2>2. ready' \in [Revs -> 0..MaxRev]
      BY <1>1, <1>10, ReadiedBy DEF FeedInv
   <2>. QED
      BY <2>1, <2>2, <1>1, <1>13 DEF FeedInv, FeedTypes
<1>16. RoomLeft'
   <2>1. lib'.seq + Cardinality(Pending') <= 2 * lib'.rev
      BY <1>3, <1>4, <1>14, FeedNumbers
   <2>2. lib'.rev + left'.changes <= MaxRev /\ lib'.gen + left'.scans <= MaxGen
      BY <1>2, <1>3, <1>4, FeedNumbers, Bounds
   <2>. QED
      BY <2>1, <2>2, <1>13 DEF RoomLeft
<1>17. CleanupSound'
   <2>1. cleanup.max <= lib.seq + 1
      BY FeedNumbers DEF FeedInv, CleanupSound
   <2>. QED
      BY <2>1, <1>1, <1>3, <1>14 DEF FeedInv, CleanupSound
<1>. HIDE DEF S
<1>18. S # {}
   BY DEF S
<1>. QED
   BY <1>1, <1>2, <1>10, <1>13, <1>14, <1>15, <1>16, <1>17, <1>18 DEF FeedInv

\* Pending changes become ready: all but the cleanup marker.
LEMMA FeedAnnounced ==
    ASSUME FeedInv, left \in Budget, NEW S \in SUBSET Pending, S # {}, Announce(S),
           lib' = [lib EXCEPT !.seq = @ + Cardinality(S)], left' = left
    PROVE  /\ Announceable(S)
           /\ lib' \in [rev : 0..MaxRev, gen : 1..MaxGen, seq : 0..(2 * MaxRev)]
           /\ lib'.seq \in Nat /\ lib.seq <= lib'.seq
           /\ Pending' = Pending \ S
           /\ Ready' = Ready \cup Published(S)
           /\ rows' \subseteq [seq : Seqs, rev : Revs, gen : 1..MaxGen, kind : Kinds,
                               state : {"pending", "ready"}]
           /\ (\A c, d \in rows : c = d \/ (c.seq # d.seq /\ c.rev # d.rev))'
           /\ ready' \in [Revs -> 0..MaxRev]
           /\ RoomLeft' /\ FeedOrdered' /\ ReadyKnown'
<1>1. /\ Announceable(S)
      /\ Cardinality(S) \in Nat /\ Cardinality(S) <= Cardinality(Pending)
      /\ Cardinality(Pending \ S) = Cardinality(Pending) - Cardinality(S)
   BY PendingAnnounceable
<1>2. lib' = [rev |-> lib.rev, gen |-> lib.gen, seq |-> lib.seq + Cardinality(S)]
   BY FeedNumbers
<1>3. /\ lib.rev + left.changes <= MaxRev /\ lib.gen + left.scans <= MaxGen
      /\ lib.seq + Cardinality(Pending) <= 2 * lib.rev
   BY DEF FeedInv, RoomLeft
<1>4. lib.seq + Cardinality(S) <= 2 * MaxRev /\ lib.seq + Cardinality(S) \in Nat
   BY <1>1, <1>3, FeedNumbers, Bounds
<1>5. lib' \in [rev : 0..MaxRev, gen : 1..MaxGen, seq : 0..(2 * MaxRev)]
   <2>1. lib.rev \in 0..MaxRev /\ lib.gen \in 1..MaxGen /\ lib.seq + Cardinality(S) \in 0..(2 * MaxRev)
      BY <1>4, FeedNumbers, Bounds
   <2>. QED
      BY <1>2, <2>1
<1>6. \A c \in S : c.rev <= lib'.rev
   BY <1>2, FeedNumbers DEF Pending
<1>7. /\ lib'.seq = lib.seq + Cardinality(S) /\ lib'.seq <= 2 * MaxRev
      /\ lib'.rev \in Nat /\ lib.rev <= lib'.rev
   BY <1>2, <1>4, FeedNumbers
<1>8. /\ Pending' = Pending \ S
      /\ Ready' = Ready \cup Published(S)
      /\ rows' \subseteq [seq : Seqs, rev : Revs, gen : 1..MaxGen, kind : Kinds,
                          state : {"pending", "ready"}]
      /\ (\A c, d \in rows : c = d \/ (c.seq # d.seq /\ c.rev # d.rev))'
      /\ IsFiniteSet(rows')
      /\ FeedOrdered'
      /\ ReadyKnown'
   BY <1>1, <1>6, <1>7, RowsAnnounced
<1>9. RoomLeft'
   <2>1. lib'.seq + Cardinality(Pending') <= 2 * lib'.rev
      BY <1>1, <1>2, <1>3, <1>8, FeedNumbers
   <2>. QED
      BY <2>1, <1>2, <1>3, <1>8 DEF RoomLeft
<1>10. ready' \in [Revs -> 0..MaxRev]
   BY <1>1, ReadiedBy DEF FeedInv
<1>11. lib'.seq \in Nat /\ lib.seq <= lib'.seq
   BY <1>1, <1>7, FeedNumbers
<1>. QED
   BY <1>1, <1>5, <1>8, <1>9, <1>10, <1>11

\* Publishing the changes of a batch keeps it.
LEMMA FeedMarkBatchReady ==
    ASSUME FeedInv, left \in Budget, MarkBatchReady
    PROVE  /\ FeedInv' /\ left' = left
           /\ \E S : Announceable(S) /\ Announce(S) /\ S # {} /\ Ready' = Ready \cup Published(S)
                     /\ S \subseteq Pending
<1>1. PICK r \in Revs : LET frozen == {c \in Pending : c.gen = lib.gen /\ c.rev <= r} IN
        /\ frozen # {}
        /\ Announce(frozen)
        /\ lib' = [lib EXCEPT !.seq = @ + Cardinality(frozen)]
        /\ UNCHANGED <<cleanup, left, stood>>
   BY DEF MarkBatchReady
<1>. DEFINE S == {c \in Pending : c.gen = lib.gen /\ c.rev <= r}
<1>2. /\ S \in SUBSET Pending /\ S # {} /\ Announce(S)
      /\ lib' = [lib EXCEPT !.seq = @ + Cardinality(S)]
      /\ left' = left /\ cleanup' = cleanup /\ stood' = stood
   BY <1>1
<1>. HIDE DEF S
<1>3. /\ Announceable(S)
      /\ lib' \in [rev : 0..MaxRev, gen : 1..MaxGen, seq : 0..(2 * MaxRev)]
      /\ lib'.seq \in Nat /\ lib.seq <= lib'.seq
      /\ Pending' = Pending \ S
      /\ Ready' = Ready \cup Published(S)
      /\ rows' \subseteq [seq : Seqs, rev : Revs, gen : 1..MaxGen, kind : Kinds,
                          state : {"pending", "ready"}]
      /\ (\A c, d \in rows : c = d \/ (c.seq # d.seq /\ c.rev # d.rev))'
      /\ ready' \in [Revs -> 0..MaxRev]
      /\ RoomLeft' /\ FeedOrdered' /\ ReadyKnown'
   BY <1>2, FeedAnnounced
<1>4. FeedTypes'
   BY <1>2, <1>3 DEF FeedInv, FeedTypes
<1>5. CleanupSound'
   <2>1. cleanup.max <= lib'.seq
      BY <1>3, FeedNumbers DEF FeedInv, CleanupSound
   <2>. QED
      BY <2>1, <1>2, <1>3 DEF FeedInv, CleanupSound
<1>. QED
   BY <1>2, <1>3, <1>4, <1>5 DEF FeedInv

\* Larger is the greater of two numbers.
LEMMA LargerOf ==
    ASSUME NEW m \in Nat, NEW n \in Nat
    PROVE  Larger(m, n) \in {m, n} /\ m <= Larger(m, n) /\ n <= Larger(m, n) /\ Larger(m, n) \in Nat
BY DEF Larger

\* Publishing for a whole generation, with the cleanup it asks for, keeps it.
LEMMA FeedMarkGenerationReady ==
    ASSUME FeedInv, left \in Budget, MarkGenerationReady
    PROVE  /\ FeedInv' /\ left' = left
           /\ \E S : Announceable(S) /\ Announce(S) /\ S # {} /\ Ready' = Ready \cup Published(S)
                     /\ S \subseteq Pending
<1>. DEFINE S == Completed
            top == Largest({c.seq : c \in S})
            newest == Largest({c.rev : c \in S})
<1>1. S \in SUBSET Pending
   BY DEF Completed, OfGeneration, NewestOfKind, Carried, Standing
<1>2. /\ S # {} /\ Announce(S) /\ lib' = [lib EXCEPT !.seq = @ + Cardinality(S)] /\ left' = left
      /\ cleanup' = [gen |-> Larger(cleanup.gen, lib.gen), max |-> Larger(cleanup.max, top), after |-> 0]
      /\ stood' = Larger(stood, newest)
   BY DEF MarkGenerationReady
<1>. HIDE DEF S
<1>3. /\ Announceable(S)
      /\ lib' \in [rev : 0..MaxRev, gen : 1..MaxGen, seq : 0..(2 * MaxRev)]
      /\ lib'.seq \in Nat /\ lib.seq <= lib'.seq
      /\ Pending' = Pending \ S
      /\ Ready' = Ready \cup Published(S)
      /\ rows' \subseteq [seq : Seqs, rev : Revs, gen : 1..MaxGen, kind : Kinds,
                          state : {"pending", "ready"}]
      /\ (\A c, d \in rows : c = d \/ (c.seq # d.seq /\ c.rev # d.rev))'
      /\ ready' \in [Revs -> 0..MaxRev]
      /\ RoomLeft' /\ FeedOrdered' /\ ReadyKnown'
   BY <1>1, <1>2, FeedAnnounced
<1>4. \A c \in Pending : c.seq \in Nat /\ c.rev \in Nat /\ c.seq <= lib.seq /\ c.rev <= lib.rev
   BY FeedNumbers DEF Pending
<1>5. IsFiniteSet({c.seq : c \in S}) /\ IsFiniteSet({c.rev : c \in S})
   BY <1>3, SeqsOf DEF Announceable
<1>6. {c.seq : c \in S} \in SUBSET Nat /\ {c.rev : c \in S} \in SUBSET Nat
   BY <1>1, <1>4
<1>7. /\ top \in Nat /\ top \in {c.seq : c \in S} \cup {0}
      /\ newest \in Nat /\ newest \in {c.rev : c \in S} \cup {0}
      /\ \A y \in {c.rev : c \in S} : y <= newest
   BY <1>5, <1>6, LargestOf
<1>. HIDE DEF top, newest
<1>8. top <= lib.seq /\ newest <= lib.rev
   BY <1>1, <1>4, <1>7, FeedNumbers
<1>9. /\ cleanup'.max = Larger(cleanup.max, top) /\ cleanup'.gen = Larger(cleanup.gen, lib.gen)
      /\ cleanup'.after = 0
   BY <1>2
<1>10. /\ Larger(cleanup.max, top) \in {cleanup.max, top}
       /\ Larger(cleanup.gen, lib.gen) \in {cleanup.gen, lib.gen}
       /\ Larger(stood, newest) \in {stood, newest}
       /\ stood <= Larger(stood, newest) /\ newest <= Larger(stood, newest)
   BY <1>7, FeedNumbers, LargerOf
<1>11. FeedTypes'
   <2>1. /\ Larger(cleanup.gen, lib.gen) \in 0..MaxGen /\ Larger(cleanup.max, top) \in 0..(2 * MaxRev)
         /\ 0 \in 0..(2 * MaxRev) /\ Larger(stood, newest) \in 0..MaxRev
      BY <1>7, <1>8, <1>10, FeedNumbers, Bounds
   <2>2. cleanup' \in [gen : 0..MaxGen, max : 0..(2 * MaxRev), after : 0..(2 * MaxRev)]
      BY <2>1, <1>2
   <2>. QED
      BY <2>1, <2>2, <1>2, <1>3 DEF FeedTypes
<1>12. CleanupSound'
   <2>1. cleanup'.max <= lib'.seq
      <3>1. cleanup.max <= lib.seq
         BY DEF FeedInv, CleanupSound
      <3>. QED
         BY <3>1, <1>3, <1>7, <1>8, <1>9, <1>10, FeedNumbers
   <2>2. ASSUME NEW c \in Pending', c.seq <= cleanup'.max PROVE c.rev < stood'
      <3>1. c \in Pending /\ c \notin S /\ c.seq \in Nat /\ c.rev \in Nat
         BY <1>3, <1>4
      <3>2. CASE c.seq <= cleanup.max
         <4>1. c.rev < stood
            BY <3>1, <3>2 DEF FeedInv, CleanupSound
         <4>. QED
            BY <4>1, <3>1, <1>2, <1>7, <1>10, FeedNumbers, LargerOf
      <3>3. CASE ~ (c.seq <= cleanup.max)
         <4>1. c.seq <= top /\ top # 0
            BY <3>1, <3>3, <2>2, <1>7, <1>9, <1>10, FeedNumbers
         <4>2. PICK d \in S : d.seq = top
            BY <4>1, <1>7
         <4>3. d \in Pending /\ d # c /\ d.seq # c.seq /\ d.rev # c.rev
            BY <4>2, <3>1, <1>1 DEF FeedInv, FeedTypes, Pending
         <4>4. d.rev \in Nat /\ d.seq \in Nat
            BY <4>3, <1>4
         <4>5. ~ (d.rev < c.rev)
            <5>1. d.rev < c.rev => d.seq < c.seq
               BY <4>3, <3>1 DEF FeedInv, FeedOrdered
            <5>. QED
               BY <5>1, <4>1, <4>2, <4>4, <3>1
         <4>6. d.rev <= newest
            BY <4>2, <1>7
         <4>. QED
            BY <4>3, <4>4, <4>5, <4>6, <3>1, <1>2, <1>7, <1>10, FeedNumbers, LargerOf
      <3>. QED
         BY <3>2, <3>3
   <2>. QED
      BY <2>1, <2>2 DEF CleanupSound
<1>. QED
   BY <1>1, <1>2, <1>3, <1>11, <1>12 DEF FeedInv

\* Rows are deleted, and nothing else of the feed but the cleanup marker changes.
LEMMA FeedDeleted ==
    ASSUME FeedInv, left \in Budget, rows' \subseteq rows,
           lib' = lib, ready' = ready, stood' = stood,
           left'.changes = left.changes, left'.scans = left.scans,
           cleanup' \in [gen : 0..MaxGen, max : 0..(2 * MaxRev), after : 0..(2 * MaxRev)],
           cleanup'.max <= cleanup.max
    PROVE  FeedInv' /\ Pending' \subseteq Pending /\ Ready' \subseteq Ready
<1>1. Pending' \subseteq Pending /\ Ready' \subseteq Ready
   BY DEF Pending, Ready
<1>2. FeedTypes'
   BY DEF FeedInv, FeedTypes
<1>3. RoomLeft'
   <2>1. IsFiniteSet(rows')
      BY FS_Subset DEF FeedInv, RoomLeft
   <2>2. Cardinality(Pending') <= Cardinality(Pending) /\ Cardinality(Pending') \in Nat
      <3>1. IsFiniteSet(Pending') /\ Cardinality(Pending') <= Cardinality(Pending)
         BY <1>1, FeedNumbers, FS_Subset
      <3>. QED
         BY <3>1, FS_CardinalityType
   <2>3. lib'.seq + Cardinality(Pending') <= 2 * lib'.rev
      BY <2>2, FeedNumbers DEF FeedInv, RoomLeft
   <2>. QED
      BY <2>1, <2>3 DEF FeedInv, RoomLeft
<1>4. FeedOrdered' /\ ReadyKnown'
   BY <1>1 DEF FeedInv, FeedOrdered, ReadyKnown, Readied
<1>5. CleanupSound'
   <2>1. cleanup'.max \in Nat
      BY Bounds
   <2>2. cleanup'.max <= lib'.seq
      BY <2>1, FeedNumbers DEF FeedInv, CleanupSound
   <2>3. ASSUME NEW c \in Pending', c.seq <= cleanup'.max PROVE c.rev < stood'
      <3>1. c \in Pending /\ c.seq \in Nat
         BY <1>1, FeedNumbers DEF Pending
      <3>2. c.seq <= cleanup.max
         BY <3>1, <2>1, <2>3, FeedNumbers
      <3>. QED
         BY <3>1, <3>2 DEF FeedInv, CleanupSound
   <2>. QED
      BY <2>2, <2>3 DEF CleanupSound
<1>. QED
   BY <1>1, <1>2, <1>3, <1>4, <1>5 DEF FeedInv

\* The cleanup deletes pending changes only, each of them written off.
LEMMA FeedCleanupPending ==
    ASSUME FeedInv, left \in Budget, CleanupPending
    PROVE  /\ FeedInv' /\ Ready' = Ready /\ left' = left
           /\ \A c \in Pending : c \notin rows' => c.seq <= cleanup.max
<1>. DEFINE batch == FirstOf({c.seq : c \in WrittenOff}, Batch)
<1>1. /\ lib' = lib /\ ready' = ready /\ stood' = stood /\ left' = left
      /\ IF batch = {}
         THEN cleanup' = NoCleanup /\ rows' = rows
         ELSE /\ rows' = {c \in rows : ~(c \in Pending /\ c.seq \in batch)}
              /\ cleanup' = [cleanup EXCEPT !.after = Largest(batch)]
   BY DEF CleanupPending
<1>2. WrittenOff \subseteq Pending /\ Pending \subseteq rows
   BY DEF WrittenOff, Pending
<1>3. IsFiniteSet(WrittenOff)
   BY <1>2, FeedNumbers, FS_Subset
<1>4. IsFiniteSet({c.seq : c \in WrittenOff}) /\ {c.seq : c \in WrittenOff} \in SUBSET Nat
   BY <1>2, <1>3, SeqsOf, FeedNumbers
<1>5. batch \subseteq {c.seq : c \in WrittenOff}
   BY <1>4, BatchAssumption, FirstOfDown
<1>6. IsFiniteSet(batch) /\ batch \in SUBSET Nat
   BY <1>4, <1>5, FS_Subset
<1>7. Largest(batch) \in Nat /\ Largest(batch) \in batch \cup {0}
   BY <1>6, LargestOf
<1>. HIDE DEF batch
<1>8. Largest(batch) \in 0..(2 * MaxRev)
   <2>1. \A n \in batch : n \in 0..(2 * MaxRev)
      BY <1>2, <1>5, FeedNumbers, Bounds DEF Seqs
   <2>. QED
      BY <2>1, <1>7, Bounds
<1>9. /\ cleanup' \in [gen : 0..MaxGen, max : 0..(2 * MaxRev), after : 0..(2 * MaxRev)]
      /\ cleanup'.max <= cleanup.max
   <2>1. CASE batch = {}
      <3>1. 0 \in 0..MaxGen /\ 0 \in 0..(2 * MaxRev) /\ 0 <= cleanup.max
         BY Bounds, FeedNumbers
      <3>. QED
         BY <2>1, <1>1, <3>1 DEF NoCleanup
   <2>2. CASE batch # {}
      <3>1. cleanup \in [gen : 0..MaxGen, max : 0..(2 * MaxRev), after : 0..(2 * MaxRev)]
         BY DEF FeedInv, FeedTypes
      <3>2. cleanup' = [cleanup EXCEPT !.after = Largest(batch)]
         BY <2>2, <1>1
      <3>3. cleanup'.max = cleanup.max
         BY <3>1, <3>2
      <3>. QED
         BY <3>1, <3>2, <3>3, <1>8, FeedNumbers
   <2>. QED
      BY <2>1, <2>2
<1>10. rows' \subseteq rows /\ Ready' = Ready
   BY <1>1 DEF Ready, Pending
<1>11. FeedInv'
   BY <1>1, <1>9, <1>10, FeedDeleted
<1>12. ASSUME NEW c \in Pending, c \notin rows' PROVE c.seq <= cleanup.max
   <2>1. c.seq \in batch
      BY <1>1, <1>2, <1>12
   <2>2. PICK d \in WrittenOff : d.seq = c.seq
      BY <2>1, <1>5
   <2>. QED
      BY <2>2 DEF WrittenOff
<1>. QED
   BY <1>1, <1>10, <1>11, <1>12

\* Retention deletes ready changes only.
LEMMA FeedPrune ==
    ASSUME FeedInv, left \in Budget, Prune
    PROVE  /\ FeedInv' /\ Ready' \subseteq Ready /\ Pending' = Pending
           /\ left' \in Budget /\ left'.requests = left.requests
<1>1. /\ left' \in Budget /\ left'.changes = left.changes /\ left'.scans = left.scans
      /\ left'.requests = left.requests
   <2>1. Spend("prunes")
      BY DEF Prune
   <2>. QED
      BY <2>1, SpendKeeps
<1>2. PICK cutoff \in Seqs : rows' = rows \ {c \in Ready : c.seq <= cutoff /\ c.seq # Newest}
   BY DEF Prune
<1>3. lib' = lib /\ cleanup' = cleanup /\ ready' = ready /\ stood' = stood
   BY DEF Prune
<1>4. rows' \subseteq rows /\ Pending' = Pending
   BY <1>2 DEF Pending, Ready
<1>5. /\ cleanup' \in [gen : 0..MaxGen, max : 0..(2 * MaxRev), after : 0..(2 * MaxRev)]
      /\ cleanup'.max <= cleanup.max
   BY <1>3, FeedNumbers DEF FeedInv, FeedTypes
<1>. QED
   BY <1>1, <1>3, <1>4, <1>5, FeedDeleted

\* A scan that finds nothing keeps it.
LEMMA FeedEmptyScan ==
    ASSUME FeedInv, left \in Budget, EmptyScan
    PROVE  /\ FeedInv' /\ rows' = rows /\ left' \in Budget /\ left'.requests = left.requests
           /\ lib'.seq = lib.seq /\ ready' = ready
<1>1. /\ left' \in Budget /\ left'.changes = left.changes /\ left'.scans = left.scans - 1
      /\ left'.requests = left.requests /\ left.scans > 0
   <2>1. Spend("scans")
      BY DEF EmptyScan
   <2>. QED
      BY <2>1, SpendKeeps DEF Spend
<1>2. /\ lib' = [lib EXCEPT !.gen = @ + 1] /\ rows' = rows /\ cleanup' = cleanup
      /\ ready' = ready /\ stood' = stood
   BY DEF EmptyScan
<1>3. lib' = [rev |-> lib.rev, gen |-> lib.gen + 1, seq |-> lib.seq]
   BY <1>2, FeedNumbers
<1>4. lib.gen + left.scans <= MaxGen /\ lib.rev + left.changes <= MaxRev
   BY DEF FeedInv, RoomLeft
<1>5. lib' \in [rev : 0..MaxRev, gen : 1..MaxGen, seq : 0..(2 * MaxRev)]
   <2>1. lib.rev \in 0..MaxRev /\ lib.gen + 1 \in 1..MaxGen /\ lib.seq \in 0..(2 * MaxRev)
      BY <1>1, <1>4, FeedNumbers, Bounds
   <2>. QED
      BY <1>3, <2>1
<1>6. FeedTypes'
   BY <1>2, <1>5 DEF FeedInv, FeedTypes
<1>7. Pending' = Pending /\ Readied' = Readied /\ lib'.rev = lib.rev /\ lib'.seq = lib.seq
      /\ lib'.gen = lib.gen + 1
   BY <1>2, <1>3 DEF Pending, Readied
<1>8. RoomLeft'
   <2>1. lib'.gen + left'.scans <= MaxGen
      BY <1>1, <1>4, <1>7, FeedNumbers
   <2>. QED
      BY <2>1, <1>1, <1>2, <1>4, <1>7 DEF FeedInv, RoomLeft
<1>9. FeedOrdered' /\ ReadyKnown' /\ CleanupSound'
   BY <1>2, <1>7 DEF FeedInv, FeedOrdered, ReadyKnown, CleanupSound
<1>. QED
   BY <1>1, <1>2, <1>6, <1>7, <1>8, <1>9 DEF FeedInv

\* So does whatever leaves the feed alone.
LEMMA FeedSame ==
    ASSUME FeedInv, UNCHANGED feed, left'.changes = left.changes, left'.scans = left.scans
    PROVE  FeedInv' /\ Ready' = Ready /\ Pending' = Pending /\ Readied' = Readied
BY DEF FeedInv, FeedTypes, RoomLeft, FeedOrdered, ReadyKnown, CleanupSound, feed,
       Ready, Pending, Readied

-----------------------------------------------------------------------------
(* A step of the feed                                                        *)

FeedStep ==
    \/ \E kind \in left.kinds : Record(kind)
    \/ EmptyScan \/ MarkGenerationReady \/ MarkBatchReady \/ CleanupPending \/ Prune

\* A step of the feed announces changes, or leaves the marker and the history
\* alone and makes nothing ready.
LEMMA FeedStepIs ==
    ASSUME FeedInv, left \in Budget, FeedStep
    PROVE  /\ FeedInv' /\ left' \in Budget /\ left'.requests = left.requests
           /\ UNCHANGED <<target, job, work, caller, player, reached>>
           /\ \/ dispatch' = dispatch /\ ready' = ready /\ Ready' \subseteq Ready /\ lib.seq <= lib'.seq
              \/ \E S : /\ Announceable(S) /\ Announce(S) /\ S # {}
                        /\ Ready' = Ready \cup Published(S)
                        /\ lib.seq <= lib'.seq
<1>1. ASSUME NEW kind \in left.kinds, NEW g \in lib.gen..(lib.gen + left.scans),
             RecordPending(kind, g)
      PROVE  /\ FeedInv' /\ left' \in Budget /\ left'.requests = left.requests
             /\ UNCHANGED <<target, job, work, caller, player, reached>>
             /\ dispatch' = dispatch /\ ready' = ready /\ Ready' \subseteq Ready /\ lib.seq <= lib'.seq
   <2>1. FeedInv' /\ left' \in Budget /\ left'.requests = left.requests
      BY <1>1, FeedRecordPending
   <2>2. /\ UNCHANGED <<target, job, work, caller, player, reached, dispatch, ready>>
         /\ lib'.seq = lib.seq + 1 /\ Ready' \subseteq Ready
      BY <1>1 DEF RecordPending, Ready
   <2>. QED
      BY <2>1, <2>2, FeedNumbers
<1>2. ASSUME NEW S, Announce(S)
      PROVE  UNCHANGED <<target, job, work, caller, player, reached>>
   BY <1>2 DEF Announce
<1>3. ASSUME NEW kind \in left.kinds, RecordReady(kind) PROVE lib.seq <= lib'.seq
   <2>1. lib' = [lib EXCEPT !.rev = @ + 1, !.seq = @ + 1]
      BY <1>3 DEF RecordReady
   <2>2. lib'.seq = lib.seq + 1
      BY <2>1, FeedNumbers
   <2>. QED
      BY <2>2, FeedNumbers
<1>4. ASSUME NEW kind \in left.kinds, RecordReady(kind)
      PROVE  /\ FeedInv' /\ left' \in Budget /\ left'.requests = left.requests
             /\ \E S : Announceable(S) /\ Announce(S) /\ S # {} /\ Ready' = Ready \cup Published(S)
   BY <1>4, FeedRecordReady
<1>5. CASE \E kind \in left.kinds : Record(kind)
   BY <1>1, <1>2, <1>3, <1>4, <1>5 DEF Record
<1>6. CASE EmptyScan
   <2>1. /\ FeedInv' /\ rows' = rows /\ left' \in Budget /\ left'.requests = left.requests
         /\ lib'.seq = lib.seq /\ ready' = ready
      BY <1>6, FeedEmptyScan
   <2>2. UNCHANGED <<target, job, work, caller, player, reached, dispatch>>
      BY <1>6 DEF EmptyScan
   <2>. QED
      BY <2>1, <2>2, FeedNumbers DEF Ready
<1>7. ASSUME MarkGenerationReady \/ MarkBatchReady PROVE lib.seq <= lib'.seq
   <2>1. PICK S \in SUBSET Pending : lib' = [lib EXCEPT !.seq = @ + Cardinality(S)]
      BY <1>7 DEF MarkGenerationReady, MarkBatchReady, Completed, OfGeneration, NewestOfKind,
                  Carried, Standing
   <2>2. Cardinality(S) \in Nat /\ lib'.seq = lib.seq + Cardinality(S)
      BY <2>1, PendingAnnounceable, FeedNumbers
   <2>. QED
      BY <2>2, FeedNumbers
<1>8. CASE MarkGenerationReady
   <2>1. /\ FeedInv' /\ left' = left
         /\ \E S : Announceable(S) /\ Announce(S) /\ S # {} /\ Ready' = Ready \cup Published(S)
      BY <1>8, FeedMarkGenerationReady
   <2>. QED
      BY <2>1, <1>2, <1>7, <1>8
<1>9. CASE MarkBatchReady
   <2>1. /\ FeedInv' /\ left' = left
         /\ \E S : Announceable(S) /\ Announce(S) /\ S # {} /\ Ready' = Ready \cup Published(S)
      BY <1>9, FeedMarkBatchReady
   <2>. QED
      BY <2>1, <1>2, <1>7, <1>9
<1>10. CASE CleanupPending
   <2>1. FeedInv' /\ Ready' = Ready /\ left' = left
      BY <1>10, FeedCleanupPending
   <2>2. UNCHANGED <<target, job, work, caller, player, reached, dispatch, ready, lib>>
      BY <1>10 DEF CleanupPending
   <2>. QED
      BY <2>1, <2>2, FeedNumbers
<1>11. CASE Prune
   <2>1. FeedInv' /\ Ready' \subseteq Ready /\ left' \in Budget /\ left'.requests = left.requests
      BY <1>11, FeedPrune
   <2>2. UNCHANGED <<target, job, work, caller, player, reached, dispatch, ready, lib>>
      BY <1>11 DEF Prune
   <2>. QED
      BY <2>1, <2>2, FeedNumbers
<1>. QED
   BY <1>5, <1>6, <1>8, <1>9, <1>10, <1>11 DEF FeedStep

\* What latestReadyMediaRevision and the bounds of the feed are.
LatestOK ==
    /\ LatestReady \in Nat /\ LatestReady <= MaxRev
    /\ LatestReady # 0 => LatestReady \in Revs /\ ready[LatestReady] # 0
    /\ LatestReady # 0 => \E c \in Ready : c.rev = LatestReady
    /\ \A c \in Ready : c.rev <= LatestReady

\* LatestReady is the greatest revision among the ready rows.
LEMMA LatestIs == FeedInv => LatestOK
<1>. SUFFICES ASSUME FeedInv PROVE LatestOK
   OBVIOUS
<1>1. Ready \subseteq rows /\ IsFiniteSet(Ready)
   BY FS_Subset DEF FeedInv, RoomLeft, Ready
<1>2. \A c \in Ready : c.rev \in Nat /\ c.rev \in Revs /\ c.rev <= MaxRev /\ ready[c.rev] # 0
   BY <1>1, Bounds DEF FeedInv, FeedTypes, ReadyKnown, Ready, Revs
<1>3. {c.rev : c \in Ready} \in SUBSET Nat /\ IsFiniteSet({c.rev : c \in Ready})
   BY <1>1, <1>2, SeqsOf
<1>4. /\ LatestReady \in Nat
      /\ LatestReady \in {c.rev : c \in Ready} \cup {0}
      /\ \A y \in {c.rev : c \in Ready} : y <= LatestReady
   BY <1>3, LargestOf DEF LatestReady
<1>5. LatestReady # 0 => \E c \in Ready : c.rev = LatestReady
   BY <1>4
<1>6. \A c \in Ready : c.rev <= LatestReady
   BY <1>4
<1>. QED
   BY <1>2, <1>4, <1>5, <1>6, Bounds DEF LatestOK

\* Newest is the greatest sequence among the ready rows.
LEMMA NewestIs ==
    ASSUME FeedInv
    PROVE  /\ Newest \in Nat /\ Newest <= lib.seq
           /\ \A c \in Ready : c.seq <= Newest /\ c.seq \in Seqs /\ c.seq \in Nat /\ c.seq >= 1
                               /\ c.seq <= lib.seq
<1>1. Ready \subseteq rows /\ IsFiniteSet(Ready)
   BY FS_Subset DEF FeedInv, RoomLeft, Ready
<1>2. \A c \in Ready : c.seq \in Nat /\ c.seq \in Seqs /\ c.seq <= lib.seq /\ c.seq >= 1
   BY <1>1, Bounds DEF FeedInv, FeedTypes, FeedOrdered, Ready, Seqs
<1>3. {c.seq : c \in Ready} \in SUBSET Nat /\ IsFiniteSet({c.seq : c \in Ready})
   BY <1>1, <1>2, SeqsOf
<1>4. /\ Newest \in Nat
      /\ Newest \in {c.seq : c \in Ready} \cup {0}
      /\ \A y \in {c.seq : c \in Ready} : y <= Newest
   BY <1>3, LargestOf DEF Newest
<1>5. lib.seq \in Nat
   BY Bounds DEF FeedInv, FeedTypes
<1>6. Newest <= lib.seq
   BY <1>2, <1>4, <1>5
<1>. QED
   BY <1>2, <1>4, <1>6

\* The order of readiness, once told, stays.
LEMMA ReadyStays ==
    ASSUME FeedInv, left \in Budget, FeedStep \/ UNCHANGED feed
    PROVE  \A r \in Revs : ready[r] # 0 => ready'[r] = ready[r]
<1>1. CASE UNCHANGED feed
   BY <1>1 DEF feed
<1>2. CASE FeedStep
   <2>1. \/ ready' = ready
         \/ \E S : Announceable(S) /\ Announce(S) /\ S # {}
      BY <1>2, FeedStepIs
   <2>2. ASSUME NEW S, Announceable(S), Announce(S), S # {}, NEW r \in Revs, ready[r] # 0
         PROVE  ready'[r] = ready[r]
      <3>1. \A c \in S : c.rev # r
         BY <2>2 DEF Announceable
      <3>2. (\A c \in S : c.rev # r) => ready'[r] = ready[r]
         BY <2>2, ReadiedBy DEF FeedInv
      <3>. QED
         BY <3>1, <3>2
   <2>. QED
      BY <2>1, <2>2
<1>. QED
   BY <1>1, <1>2

\* The marker after an announcement: the newest of its changes, or one newer still.
LEMMA MarkerAdvanced ==
    ASSUME FeedInv, TargetInv, NEW S, Announceable(S), Announce(S), S # {}
    PROVE  \E top \in Revs :
              /\ top \in Nat /\ top \in {c.rev : c \in S}
              /\ \A c \in S : c.rev <= top
              /\ dispatch' \in MarkerRows
              /\ dispatch' = IF dispatch.rev < top THEN [rev |-> top, after |-> 0] ELSE dispatch
<1>. DEFINE top == Largest({c.rev : c \in S})
<1>1. \A c \in S : c.rev \in Revs /\ c.rev \in Nat /\ c.rev >= 1
   BY Bounds DEF Announceable, ChangeRows, Revs
<1>2. {c.rev : c \in S} \in SUBSET Nat /\ IsFiniteSet({c.rev : c \in S})
   BY <1>1, SeqsOf DEF Announceable
<1>3. top \in Nat /\ top \in {c.rev : c \in S} \cup {0} /\ \A y \in {c.rev : c \in S} : y <= top
   BY <1>2, LargestOf
<1>4. dispatch' = IF dispatch.rev < top THEN [rev |-> top, after |-> 0] ELSE dispatch
   BY DEF Announce, Advanced
<1>. HIDE DEF top
<1>5. top \in {c.rev : c \in S}
   <2>1. PICK c \in S : TRUE
      OBVIOUS
   <2>2. c.rev \in Nat /\ c.rev >= 1 /\ c.rev <= top
      BY <1>1, <1>3
   <2>. QED
      BY <2>2, <1>3
<1>6. top \in Revs /\ top \in 0..MaxRev
   BY <1>1, <1>5, Bounds DEF Revs
<1>7. dispatch' \in MarkerRows
   BY <1>4, <1>6 DEF MarkerRows, TargetInv
<1>. QED
   BY <1>3, <1>4, <1>5, <1>6, <1>7

\* Retention may lower what the feed says is newest, and then nothing is claimed;
\* a change that is announced is the newest, or older than a retained one.
LEMMA NewestFeedStep ==
    ASSUME FeedInv, TargetInv, left \in Budget, FeedStep
    PROVE  NewestReachesTargets'
<1>1. /\ FeedInv' /\ UNCHANGED <<target, job, work, caller, player, reached>>
      /\ \/ dispatch' = dispatch /\ ready' = ready /\ Ready' \subseteq Ready
         \/ \E S : Announceable(S) /\ Announce(S) /\ S # {} /\ Ready' = Ready \cup Published(S)
   BY FeedStepIs
<1>2. /\ LatestReady \in Nat
      /\ LatestReady # 0 => LatestReady \in Revs /\ ready[LatestReady] # 0
      /\ \A c \in Ready : c.rev <= LatestReady
   BY LatestIs DEF LatestOK
<1>3. /\ LatestReady' \in Nat
      /\ LatestReady' # 0 => LatestReady' \in Revs /\ ready'[LatestReady'] # 0
      /\ LatestReady' # 0 => \E c \in Ready' : c.rev = LatestReady'
      /\ \A c \in Ready' : c.rev <= LatestReady'
   <2>1. LatestOK'
      BY <1>1, LatestIs, PTL
   <2>. QED
      BY <2>1 DEF LatestOK
<1>4. \A r \in Revs : r \in Nat /\ (ready[r] # 0 => ready'[r] = ready[r])
   BY ReadyStays, Bounds DEF Revs
<1>5. SUFFICES ASSUME NewestRetained', NEW t \in Targets, Enabled(t)'
               PROVE  \/ target'[t].desired >= LatestReady'
                      \/ dispatch'.rev >= LatestReady' /\ dispatch'.after < t
   BY DEF NewestReachesTargets
<1>6. \A r \in Revs : ready'[r] # 0 => r <= LatestReady'
   BY <1>5 DEF NewestRetained
<1>7. Enabled(t) /\ target' = target
   BY <1>1, <1>5 DEF Enabled, Present
<1>8. ASSUME LatestReady' <= LatestReady
      PROVE  /\ LatestReady' = LatestReady
             /\ \/ target[t].desired >= LatestReady
                \/ dispatch.rev >= LatestReady /\ dispatch.after < t
   <2>1. LatestReady <= LatestReady'
      BY <1>2, <1>3, <1>4, <1>6
   <2>2. LatestReady' = LatestReady
      BY <2>1, <1>2, <1>3, <1>8
   <2>3. NewestRetained
      BY <2>2, <1>4, <1>6 DEF NewestRetained
   <2>. QED
      BY <2>2, <2>3, <1>7 DEF TargetInv, NewestReachesTargets
<1>9. CASE dispatch' = dispatch /\ ready' = ready /\ Ready' \subseteq Ready
   <2>1. LatestReady' <= LatestReady
      BY <1>2, <1>3, <1>9
   <2>. QED
      BY <2>1, <1>7, <1>8, <1>9
<1>10. ASSUME NEW S, Announceable(S), Announce(S), S # {}, Ready' = Ready \cup Published(S)
       PROVE  \/ target'[t].desired >= LatestReady'
              \/ dispatch'.rev >= LatestReady' /\ dispatch'.after < t
   <2>1. PICK top \in Revs :
            /\ top \in Nat /\ top \in {c.rev : c \in S}
            /\ \A c \in S : c.rev <= top
            /\ dispatch' = IF dispatch.rev < top THEN [rev |-> top, after |-> 0] ELSE dispatch
      BY <1>10, MarkerAdvanced
   <2>2. \A p \in Published(S) : p.rev <= top
      BY <1>10, <2>1, PublishedIs DEF FeedInv
   <2>3. top <= LatestReady'
      <3>1. PICK c \in S : c.rev = top
         BY <2>1
      <3>2. \E p \in Published(S) : p.rev = top
         BY <3>1, <1>10, PublishedIs DEF FeedInv
      <3>. QED
         BY <3>2, <1>3, <1>10
   <2>4. dispatch.rev \in Nat
      BY Bounds DEF TargetInv, MarkerRows
   <2>5. CASE LatestReady' <= top
      <3>1. LatestReady' = top
         BY <2>1, <2>3, <2>5, <1>3
      <3>2. dispatch.rev < top
         <4>1. CASE dispatch.rev = 0
            BY <4>1, <2>1, Bounds DEF Revs
         <4>2. CASE dispatch.rev # 0
            <5>1. dispatch.rev \in Revs /\ ready[dispatch.rev] # 0
               BY <4>2, Bounds DEF TargetInv, MarkerRows, MarkerReady, Revs
            <5>2. dispatch.rev <= top
               BY <5>1, <3>1, <1>4, <1>6
            <5>3. dispatch.rev # top
               BY <5>1, <2>1, <1>10 DEF Announceable
            <5>. QED
               BY <5>2, <5>3, <2>1, <2>4
         <4>. QED
            BY <4>1, <4>2
      <3>3. dispatch'.rev = top /\ dispatch'.after = 0
         BY <3>2, <2>1
      <3>4. t \in Nat /\ 0 < t
         BY TargetsAssumption
      <3>. QED
         BY <3>1, <3>3, <3>4, <2>1
   <2>6. CASE ~ (LatestReady' <= top)
      <3>1. LatestReady' # 0
         BY <2>1, <2>6
      <3>2. PICK c \in Ready' : c.rev = LatestReady'
         BY <3>1, <1>3
      <3>3. c \in Ready
         BY <3>2, <2>2, <2>6, <1>10
      <3>4. LatestReady' <= LatestReady
         BY <3>2, <3>3, <1>2
      <3>5. /\ LatestReady' = LatestReady
            /\ \/ target[t].desired >= LatestReady
               \/ dispatch.rev >= LatestReady /\ dispatch.after < t
         BY <3>4, <1>8
      <3>6. dispatch.rev >= LatestReady => dispatch' = dispatch
         BY <3>5, <2>1, <2>4, <2>6, <1>2
      <3>. QED
         BY <3>5, <3>6, <1>7
   <2>. QED
      BY <2>5, <2>6
<1>. QED
   BY <1>1, <1>9, <1>10

\* Whatever the feed does, marker and targets keep their invariant.
LEMMA TargetFeedStep ==
    ASSUME FeedInv, TargetInv, left \in Budget, FeedStep
    PROVE  TargetInv'
<1>1. /\ UNCHANGED <<target, job, work, caller, player, reached>>
      /\ left' \in Budget /\ left'.requests = left.requests
      /\ \/ dispatch' = dispatch
         \/ \E S : Announceable(S) /\ Announce(S) /\ S # {}
   BY FeedStepIs
<1>2. \A r \in Revs : ready[r] # 0 => ready'[r] = ready[r]
   BY ReadyStays
<1>3. dispatch' \in MarkerRows /\ MarkerReady'
   <2>1. CASE dispatch' = dispatch
      <3>1. dispatch.rev # 0 => dispatch.rev \in Revs /\ ready[dispatch.rev] # 0
         BY Bounds DEF TargetInv, MarkerRows, MarkerReady, Revs
      <3>. QED
         BY <2>1, <3>1, <1>2 DEF TargetInv, MarkerReady
   <2>2. ASSUME NEW S, Announceable(S), Announce(S), S # {}
         PROVE  dispatch' \in MarkerRows /\ MarkerReady'
      <3>1. PICK top \in Revs :
               /\ top \in {c.rev : c \in S} /\ dispatch' \in MarkerRows
               /\ dispatch' = IF dispatch.rev < top THEN [rev |-> top, after |-> 0] ELSE dispatch
         BY <2>2, MarkerAdvanced
      <3>2. ready'[top] # 0
         <4>1. ready'[top] \in (Readied + 1)..Readied' /\ Readied \in Nat
            BY <3>1, <2>2, ReadiedBy DEF FeedInv
         <4>. QED
            BY <4>1
      <3>3. dispatch.rev # 0 => dispatch.rev \in Revs /\ ready[dispatch.rev] # 0
         BY Bounds DEF TargetInv, MarkerRows, MarkerReady, Revs
      <3>4. CASE dispatch.rev < top
         BY <3>1, <3>2, <3>4 DEF MarkerReady
      <3>5. CASE ~ (dispatch.rev < top)
         BY <3>1, <3>3, <3>5, <1>2 DEF MarkerReady
      <3>. QED
         BY <3>1, <3>4, <3>5
   <2>. QED
      BY <1>1, <2>1, <2>2
<1>4. \A t \in Targets : /\ target[t].desired # 0 => target[t].desired \in Revs
                         /\ target[t].success # 0 => target[t].success \in Revs
                         /\ target[t].success \in Nat
   BY Bounds DEF TargetInv, TargetRows, Revs
<1>5. TargetsReady'
   BY <1>1, <1>2, <1>4 DEF TargetInv, TargetsReady
<1>6. RefreshedIsTrue'
   <2>1. ASSUME NEW t \in Targets, target'[t].success > 0
         PROVE  ready'[target'[t].success] \in 1..reached'[t]
      <3>1. ready[target[t].success] \in 1..reached[t] /\ reached[t] \in Nat
         BY <1>1, <2>1, Bounds DEF TargetInv, RefreshedIsTrue
      <3>2. ready[target[t].success] # 0 /\ target[t].success \in Revs
         BY <3>1, <1>1, <1>4, <2>1
      <3>. QED
         BY <3>1, <3>2, <1>1, <1>2
   <2>. QED
      BY <2>1 DEF RefreshedIsTrue
<1>7. AskedRoom'
   BY <1>1 DEF TargetInv, AskedRoom
<1>8. NewestReachesTargets'
   BY NewestFeedStep
<1>. QED
   BY <1>1, <1>3, <1>5, <1>6, <1>7, <1>8 DEF TargetInv

\* Whatever the feed does, calls in flight keep theirs.
LEMMA WorkFeedStep ==
    ASSUME FeedInv, WorkInv, left \in Budget, FeedStep
    PROVE  WorkInv'
<1>1. UNCHANGED <<target, job, work, caller, player, reached>>
   BY FeedStepIs
<1>2. \A r \in Revs : ready[r] # 0 => ready'[r] = ready[r]
   BY ReadyStays
<1>3. ASSUME NEW k \in Tokens PROVE CallKnows(work[k])'
   <2>1. work[k].desired # 0 => work[k].desired \in Revs /\ ready[work[k].desired] # 0
      BY Bounds DEF WorkInv, WorkRows, CallKnows, Revs
   <2>. QED
      BY <2>1, <1>1, <1>2 DEF WorkInv, CallKnows
<1>. QED
   BY <1>1, <1>3 DEF WorkInv

\* What becomes ready gets a sequence beyond every cursor.
LEMMA PlayerFeedStep ==
    ASSUME FeedInv, PlayerInv, left \in Budget, FeedStep
    PROVE  PlayerInv'
<1>1. /\ UNCHANGED <<target, job, work, caller, player, reached>> /\ FeedInv'
      /\ lib.seq <= lib'.seq
      /\ \/ Ready' \subseteq Ready
         \/ \E S : Announceable(S) /\ Ready' = Ready \cup Published(S)
   BY FeedStepIs
<1>2. player.cursor \in Nat /\ player.latest \in Nat /\ lib.seq \in Nat /\ lib'.seq \in Nat
   <2>1. lib.seq \in Nat
      BY FeedNumbers
   <2>2. lib'.seq \in Nat
      BY <1>1, Bounds DEF FeedInv, FeedTypes
   <2>. QED
      BY <2>1, <2>2, Bounds DEF PlayerInv, PlayerRows
<1>3. PlayerBehind'
   BY <1>1, <1>2 DEF PlayerInv, PlayerBehind
<1>4. FeedTellsEverything'
   <2>1. CASE Ready' \subseteq Ready
      BY <2>1, <1>1 DEF PlayerInv, FeedTellsEverything
   <2>2. ASSUME NEW S, Announceable(S), Ready' = Ready \cup Published(S)
         PROVE  FeedTellsEverything'
      <3>1. ASSUME NEW p \in Published(S) PROVE ~ (p.seq <= player.cursor)
         <4>1. p.seq \in (lib.seq + 1)..(lib.seq + Cardinality(S)) /\ Cardinality(S) \in Nat
            BY <2>2, PublishedIs DEF FeedInv
         <4>2. player.cursor <= lib.seq
            BY DEF PlayerInv, PlayerBehind
         <4>. QED
            BY <4>1, <4>2, <1>2
      <3>. QED
         BY <2>2, <3>1, <1>1 DEF PlayerInv, FeedTellsEverything
   <2>. QED
      BY <1>1, <2>1, <2>2
<1>. QED
   BY <1>1, <1>3, <1>4 DEF PlayerInv

\* Every step of the feed keeps the inductive invariant.
LEMMA FeedStepKeeps ==
    ASSUME IInv, FeedStep PROVE IInv'
<1>1. FeedInv /\ TargetInv /\ PlayerInv /\ WorkInv /\ RestTypes /\ left \in Budget
   BY Parts DEF RestTypes
<1>2. FeedInv' /\ RestTypes'
   BY <1>1, FeedStepIs DEF RestTypes
<1>3. TargetInv' /\ PlayerInv' /\ WorkInv'
   BY <1>1, TargetFeedStep, PlayerFeedStep, WorkFeedStep
<1>. QED
   BY <1>2, <1>3, Parts, PTL

-----------------------------------------------------------------------------
(* Steps that leave the feed alone                                           *)

\* Polls, requests and faults spend nothing the feed needs.
LEMMA LeftKeeps ==
    ASSUME left \in Budget,
           left' = left \/ \E f \in {"polls", "requests", "faults"} : Spend(f)
    PROVE  /\ left' \in Budget /\ left'.changes = left.changes /\ left'.scans = left.scans
           /\ left.requests \in Nat /\ left'.requests \in Nat /\ left'.requests <= left.requests
<1>1. left.requests \in Nat
   BY DEF Budget
<1>2. CASE left' = left
   BY <1>1, <1>2
<1>3. ASSUME NEW f \in {"polls", "requests", "faults"}, Spend(f)
      PROVE  /\ left' \in Budget /\ left'.changes = left.changes /\ left'.scans = left.scans
             /\ left'.requests \in Nat /\ left'.requests <= left.requests
   <2>1. /\ left' \in Budget
         /\ left'.changes = left.changes
         /\ left'.scans = left.scans
         /\ left'.requests = IF f = "requests" THEN left.requests - 1 ELSE left.requests
      BY <1>3, SpendKeeps
   <2>2. left'.requests \in Nat
      BY <2>1 DEF Budget
   <2>. QED
      BY <2>1, <2>2, <1>1
<1>. QED
   BY <1>1, <1>2, <1>3

\* A player that does nothing, with the feed as it is, keeps its invariant.
LEMMA PlayerSame ==
    ASSUME PlayerInv, UNCHANGED feed, player' = player
    PROVE  PlayerInv'
BY DEF PlayerInv, PlayerBehind, FeedTellsEverything, feed, Ready

\* Goroutines that do nothing, with the feed as it is, keep theirs.
LEMMA WorkSame ==
    ASSUME WorkInv, UNCHANGED feed, work' = work, reached' = reached
    PROVE  WorkInv'
BY DEF WorkInv, CallKnows, feed

\* One goroutine may change to anything that is true of its call.
LEMMA WorkOne ==
    ASSUME WorkInv, UNCHANGED feed, reached' = reached,
           NEW k \in Tokens, NEW w \in WorkRows, CallKnows(w),
           work' = [work EXCEPT ![k] = w]
    PROVE  WorkInv'
<1>1. work' \in [Tokens -> WorkRows]
   BY DEF WorkInv
<1>2. ASSUME NEW j \in Tokens PROVE CallKnows(work[j])'
   <2>1. work'[j] = IF j = k THEN w ELSE work[j]
      BY DEF WorkInv
   <2>2. CallKnows(work[j])
      BY DEF WorkInv
   <2>. QED
      BY <2>1, <2>2 DEF CallKnows, feed
<1>. QED
   BY <1>1, <1>2 DEF WorkInv

\* One target's row becomes another one: it asks for nothing that was not ready, it
\* asks for the newest revision if it is now enabled and was not, and what it
\* believes in happened.
LEMMA TargetOne ==
    ASSUME FeedInv, TargetInv, UNCHANGED feed, dispatch' = dispatch, reached' = reached,
           left.requests \in Nat, left'.requests \in Nat, left'.requests <= left.requests,
           NEW t \in Targets, NEW row \in TargetRows, target' = [target EXCEPT ![t] = row],
           row.manual + left'.requests <= MaxAsked,
           row.desired # 0 => ready[row.desired] # 0,
           row.state = "present" /\ row.enabled =>
              (Enabled(t) /\ target[t].desired <= row.desired) \/ LatestReady <= row.desired,
           row.success > 0 => ready[row.success] \in 1..reached[t]
    PROVE  TargetInv'
<1>1. target' \in [Targets -> TargetRows] /\ \A s \in Targets : target'[s] = IF s = t THEN row ELSE target[s]
   BY DEF TargetInv
<1>2. LatestReady' = LatestReady /\ NewestRetained' = NewestRetained /\ ready' = ready
   BY DEF LatestReady, NewestRetained, Ready, feed
<1>3. AskedRoom'
   <2>1. ASSUME NEW s \in Targets PROVE target'[s].manual + left'.requests <= MaxAsked
      <3>1. target[s].manual \in Nat /\ target[s].manual + left.requests <= MaxAsked
         BY Bounds DEF TargetInv, TargetRows, AskedRoom
      <3>. QED
         BY <3>1, <1>1, Bounds
   <2>. QED
      BY <2>1 DEF AskedRoom
<1>4. MarkerReady' /\ TargetsReady'
   BY <1>1, <1>2 DEF TargetInv, MarkerReady, TargetsReady
<1>5. RefreshedIsTrue'
   BY <1>1, <1>2 DEF TargetInv, RefreshedIsTrue
<1>6. NewestReachesTargets'
   <2>1. SUFFICES ASSUME NewestRetained, NEW s \in Targets, Enabled(s)'
                  PROVE  \/ target'[s].desired >= LatestReady
                         \/ dispatch.rev >= LatestReady /\ dispatch.after < s
      BY <1>2 DEF NewestReachesTargets
   <2>2. ASSUME Enabled(s) PROVE \/ target[s].desired >= LatestReady
                                 \/ dispatch.rev >= LatestReady /\ dispatch.after < s
      BY <2>1, <2>2 DEF TargetInv, NewestReachesTargets
   <2>3. CASE s # t
      <3>1. Enabled(s) /\ target'[s] = target[s]
         BY <2>1, <2>3, <1>1 DEF Enabled, Present
      <3>. QED
         BY <3>1, <2>2
   <2>4. CASE s = t
      <3>1. row.state = "present" /\ row.enabled /\ target'[s] = row
         BY <2>1, <2>4, <1>1 DEF Enabled, Present
      <3>2. row.desired \in Nat /\ target[t].desired \in Nat /\ LatestReady \in Nat
         BY LatestIs, Bounds DEF LatestOK, TargetInv, TargetRows
      <3>. QED
         BY <3>1, <3>2, <2>2, <2>4
   <2>. QED
      BY <2>3, <2>4
<1>. QED
   BY <1>1, <1>3, <1>4, <1>5, <1>6 DEF TargetInv

\* Marker and targets that nobody touches keep their invariant.
LEMMA TargetSame ==
    ASSUME TargetInv, UNCHANGED feed, dispatch' = dispatch, reached' = reached, target' = target,
           left.requests \in Nat, left'.requests \in Nat, left'.requests <= left.requests
    PROVE  TargetInv'
<1>1. LatestReady' = LatestReady /\ NewestRetained' = NewestRetained /\ ready' = ready
   BY DEF LatestReady, NewestRetained, Ready, feed
<1>2. AskedRoom'
   <2>1. ASSUME NEW s \in Targets PROVE target'[s].manual + left'.requests <= MaxAsked
      <3>1. target[s].manual \in Nat /\ target[s].manual + left.requests <= MaxAsked
         BY Bounds DEF TargetInv, TargetRows, AskedRoom
      <3>. QED
         BY <3>1, Bounds
   <2>. QED
      BY <2>1 DEF AskedRoom
<1>3. NewestReachesTargets'
   BY <1>1 DEF TargetInv, NewestReachesTargets, Enabled, Present
<1>. QED
   BY <1>1, <1>2, <1>3 DEF TargetInv, MarkerReady, TargetsReady, RefreshedIsTrue

\* What the queue's statuses and links do to a target's row.
LEMMA TargetStatus ==
    ASSUME FeedInv, TargetInv, UNCHANGED feed, dispatch' = dispatch, reached' = reached,
           left.requests \in Nat, left'.requests \in Nat, left'.requests <= left.requests,
           NEW t \in Targets, NEW linked \in BOOLEAN,
           NEW status \in {"idle", "queued", "running", "retry_wait", "failed", "completed"},
           target' = [target EXCEPT ![t] = [target[t] EXCEPT !.linked = linked, !.status = status]]
    PROVE  TargetInv'
<1>. DEFINE row == [target[t] EXCEPT !.linked = linked, !.status = status]
<1>1. target[t] \in TargetRows
   BY DEF TargetInv
<1>2. /\ row \in TargetRows /\ row.state = target[t].state /\ row.enabled = target[t].enabled
      /\ row.desired = target[t].desired /\ row.success = target[t].success
      /\ row.manual = target[t].manual
   BY <1>1 DEF TargetRows
<1>. HIDE DEF row
<1>3. target[t].manual \in Nat /\ target[t].desired \in Nat
      /\ target[t].manual + left.requests <= MaxAsked
   BY <1>1, Bounds DEF TargetInv, TargetRows, AskedRoom
<1>4. row.manual + left'.requests <= MaxAsked
   BY <1>2, <1>3, Bounds
<1>5. row.desired # 0 => ready[row.desired] # 0
   BY <1>2 DEF TargetInv, TargetsReady
<1>6. row.state = "present" /\ row.enabled => Enabled(t) /\ target[t].desired <= row.desired
   BY <1>2, <1>3 DEF Enabled, Present
<1>7. row.success > 0 => ready[row.success] \in 1..reached[t]
   BY <1>2 DEF TargetInv, RefreshedIsTrue
<1>8. target' = [target EXCEPT ![t] = row]
   BY DEF row
<1>. QED
   BY <1>2, <1>4, <1>5, <1>6, <1>7, <1>8, TargetOne

\* A step is reassembled from its parts.
LEMMA Reassemble ==
    ASSUME IInv, UNCHANGED feed,
           left' = left \/ \E f \in {"polls", "requests", "faults"} : Spend(f),
           TargetInv', PlayerInv', WorkInv',
           job' \in [Targets -> JobRows], caller' \in [Callers -> CallerRows]
    PROVE  IInv'
<1>1. FeedInv /\ left \in Budget
   BY Parts DEF RestTypes
<1>2. left' \in Budget /\ left'.changes = left.changes /\ left'.scans = left.scans
   BY <1>1, LeftKeeps
<1>3. FeedInv'
   BY <1>1, <1>2, FeedSame
<1>4. RestTypes'
   BY <1>2 DEF RestTypes
<1>. QED
   BY <1>3, <1>4, Parts, PTL

-----------------------------------------------------------------------------
(* A player's poll                                                           *)

\* The first query of a poll keeps the invariant of the player.
LEMMA PlayerPollReads ==
    ASSUME FeedInv, PlayerInv, PollReads PROVE PlayerInv'
<1>. DEFINE crossed == /\ player.cursor > 0
                       /\ \/ player.cursor > Newest
                          \/ player.cursor < Newest /\ \A c \in Ready : c.seq # player.cursor
<1>1. /\ UNCHANGED feed
      /\ player' = IF crossed
                   THEN [player EXCEPT !.cursor = Newest, !.told = @ \cup {c.seq : c \in Ready}]
                   ELSE [player EXCEPT !.pc = "finding", !.latest = Newest]
   BY DEF PollReads
<1>. HIDE DEF crossed
<1>2. /\ Newest \in Nat /\ Newest <= lib.seq
      /\ \A c \in Ready : c.seq \in Seqs
   BY NewestIs
<1>3. Newest \in 0..(2 * MaxRev)
   BY <1>2, Bounds DEF FeedInv, FeedTypes
<1>4. player \in PlayerRows
   BY DEF PlayerInv
<1>5. Ready' = Ready /\ lib' = lib
   BY <1>1 DEF Ready, feed
<1>6. CASE crossed
   <2>1. player' = [player EXCEPT !.cursor = Newest, !.told = player.told \cup {c.seq : c \in Ready}]
      BY <1>1, <1>6
   <2>2. player.told \cup {c.seq : c \in Ready} \in SUBSET Seqs
      BY <1>2, <1>4 DEF PlayerRows
   <2>3. /\ player' \in PlayerRows /\ player'.cursor = Newest /\ player'.latest = player.latest
         /\ player'.told = player.told \cup {c.seq : c \in Ready}
      BY <2>1, <2>2, <1>3, <1>4 DEF PlayerRows
   <2>4. PlayerBehind'
      BY <2>3, <1>2, <1>5 DEF PlayerInv, PlayerBehind
   <2>5. FeedTellsEverything'
      BY <2>3, <1>5 DEF FeedTellsEverything
   <2>. QED
      BY <2>3, <2>4, <2>5 DEF PlayerInv
<1>7. CASE ~ crossed
   <2>1. player' = [player EXCEPT !.pc = "finding", !.latest = Newest]
      BY <1>1, <1>7
   <2>2. /\ player' \in PlayerRows /\ player'.cursor = player.cursor /\ player'.latest = Newest
         /\ player'.told = player.told
      BY <2>1, <1>3, <1>4 DEF PlayerRows
   <2>3. PlayerBehind'
      BY <2>2, <1>2, <1>5 DEF PlayerInv, PlayerBehind
   <2>4. FeedTellsEverything'
      BY <2>2, <1>5 DEF PlayerInv, FeedTellsEverything
   <2>. QED
      BY <2>2, <2>3, <2>4 DEF PlayerInv
<1>. QED
   BY <1>6, <1>7

\* The page is an initial part of what is beyond the cursor; an empty one means
\* that nothing is.
LEMMA PlayerPollFinds ==
    ASSUME FeedInv, PlayerInv, PollFinds PROVE PlayerInv'
<1>. DEFINE found == {c.seq : c \in {d \in Ready : d.seq > player.cursor}}
<1>1. /\ UNCHANGED feed
      /\ IF found = {}
         THEN player' = [player EXCEPT !.pc = "idle", !.cursor = player.latest]
         ELSE \E n \in 1..Cardinality(found) :
                 player' = [player EXCEPT !.pc = "idle", !.cursor = Largest(FirstOf(found, n)),
                                          !.told = @ \cup FirstOf(found, n)]
   BY DEF PollFinds
<1>2. \A c \in Ready : c.seq \in Seqs /\ c.seq \in Nat /\ c.seq >= 1 /\ c.seq <= lib.seq
   BY NewestIs
<1>3. player \in PlayerRows
   BY DEF PlayerInv
<1>4. Ready' = Ready /\ lib' = lib
   BY <1>1 DEF Ready, feed
<1>5. \A c \in Ready : c.seq \in found \/ c.seq <= player.cursor
   <2>1. player.cursor \in Nat
      BY <1>3, Bounds DEF PlayerRows
   <2>. QED
      BY <2>1, <1>2
<1>6. IsFiniteSet(found) /\ found \in SUBSET Nat
   <2>1. IsFiniteSet({d \in Ready : d.seq > player.cursor})
      BY FS_Subset DEF FeedInv, RoomLeft, Ready
   <2>. QED
      BY <2>1, <1>2, SeqsOf
<1>7. \A n \in found : n \in Seqs /\ n <= lib.seq /\ n >= 1
   BY <1>2
<1>. HIDE DEF found
<1>8. CASE found = {}
   <2>1. player' = [player EXCEPT !.pc = "idle", !.cursor = player.latest]
      BY <1>1, <1>8
   <2>2. /\ player' \in PlayerRows /\ player'.cursor = player.latest
         /\ player'.latest = player.latest /\ player'.told = player.told
      BY <2>1, <1>3 DEF PlayerRows
   <2>3. PlayerBehind'
      BY <2>2, <1>4 DEF PlayerInv, PlayerBehind
   <2>4. FeedTellsEverything'
      BY <2>2, <1>4, <1>5, <1>8 DEF PlayerInv, FeedTellsEverything
   <2>. QED
      BY <2>2, <2>3, <2>4 DEF PlayerInv
<1>9. ASSUME NEW n \in 1..Cardinality(found), found # {},
             player' = [player EXCEPT !.pc = "idle", !.cursor = Largest(FirstOf(found, n)),
                                      !.told = @ \cup FirstOf(found, n)]
      PROVE  PlayerInv'
   <2>. DEFINE page == FirstOf(found, n)
               top == Largest(page)
   <2>1. n \in Nat
      BY <1>6, FS_CardinalityType
   <2>2. page \subseteq found /\ \A s \in page : \A u \in found : u <= s => u \in page
      BY <2>1, <1>6, FirstOfDown
   <2>3. IsFiniteSet(page) /\ page \in SUBSET Nat
      BY <2>2, <1>6, FS_Subset
   <2>4. top \in Nat /\ top \in page \cup {0}
      BY <2>3, LargestOf
   <2>5. player' = [player EXCEPT !.pc = "idle", !.cursor = top, !.told = player.told \cup page]
      BY <1>9
   <2>. HIDE DEF page, top
   <2>6. top \in 0..(2 * MaxRev) /\ top <= lib.seq
      <3>1. \A s \in page : s \in 0..(2 * MaxRev) /\ s <= lib.seq
         BY <2>2, <1>7, Bounds DEF Seqs
      <3>2. 0 \in 0..(2 * MaxRev) /\ 0 <= lib.seq
         BY Bounds DEF FeedInv, FeedTypes
      <3>. QED
         BY <3>1, <3>2, <2>4
   <2>7. player.told \cup page \in SUBSET Seqs
      BY <2>2, <1>3, <1>7 DEF PlayerRows
   <2>8. /\ player' \in PlayerRows /\ player'.cursor = top /\ player'.latest = player.latest
         /\ player'.told = player.told \cup page
      BY <2>5, <2>6, <2>7, <1>3 DEF PlayerRows
   <2>9. PlayerBehind'
      BY <2>6, <2>8, <1>4 DEF PlayerInv, PlayerBehind
   <2>10. FeedTellsEverything'
      <3>1. ASSUME NEW c \in Ready, c.seq <= top PROVE c.seq \in player.told \cup page
         <4>1. CASE c.seq <= player.cursor
            BY <4>1 DEF PlayerInv, FeedTellsEverything
         <4>2. CASE c.seq \in found
            <5>1. top \in page
               <6>1. c.seq >= 1 /\ c.seq \in Nat
                  BY <1>2
               <6>. QED
                  BY <6>1, <3>1, <2>4
            <5>. QED
               BY <5>1, <4>2, <3>1, <2>2
         <4>. QED
            BY <4>1, <4>2, <1>5
      <3>. QED
         BY <3>1, <2>8, <1>4 DEF FeedTellsEverything
   <2>. QED
      BY <2>8, <2>9, <2>10 DEF PlayerInv
<1>. QED
   BY <1>1, <1>8, <1>9

\* Both queries of a poll keep the inductive invariant.
LEMMA PollKeeps ==
    ASSUME IInv, PollReads \/ PollFinds PROVE IInv'
<1>1. FeedInv /\ TargetInv /\ PlayerInv /\ WorkInv /\ RestTypes /\ left \in Budget
   BY Parts DEF RestTypes
<1>2. /\ UNCHANGED <<feed, dispatch, target, job, work, caller, reached>>
      /\ left' = left \/ \E f \in {"polls", "requests", "faults"} : Spend(f)
   BY DEF PollReads, PollFinds
<1>3. left.requests \in Nat /\ left'.requests \in Nat /\ left'.requests <= left.requests
   BY <1>1, <1>2, LeftKeeps
<1>4. PlayerInv'
   BY <1>1, PlayerPollReads, PlayerPollFinds
<1>5. TargetInv' /\ WorkInv'
   BY <1>1, <1>2, <1>3, TargetSame, WorkSame
<1>6. job' \in [Targets -> JobRows] /\ caller' \in [Callers -> CallerRows]
   BY <1>1, <1>2 DEF RestTypes
<1>. QED
   BY <1>2, <1>4, <1>5, <1>6, Reassemble

-----------------------------------------------------------------------------
(* From the marker to the jobs                                               *)

\* A batch is an initial part of the targets the marker has not reached.
LEMMA TargetDispatchBatch ==
    ASSUME FeedInv, TargetInv, left \in Budget, DispatchBatch PROVE TargetInv'
<1>. DEFINE waiting == {t \in Targets : /\ t > dispatch.after /\ Enabled(t)
                                        /\ target[t].desired < dispatch.rev}
            batch == FirstOf(waiting, Batch)
<1>1. /\ UNCHANGED feed /\ reached' = reached /\ left' = left
      /\ IF batch = {}
         THEN dispatch' = NoMarker /\ target' = target
         ELSE /\ target' = [t \in Targets |-> IF t \in batch
                              THEN [target[t] EXCEPT !.desired = dispatch.rev] ELSE target[t]]
              /\ dispatch' = [dispatch EXCEPT !.after = Largest(batch)]
   BY DEF DispatchBatch
<1>2. waiting \in SUBSET Nat /\ IsFiniteSet(waiting) /\ waiting \subseteq Targets
   BY TargetsAssumption, FS_Subset
<1>3. \A t \in Targets : t \in waiting <=> /\ t > dispatch.after /\ Enabled(t)
                                           /\ target[t].desired < dispatch.rev
   OBVIOUS
<1>. HIDE DEF waiting
<1>4. batch \subseteq waiting /\ \A s \in batch : \A u \in waiting : u <= s => u \in batch
   BY <1>2, BatchAssumption, FirstOfDown
<1>5. waiting # {} => batch # {}
   BY <1>2, BatchAssumption, FirstOfSome
<1>6. IsFiniteSet(batch) /\ batch \in SUBSET Nat
   BY <1>2, <1>4, FS_Subset
<1>7. Largest(batch) \in Nat /\ Largest(batch) \in batch \cup {0} /\ \A s \in batch : s <= Largest(batch)
   BY <1>6, LargestOf
<1>. HIDE DEF batch
<1>8. LatestReady' = LatestReady /\ NewestRetained' = NewestRetained /\ ready' = ready
   BY <1>1 DEF LatestReady, NewestRetained, Ready, feed
<1>9. LatestReady \in Nat
   BY LatestIs DEF LatestOK
<1>10. /\ dispatch \in MarkerRows /\ dispatch.rev \in Nat /\ dispatch.rev \in 0..MaxRev
       /\ dispatch.after \in Nat
       /\ \A t \in Targets : target[t] \in TargetRows /\ target[t].desired \in Nat /\ t \in Nat /\ t # 0
   <2>1. dispatch \in MarkerRows /\ dispatch.rev \in 0..MaxRev /\ dispatch.after \in Targets \cup {0}
      BY DEF TargetInv, MarkerRows
   <2>2. \A t \in Targets : t \in Nat /\ t # 0
      BY TargetsAssumption
   <2>3. \A t \in Targets : target[t] \in TargetRows /\ target[t].desired \in Nat
      BY Bounds DEF TargetInv, TargetRows
   <2>. QED
      BY <2>1, <2>2, <2>3, Bounds
<1>11. ASSUME NewestRetained, NEW t \in Targets, Enabled(t)
       PROVE  \/ target[t].desired >= LatestReady
              \/ dispatch.rev >= LatestReady /\ dispatch.after < t
   BY <1>11 DEF TargetInv, NewestReachesTargets
<1>12. CASE batch = {}
   <2>1. dispatch' = NoMarker /\ target' = target
      BY <1>1, <1>12
   <2>2. dispatch' \in MarkerRows /\ MarkerReady'
      <3>1. 0 \in 0..MaxRev
         BY Bounds
      <3>. QED
         BY <2>1, <3>1 DEF NoMarker, MarkerRows, MarkerReady
   <2>3. NewestReachesTargets'
      <3>1. ASSUME NewestRetained, NEW t \in Targets, Enabled(t)
            PROVE  target[t].desired >= LatestReady
         <4>1. t \notin waiting
            BY <1>5, <1>12
         <4>. QED
            BY <4>1, <3>1, <1>3, <1>9, <1>10, <1>11
      <3>. QED
         BY <3>1, <2>1, <1>8 DEF NewestReachesTargets, Enabled, Present
   <2>. QED
      BY <2>1, <2>2, <2>3, <1>1, <1>8
         DEF TargetInv, AskedRoom, TargetsReady, RefreshedIsTrue
<1>13. CASE batch # {}
   <2>. DEFINE top == Largest(batch)
   <2>1. /\ dispatch' = [dispatch EXCEPT !.after = top]
         /\ target' = [t \in Targets |-> IF t \in batch
                         THEN [target[t] EXCEPT !.desired = dispatch.rev] ELSE target[t]]
      BY <1>1, <1>13
   <2>2. top \in batch
      <3>1. PICK s \in batch : TRUE
         BY <1>13
      <3>2. s \in Nat /\ s # 0 /\ s <= top
         BY <3>1, <1>2, <1>4, <1>7, <1>10
      <3>. QED
         BY <3>2, <1>7
   <2>. HIDE DEF top
   <2>3. dispatch' \in MarkerRows /\ dispatch'.rev = dispatch.rev /\ dispatch'.after = top
      <3>1. top \in Targets
         BY <2>2, <1>2, <1>4
      <3>. QED
         BY <2>1, <3>1, <1>10 DEF MarkerRows
   <2>4. ASSUME NEW t \in Targets
         PROVE  /\ target'[t] \in TargetRows
                /\ target'[t].desired = IF t \in batch THEN dispatch.rev ELSE target[t].desired
                /\ target'[t].state = target[t].state /\ target'[t].enabled = target[t].enabled
                /\ target'[t].success = target[t].success /\ target'[t].manual = target[t].manual
      <3>1. target'[t] = IF t \in batch THEN [target[t] EXCEPT !.desired = dispatch.rev] ELSE target[t]
         BY <2>1
      <3>. QED
         BY <3>1, <1>10 DEF TargetRows
   <2>5. target' \in [Targets -> TargetRows]
      BY <2>1, <2>4
   <2>6. MarkerReady' /\ TargetsReady' /\ AskedRoom' /\ RefreshedIsTrue'
      BY <2>3, <2>4, <1>1, <1>8
         DEF TargetInv, MarkerReady, TargetsReady, AskedRoom, RefreshedIsTrue
   <2>7. NewestReachesTargets'
      <3>1. ASSUME NewestRetained, NEW t \in Targets, Enabled(t)
            PROVE  \/ target'[t].desired >= LatestReady
                   \/ dispatch.rev >= LatestReady /\ top < t
         <4>1. CASE t \in batch
            <5>1. target[t].desired < dispatch.rev /\ target'[t].desired = dispatch.rev
               BY <4>1, <2>4, <1>3, <1>4
            <5>. QED
               BY <5>1, <3>1, <1>9, <1>10, <1>11
         <4>2. CASE t \notin batch /\ t <= top
            <5>1. t \notin waiting
               BY <4>2, <2>2, <1>4
            <5>2. target'[t].desired = target[t].desired
               BY <4>2, <2>4
            <5>. QED
               BY <5>1, <5>2, <3>1, <1>3, <1>9, <1>10, <1>11
         <4>3. CASE t \notin batch /\ top < t
            <5>1. target'[t].desired = target[t].desired
               BY <4>3, <2>4
            <5>. QED
               BY <5>1, <4>3, <3>1, <1>11
         <4>4. top \in Nat
            BY <2>2, <1>6
         <4>. QED
            BY <4>1, <4>2, <4>3, <4>4, <1>10
      <3>2. \A t \in Targets : Enabled(t)' <=> Enabled(t)
         BY <2>4 DEF Enabled, Present
      <3>. QED
         BY <3>1, <3>2, <2>3, <1>8 DEF NewestReachesTargets
   <2>. QED
      BY <2>3, <2>5, <2>6, <2>7, <1>1 DEF TargetInv
<1>. QED
   BY <1>12, <1>13

\* A batch of the dispatcher keeps it.
LEMMA DispatchKeeps ==
    ASSUME IInv, DispatchBatch PROVE IInv'
<1>1. FeedInv /\ TargetInv /\ PlayerInv /\ WorkInv /\ RestTypes /\ left \in Budget
   BY Parts DEF RestTypes
<1>2. UNCHANGED <<feed, job, work, caller, player, left, reached>>
   BY DEF DispatchBatch
<1>3. TargetInv'
   BY <1>1, TargetDispatchBatch
<1>4. PlayerInv' /\ WorkInv'
   BY <1>1, <1>2, PlayerSame, WorkSame
<1>5. job' \in [Targets -> JobRows] /\ caller' \in [Callers -> CallerRows]
   BY <1>1, <1>2 DEF RestTypes
<1>. QED
   BY <1>2, <1>3, <1>4, <1>5, Reassemble

\* Choosing the targets to recover keeps it.
LEMMA RecoverKeeps ==
    ASSUME IInv, Recover PROVE IInv'
<1>1. FeedInv /\ TargetInv /\ PlayerInv /\ WorkInv /\ RestTypes /\ left \in Budget
   BY Parts DEF RestTypes
<1>2. /\ UNCHANGED <<feed, dispatch, target, job, work, player, left, reached>>
      /\ caller' = [caller EXCEPT !["dispatcher"].todo = Recoverable]
   BY DEF Recover
<1>3. left.requests \in Nat /\ left'.requests \in Nat /\ left'.requests <= left.requests
   BY <1>1, <1>2, LeftKeeps
<1>4. TargetInv' /\ PlayerInv' /\ WorkInv'
   BY <1>1, <1>2, <1>3, TargetSame, PlayerSame, WorkSame
<1>5. caller' \in [Callers -> CallerRows]
   <2>1. Recoverable \in SUBSET Targets
      BY DEF Recoverable
   <2>. QED
      BY <2>1, <1>1, <1>2 DEF RestTypes, CallerRows, Callers
<1>6. job' \in [Targets -> JobRows]
   BY <1>1, <1>2 DEF RestTypes
<1>. QED
   BY <1>2, <1>4, <1>5, <1>6, Reassemble

\* Inserting the job of a target keeps it.
LEMMA InsertKeeps ==
    ASSUME IInv, NEW c \in Callers, NEW t \in Targets, Insert(c, t) PROVE IInv'
<1>1. FeedInv /\ TargetInv /\ PlayerInv /\ WorkInv /\ RestTypes /\ left \in Budget
   BY Parts DEF RestTypes
<1>2. UNCHANGED <<feed, dispatch, work, player, left, reached>>
   BY DEF Insert
<1>3. left.requests \in Nat /\ left'.requests \in Nat /\ left'.requests <= left.requests
   BY <1>1, <1>2, LeftKeeps
<1>4. PlayerInv' /\ WorkInv'
   BY <1>1, <1>2, PlayerSame, WorkSame
<1>5. caller \in [Callers -> CallerRows] /\ job \in [Targets -> JobRows] /\ target[t] \in TargetRows
   BY <1>1 DEF RestTypes, TargetInv
<1>6. CASE job[t].status \in Live
   <2>1. /\ job' = [job EXCEPT ![t].behind = TRUE]
         /\ caller' = [caller EXCEPT ![c].linking = t, ![c].newest = TRUE]
         /\ target' = target
      BY <1>6 DEF Insert
   <2>2. TargetInv'
      BY <2>1, <1>1, <1>2, <1>3, TargetSame
   <2>3. job' \in [Targets -> JobRows] /\ caller' \in [Callers -> CallerRows]
      <3>1. job[t] \in JobRows /\ caller[c] \in CallerRows
         BY <1>5
      <3>2. [job[t] EXCEPT !.behind = TRUE] \in JobRows
         BY <3>1 DEF JobRows
      <3>3. [caller[c] EXCEPT !.linking = t, !.newest = TRUE] \in CallerRows
         BY <3>1 DEF CallerRows
      <3>. QED
         BY <2>1, <3>2, <3>3, <1>5
   <2>. QED
      BY <2>2, <2>3, <1>2, <1>4, Reassemble
<1>7. CASE job[t].status \notin Live
   <2>1. /\ job' = [job EXCEPT ![t] = [NoJob EXCEPT !.status = "queued"]]
         /\ caller' = [d \in Callers |->
               IF d = c THEN [caller[c] EXCEPT !.linking = t, !.newest = TRUE]
               ELSE IF caller[d].linking = t THEN [caller[d] EXCEPT !.newest = FALSE]
               ELSE caller[d]]
         /\ target' = [target EXCEPT ![t].linked = FALSE]
      BY <1>7 DEF Insert
   <2>2. TargetInv'
      <3>1. target[t].status \in {"idle", "queued", "running", "retry_wait", "failed", "completed"}
         BY <1>5 DEF TargetRows
      <3>2. target' = [target EXCEPT ![t] = [target[t] EXCEPT !.linked = FALSE, !.status = target[t].status]]
         <4>1. [target[t] EXCEPT !.linked = FALSE, !.status = target[t].status] = [target[t] EXCEPT !.linked = FALSE]
            BY <1>5 DEF TargetRows
         <4>. QED
            BY <2>1, <4>1
      <3>. QED
         BY <3>1, <3>2, <1>1, <1>2, <1>3, TargetStatus
   <2>3. job' \in [Targets -> JobRows]
      <3>1. [NoJob EXCEPT !.status = "queued"] \in JobRows
         <4>1. 0 \in 0..MaxAttempts
            BY AttemptsAssumption
         <4>. QED
            BY <4>1 DEF NoJob, JobRows, Live
      <3>. QED
         BY <3>1, <2>1, <1>5
   <2>4. caller' \in [Callers -> CallerRows]
      <3>1. \A d \in Callers : /\ caller[d] \in CallerRows
                               /\ [caller[d] EXCEPT !.linking = t, !.newest = TRUE] \in CallerRows
                               /\ [caller[d] EXCEPT !.newest = FALSE] \in CallerRows
         BY <1>5 DEF CallerRows
      <3>. QED
         BY <3>1, <2>1
   <2>. QED
      BY <2>2, <2>3, <2>4, <1>2, <1>4, Reassemble
<1>. QED
   BY <1>6, <1>7

\* What a caller has to do is a set of targets.
LEMMA CallerUpdates ==
    ASSUME NEW S \in SUBSET Targets
    PROVE  Nobody \in CallerRows /\ [Nobody EXCEPT !.todo = S] \in CallerRows
BY DEF Nobody, CallerRows

\* Linking a job to its target keeps it.
LEMMA LinkKeeps ==
    ASSUME IInv, NEW c \in Callers, Link(c) PROVE IInv'
<1>1. FeedInv /\ TargetInv /\ PlayerInv /\ WorkInv /\ RestTypes /\ left \in Budget
   BY Parts DEF RestTypes
<1>2. UNCHANGED <<feed, dispatch, job, work, player, left, reached>>
   BY DEF Link
<1>3. left.requests \in Nat /\ left'.requests \in Nat /\ left'.requests <= left.requests
   BY <1>1, <1>2, LeftKeeps
<1>4. PlayerInv' /\ WorkInv'
   BY <1>1, <1>2, PlayerSame, WorkSame
<1>5. caller \in [Callers -> CallerRows] /\ job' \in [Targets -> JobRows]
   BY <1>1, <1>2 DEF RestTypes
<1>. DEFINE t == caller[c].linking
<1>6. t \in Targets /\ caller[c].newest \in BOOLEAN /\ caller[c].todo \in SUBSET Targets
   BY <1>5 DEF Link, CallerRows
<1>7. CASE Present(t)
   <2>1. /\ target' = [target EXCEPT ![t].linked = caller[c].newest, ![t].status = "queued"]
         /\ caller' = [caller EXCEPT ![c] = [Nobody EXCEPT !.todo = caller[c].todo \ {t}]]
      BY <1>7 DEF Link
   <2>. HIDE DEF t
   <2>2. target' = [target EXCEPT ![t] = [target[t] EXCEPT !.linked = caller[c].newest, !.status = "queued"]]
      BY <2>1, <1>1, <1>6 DEF TargetInv
   <2>3. TargetInv'
      BY <2>2, <1>1, <1>2, <1>3, <1>6, TargetStatus
   <2>4. caller' \in [Callers -> CallerRows]
      <3>1. caller[c].todo \ {t} \in SUBSET Targets
         BY <1>6
      <3>2. [Nobody EXCEPT !.todo = caller[c].todo \ {t}] \in CallerRows
         BY <3>1, CallerUpdates
      <3>. QED
         BY <2>1, <3>2, <1>5
   <2>. QED
      BY <2>3, <2>4, <1>2, <1>4, <1>5, Reassemble
<1>8. CASE ~ Present(t)
   <2>1. target' = target /\ caller' = [caller EXCEPT ![c] = Nobody]
      BY <1>8 DEF Link
   <2>2. TargetInv'
      BY <2>1, <1>1, <1>2, <1>3, TargetSame
   <2>3. caller' \in [Callers -> CallerRows]
      BY <2>1, <1>5, CallerUpdates
   <2>. QED
      BY <2>2, <2>3, <1>2, <1>4, <1>5, Reassemble
<1>. QED
   BY <1>7, <1>8

-----------------------------------------------------------------------------
(* What users do with a target                                               *)

\* A request rewrites the row of one target, and may go on to enqueue.
LEMMA RequestKeeps ==
    ASSUME IInv, Spend("requests"), UNCHANGED <<feed, dispatch, job, work, player, reached>>,
           NEW t \in Targets, NEW row \in TargetRows, target' = [target EXCEPT ![t] = row],
           caller' = caller \/ caller' = [caller EXCEPT !["request"] = [Nobody EXCEPT !.todo = {t}]],
           row.manual <= target[t].manual + 1,
           row.desired # 0 => ready[row.desired] # 0,
           row.state = "present" /\ row.enabled =>
              (Enabled(t) /\ target[t].desired <= row.desired) \/ LatestReady <= row.desired,
           row.success \in {0, target[t].success}
    PROVE  IInv'
<1>1. FeedInv /\ TargetInv /\ PlayerInv /\ WorkInv /\ RestTypes /\ left \in Budget
   BY Parts DEF RestTypes
<1>2. /\ left.requests \in Nat /\ left'.requests \in Nat /\ left'.requests = left.requests - 1
   <2>1. left'.requests = left.requests - 1 /\ left.requests \in Nat /\ left' \in Budget
      BY <1>1, SpendKeeps
   <2>2. left'.requests \in Nat
      BY <2>1 DEF Budget
   <2>. QED
      BY <2>1, <2>2
<1>3. PlayerInv' /\ WorkInv'
   BY <1>1, PlayerSame, WorkSame
<1>4. caller' \in [Callers -> CallerRows]
   <2>1. caller \in [Callers -> CallerRows] /\ [Nobody EXCEPT !.todo = {t}] \in CallerRows
      BY <1>1, CallerUpdates DEF RestTypes
   <2>. QED
      BY <2>1
<1>5. job' \in [Targets -> JobRows]
   BY <1>1 DEF RestTypes
<1>6. TargetInv'
   <2>1. target[t].manual \in Nat /\ target[t].manual + left.requests <= MaxAsked /\ row.manual \in Nat
      BY <1>1, Bounds DEF TargetInv, TargetRows, AskedRoom
   <2>2. row.manual + left'.requests <= MaxAsked
      BY <2>1, <1>2, Bounds
   <2>3. row.success > 0 => ready[row.success] \in 1..reached[t]
      BY <1>1 DEF TargetInv, RefreshedIsTrue
   <2>4. left'.requests <= left.requests
      BY <1>2
   <2>. QED
      BY <2>2, <2>3, <2>4, <1>1, <1>2, TargetOne
<1>. QED
   BY <1>3, <1>4, <1>5, <1>6, Reassemble

\* A new target, which starts from the newest ready revision, keeps it.
LEMMA CreateKeeps ==
    ASSUME IInv, NEW t \in Targets, Create(t) PROVE IInv'
<1>1. FeedInv /\ TargetInv
   BY Parts
<1>2. PICK on \in BOOLEAN :
          /\ target' = [target EXCEPT ![t] = [Unborn EXCEPT !.state = "present",
                            !.enabled = on, !.desired = LatestReady]]
          /\ AskedToEnqueue(t, on /\ LatestReady > 0)
   BY DEF Create
<1>. DEFINE row == [Unborn EXCEPT !.state = "present", !.enabled = on, !.desired = LatestReady]
<1>3. LatestReady \in 0..MaxRev /\ (LatestReady # 0 => ready[LatestReady] # 0)
   BY <1>1, LatestIs, Bounds DEF LatestOK
<1>4. /\ row \in TargetRows /\ row.desired = LatestReady /\ row.manual = 0 /\ row.success = 0
   <2>1. 0 \in 0..MaxRev /\ 0 \in 0..MaxAsked
      BY Bounds
   <2>. QED
      BY <2>1, <1>3 DEF Unborn, TargetRows
<1>5. target[t].manual \in Nat
   BY <1>1, Bounds DEF TargetInv, TargetRows
<1>6. /\ Spend("requests") /\ UNCHANGED <<feed, dispatch, job, work, player, reached>>
      /\ caller' = caller \/ caller' = [caller EXCEPT !["request"] = [Nobody EXCEPT !.todo = {t}]]
   BY <1>2 DEF Create, Untouched, AskedToEnqueue
<1>7. target' = [target EXCEPT ![t] = row]
   BY <1>2
<1>. HIDE DEF row
<1>8. LatestReady <= row.desired /\ row.manual <= target[t].manual + 1
   BY <1>3, <1>4, <1>5, Bounds
<1>. QED
   BY <1>3, <1>4, <1>6, <1>7, <1>8, RequestKeeps

\* Switching a target on, from the newest ready revision, or off keeps it.
LEMMA UpdateKeeps ==
    ASSUME IInv, NEW t \in Targets, NEW on \in BOOLEAN, Update(t, on) PROVE IInv'
<1>1. FeedInv /\ TargetInv
   BY Parts
<1>. DEFINE asked == IF on THEN AskedFor(t) ELSE target[t].desired
            row == [target[t] EXCEPT !.enabled = on, !.desired = asked]
<1>2. target[t] \in TargetRows
   BY <1>1 DEF TargetInv
<1>3. /\ LatestReady \in Nat /\ LatestReady <= MaxRev /\ (LatestReady # 0 => ready[LatestReady] # 0)
      /\ target[t].desired \in Nat /\ target[t].desired <= MaxRev /\ target[t].manual \in Nat
      /\ target[t].desired # 0 => ready[target[t].desired] # 0
   BY <1>1, <1>2, LatestIs, Bounds DEF LatestOK, TargetRows, TargetInv, TargetsReady
<1>4. /\ asked \in {target[t].desired, LatestReady} /\ asked \in 0..MaxRev
      /\ on => LatestReady <= asked
   <2>1. /\ AskedFor(t) \in {target[t].desired, LatestReady} /\ LatestReady <= AskedFor(t)
      BY <1>3, LargerOf DEF AskedFor
   <2>2. asked \in {target[t].desired, LatestReady} /\ (on => LatestReady <= asked)
      BY <2>1
   <2>. HIDE DEF asked
   <2>. QED
      BY <2>2, <1>3, Bounds
<1>5. target' = [target EXCEPT ![t] = row]
   <2>1. target' = [target EXCEPT ![t].enabled = on, ![t].desired = IF on THEN AskedFor(t) ELSE @]
      BY DEF Update
   <2>. QED
      BY <2>1, <1>1 DEF TargetInv
<1>. HIDE DEF asked
<1>6. /\ row \in TargetRows /\ row.enabled = on /\ row.desired = asked
      /\ row.manual = target[t].manual /\ row.success = target[t].success
   BY <1>2, <1>4 DEF TargetRows
<1>7. /\ Spend("requests") /\ UNCHANGED <<feed, dispatch, job, work, player, reached>>
      /\ caller' = caller \/ caller' = [caller EXCEPT !["request"] = [Nobody EXCEPT !.todo = {t}]]
   BY DEF Update, Untouched, AskedToEnqueue
<1>. HIDE DEF row
<1>8. row.manual <= target[t].manual + 1 /\ (row.desired # 0 => ready[row.desired] # 0)
   BY <1>3, <1>4, <1>6
<1>. QED
   BY <1>4, <1>5, <1>6, <1>7, <1>8, RequestKeeps

\* Deleting a target keeps it.
LEMMA DeleteKeeps ==
    ASSUME IInv, NEW t \in Targets, Delete(t) PROVE IInv'
<1>. DEFINE row == [Unborn EXCEPT !.state = "gone"]
<1>1. TargetInv
   BY Parts
<1>2. /\ row \in TargetRows /\ row.state = "gone" /\ row.desired = 0 /\ row.manual = 0
      /\ row.success = 0
   <2>1. 0 \in 0..MaxRev /\ 0 \in 0..MaxAsked
      BY Bounds
   <2>. QED
      BY <2>1 DEF Unborn, TargetRows
<1>3. row.manual <= target[t].manual + 1
   BY <1>1, <1>2, Bounds DEF TargetInv, TargetRows
<1>4. /\ Spend("requests") /\ UNCHANGED <<feed, dispatch, job, work, player, reached>>
      /\ caller' = caller /\ target' = [target EXCEPT ![t] = row]
   BY DEF Delete, Untouched
<1>. HIDE DEF row
<1>. QED
   BY <1>2, <1>3, <1>4, RequestKeeps

\* A refresh that a user asks for keeps it.
LEMMA ManualRefreshKeeps ==
    ASSUME IInv, NEW t \in Targets, ManualRefresh(t) PROVE IInv'
<1>. DEFINE row == [target[t] EXCEPT !.manual = target[t].manual + 1]
<1>1. TargetInv /\ target[t] \in TargetRows /\ left \in Budget
   BY Parts DEF TargetInv, RestTypes
<1>2. /\ Spend("requests") /\ UNCHANGED <<feed, dispatch, job, work, player, reached>>
      /\ caller' = [caller EXCEPT !["request"] = [Nobody EXCEPT !.todo = {t}]]
      /\ target' = [target EXCEPT ![t] = row] /\ Enabled(t)
   BY <1>1 DEF ManualRefresh, Untouched, AskedToEnqueue, TargetInv
<1>3. target[t].manual + 1 \in 0..MaxAsked
   <2>1. target[t].manual \in Nat /\ target[t].manual + left.requests <= MaxAsked
      BY <1>1, Bounds DEF TargetInv, TargetRows, AskedRoom
   <2>2. left.requests > 0 /\ left.requests \in Nat
      BY <1>1, <1>2, SpendKeeps DEF Spend
   <2>. QED
      BY <2>1, <2>2, Bounds
<1>4. /\ row \in TargetRows /\ row.desired = target[t].desired /\ row.manual = target[t].manual + 1
      /\ row.success = target[t].success
   BY <1>1, <1>3 DEF TargetRows
<1>. HIDE DEF row
<1>5. row.manual <= target[t].manual + 1 /\ target[t].desired <= row.desired
   BY <1>1, <1>4, Bounds DEF TargetRows
<1>6. row.desired # 0 => ready[row.desired] # 0
   BY <1>1, <1>4 DEF TargetInv, TargetsReady
<1>. QED
   BY <1>2, <1>4, <1>5, <1>6, RequestKeeps

\* Retrying a failed job keeps it.
LEMMA RetryKeeps ==
    ASSUME IInv, NEW t \in Targets, Retry(t) PROVE IInv'
<1>1. FeedInv /\ TargetInv /\ PlayerInv /\ WorkInv /\ RestTypes /\ left \in Budget
   BY Parts DEF RestTypes
<1>2. /\ Spend("requests") /\ UNCHANGED <<feed, dispatch, job, work, player, reached, target>>
      /\ caller' = [caller EXCEPT !["request"] = [Nobody EXCEPT !.todo = {t}]]
   BY DEF Retry, Untouched, AskedToEnqueue
<1>3. left.requests \in Nat /\ left'.requests \in Nat /\ left'.requests <= left.requests
   BY <1>1, <1>2, LeftKeeps
<1>4. TargetInv' /\ PlayerInv' /\ WorkInv'
   BY <1>1, <1>2, <1>3, TargetSame, PlayerSame, WorkSame
<1>5. caller' \in [Callers -> CallerRows] /\ job' \in [Targets -> JobRows]
   <2>1. [Nobody EXCEPT !.todo = {t}] \in CallerRows
      BY CallerUpdates
   <2>. QED
      BY <2>1, <1>1, <1>2 DEF RestTypes
<1>. QED
   BY <1>2, <1>4, <1>5, Reassemble

\* Cancelling a job keeps it.
LEMMA CancelJobKeeps ==
    ASSUME IInv, NEW t \in Targets, CancelJob(t) PROVE IInv'
<1>1. FeedInv /\ TargetInv /\ PlayerInv /\ WorkInv /\ RestTypes /\ left \in Budget
   BY Parts DEF RestTypes
<1>2. /\ Spend("requests") /\ UNCHANGED <<feed, dispatch, work, player, reached, target, caller>>
      /\ job' = [job EXCEPT ![t].status = "cancelled"]
   BY DEF CancelJob
<1>3. left.requests \in Nat /\ left'.requests \in Nat /\ left'.requests <= left.requests
   BY <1>1, <1>2, LeftKeeps
<1>4. TargetInv' /\ PlayerInv' /\ WorkInv'
   BY <1>1, <1>2, <1>3, TargetSame, PlayerSame, WorkSame
<1>5. caller' \in [Callers -> CallerRows] /\ job' \in [Targets -> JobRows]
   BY <1>1, <1>2 DEF RestTypes, JobRows
<1>. QED
   BY <1>2, <1>4, <1>5, Reassemble

\* Every request of a user keeps it.
LEMMA UserStepKeeps ==
    ASSUME IInv, NEW t \in Targets, UserStep(t) PROVE IInv'
BY CreateKeeps, UpdateKeeps, DeleteKeeps, ManualRefreshKeeps, RetryKeeps, CancelJobKeeps
   DEF UserStep

-----------------------------------------------------------------------------
(* The worker of a refresh job                                               *)

\* What the goroutine of a claim may become, and what it knows then.
LEMMA WorkUpdates ==
    ASSUME NEW w \in WorkRows, CallKnows(w)
    PROVE  /\ \A pc \in {"claimed", "read", "done", "failed", "again"} :
                 /\ [w EXCEPT !.pc = pc] \in WorkRows
                 /\ w.pc # "off" => CallKnows([w EXCEPT !.pc = pc])
           /\ Idle \in WorkRows /\ CallKnows(Idle)
           /\ w.saw \in Nat /\ w.desired \in Nat
<1>1. ASSUME NEW pc \in {"claimed", "read", "done", "failed", "again"}
      PROVE  /\ [w EXCEPT !.pc = pc] \in WorkRows
             /\ w.pc # "off" => CallKnows([w EXCEPT !.pc = pc])
   <2>. DEFINE v == [w EXCEPT !.pc = pc]
   <2>1. v \in WorkRows /\ v.pc = pc /\ v.target = w.target /\ v.desired = w.desired /\ v.saw = w.saw
      BY DEF WorkRows
   <2>. HIDE DEF v
   <2>2. w.pc # "off" => CallKnows(v)
      BY <2>1 DEF CallKnows
   <2>. QED
      BY <2>1, <2>2 DEF v
<1>2. Idle \in WorkRows /\ CallKnows(Idle)
   <2>1. 0 \in 0..MaxRev /\ 0 \in 0..MaxAsked
      BY Bounds
   <2>. QED
      BY <2>1 DEF Idle, WorkRows, CallKnows
<1>3. w.saw \in Nat /\ w.desired \in Nat
   BY Bounds DEF WorkRows
<1>. QED
   BY <1>1, <1>2, <1>3

\* A step that writes one goroutine, and of the targets at most a status.
LEMMA GoroutineKeeps ==
    ASSUME IInv, UNCHANGED <<feed, dispatch, caller, player, left, reached>>,
           job' \in [Targets -> JobRows], NEW k \in Tokens,
           NEW w \in WorkRows, CallKnows(w), work' = [work EXCEPT ![k] = w],
           \/ target' = target
           \/ \E t \in Targets :
                \E status \in {"idle", "queued", "running", "retry_wait", "failed", "completed"} :
                   target' = [target EXCEPT ![t].status = status]
    PROVE  IInv'
<1>1. FeedInv /\ TargetInv /\ PlayerInv /\ WorkInv /\ RestTypes /\ left \in Budget
   BY Parts DEF RestTypes
<1>2. left.requests \in Nat /\ left'.requests \in Nat /\ left'.requests <= left.requests
   BY <1>1, LeftKeeps
<1>3. PlayerInv' /\ WorkInv'
   BY <1>1, PlayerSame, WorkOne
<1>4. TargetInv'
   <2>1. CASE target' = target
      BY <2>1, <1>1, <1>2, TargetSame
   <2>2. ASSUME NEW t \in Targets,
                NEW status \in {"idle", "queued", "running", "retry_wait", "failed", "completed"},
                target' = [target EXCEPT ![t].status = status]
         PROVE  TargetInv'
      <3>1. target[t] \in TargetRows
         BY <1>1 DEF TargetInv
      <3>2. target[t].linked \in BOOLEAN
         BY <3>1 DEF TargetRows
      <3>3. [target[t] EXCEPT !.linked = target[t].linked, !.status = status] = [target[t] EXCEPT !.status = status]
         BY <3>1 DEF TargetRows
      <3>4. target' = [target EXCEPT ![t] = [target[t] EXCEPT !.linked = target[t].linked, !.status = status]]
         BY <2>2, <3>3
      <3>. QED
         BY <3>2, <3>4, <1>1, <1>2, TargetStatus
   <2>. QED
      BY <2>1, <2>2
<1>5. caller' \in [Callers -> CallerRows]
   BY <1>1 DEF RestTypes
<1>. QED
   BY <1>3, <1>4, <1>5, Reassemble

\* A claim starts a goroutine that knows nothing yet.
LEMMA ClaimKeeps ==
    ASSUME IInv, NEW t \in Targets, Claim(t) PROVE IInv'
<1>1. WorkInv /\ RestTypes
   BY Parts
<1>2. PICK k \in FirstOf(Free, 1) :
          /\ job' = [job EXCEPT ![t] = [status |-> "running", lease |-> k, behind |-> FALSE,
                                        attempts |-> Smaller(@.attempts + 1, MaxAttempts)]]
          /\ work' = [work EXCEPT ![k] = [Idle EXCEPT !.target = t, !.pc = "claimed"]]
   BY DEF Claim
<1>3. k \in Tokens
   BY DEF FirstOf, Free
<1>. DEFINE w == [Idle EXCEPT !.target = t, !.pc = "claimed"]
<1>4. w \in WorkRows /\ CallKnows(w)
   <2>1. 0 \in 0..MaxRev /\ 0 \in 0..MaxAsked
      BY Bounds
   <2>2. w \in WorkRows /\ w.target = t /\ w.pc = "claimed" /\ w.desired = 0
      BY <2>1 DEF Idle, WorkRows
   <2>. QED
      BY <2>2 DEF CallKnows
<1>5. job' \in [Targets -> JobRows]
   <2>1. job \in [Targets -> JobRows] /\ job[t].attempts \in 0..MaxAttempts
      BY <1>1 DEF RestTypes, JobRows
   <2>2. Smaller(job[t].attempts + 1, MaxAttempts) \in 0..MaxAttempts
      BY <2>1, AttemptsAssumption DEF Smaller
   <2>3. [status |-> "running", lease |-> k, behind |-> FALSE,
          attempts |-> Smaller(job[t].attempts + 1, MaxAttempts)] \in JobRows
      BY <2>2, <1>3 DEF JobRows, Live
   <2>. QED
      BY <2>1, <2>3, <1>2
<1>6. UNCHANGED <<feed, dispatch, target, caller, player, left, reached>>
   BY DEF Claim
<1>7. work' = [work EXCEPT ![k] = w]
   BY <1>2
<1>. HIDE DEF w
<1>. QED
   BY <1>3, <1>4, <1>5, <1>6, <1>7, GoroutineKeeps

\* A goroutine reads a desired revision, which is ready, before it calls.
LEMMA ReadTargetKeeps ==
    ASSUME IInv, NEW k \in Tokens, ReadTarget(k) PROVE IInv'
<1>1. TargetInv /\ WorkInv /\ RestTypes /\ work[k] \in WorkRows /\ CallKnows(work[k])
   BY Parts DEF WorkInv
<1>2. /\ UNCHANGED <<feed, dispatch, target, job, caller, player, left, reached>>
      /\ work[k].pc = "claimed"
   BY DEF ReadTarget, At
<1>. DEFINE t == work[k].target
<1>3. t \in Targets
   BY <1>1, <1>2 DEF CallKnows
<1>4. job' \in [Targets -> JobRows]
   BY <1>1, <1>2 DEF RestTypes
<1>5. CASE Enabled(t) /\ Behind(t)
   <2>. DEFINE w == [work[k] EXCEPT !.pc = "read", !.desired = target[t].desired,
                                    !.manual = target[t].manual]
   <2>1. work' = [work EXCEPT ![k] = w]
      <3>1. work' = [work EXCEPT ![k].pc = "read", ![k].desired = target[t].desired,
                                 ![k].manual = target[t].manual]
         BY <1>5 DEF ReadTarget
      <3>. QED
         BY <3>1, <1>1 DEF WorkInv
   <2>2. target[t].desired \in 0..MaxRev /\ target[t].manual \in 0..MaxAsked
         /\ (target[t].desired # 0 => ready[target[t].desired] # 0)
      BY <1>1, <1>3 DEF TargetInv, TargetRows, TargetsReady
   <2>3. w \in WorkRows /\ w.pc = "read" /\ w.desired = target[t].desired /\ w.target = t
      BY <2>2, <1>1 DEF WorkRows
   <2>. HIDE DEF w
   <2>4. CallKnows(w)
      BY <2>2, <2>3, <1>3 DEF CallKnows
   <2>. QED
      BY <2>1, <2>3, <2>4, <1>2, <1>4, GoroutineKeeps
<1>6. CASE ~ (Enabled(t) /\ Behind(t))
   <2>1. work' = [work EXCEPT ![k] = [work[k] EXCEPT !.pc = "done"]]
      BY <1>1, <1>6 DEF ReadTarget, Goto, WorkInv
   <2>2. [work[k] EXCEPT !.pc = "done"] \in WorkRows /\ CallKnows([work[k] EXCEPT !.pc = "done"])
      BY <1>1, <1>2, WorkUpdates
   <2>. QED
      BY <2>1, <2>2, <1>2, <1>4, GoroutineKeeps
<1>. QED
   BY <1>5, <1>6

\* The call begins after everything that is ready by now.
LEMMA StartCallKeeps ==
    ASSUME IInv, NEW k \in Tokens, StartCall(k) PROVE IInv'
<1>1. FeedInv /\ TargetInv /\ WorkInv /\ RestTypes /\ work[k] \in WorkRows /\ CallKnows(work[k])
   BY Parts DEF WorkInv
<1>2. /\ UNCHANGED <<feed, dispatch, job, caller, player, left, reached>>
      /\ work[k].pc = "read"
   BY DEF StartCall, At
<1>. DEFINE t == work[k].target
<1>3. t \in Targets
   BY <1>1, <1>2 DEF CallKnows
<1>4. job' \in [Targets -> JobRows]
   BY <1>1, <1>2 DEF RestTypes
<1>5. CASE Present(t)
   <2>. DEFINE w == [work[k] EXCEPT !.pc = "calling", !.saw = Readied]
   <2>1. work' = [work EXCEPT ![k] = w] /\ target' = [target EXCEPT ![t].status = "running"]
      <3>1. work' = [work EXCEPT ![k].pc = "calling", ![k].saw = Readied]
            /\ target' = [target EXCEPT ![t].status = "running"]
         BY <1>5 DEF StartCall
      <3>. QED
         BY <3>1, <1>1 DEF WorkInv
   <2>2. Readied \in Nat /\ Readied \in 0..MaxRev
      BY <1>1, ReadiedType, Bounds DEF FeedInv, FeedTypes
   <2>3. w \in WorkRows /\ w.pc = "calling" /\ w.desired = work[k].desired /\ w.target = t
         /\ w.saw = Readied
      BY <2>2, <1>1 DEF WorkRows
   <2>. HIDE DEF w
   <2>4. w.desired # 0 => ready[w.desired] # 0 /\ ready[w.desired] <= Readied
      <3>1. work[k].desired # 0 => work[k].desired \in Revs /\ ready[work[k].desired] # 0
         BY <1>1, Bounds DEF WorkRows, CallKnows, Revs
      <3>. QED
         BY <3>1, <2>3, <1>1 DEF FeedInv, ReadyKnown
   <2>5. CallKnows(w)
      BY <2>3, <2>4, <1>3 DEF CallKnows
   <2>. QED
      BY <2>1, <2>3, <2>5, <1>2, <1>3, <1>4, GoroutineKeeps
<1>6. CASE ~ Present(t)
   <2>1. work' = [work EXCEPT ![k] = [work[k] EXCEPT !.pc = "failed"]] /\ target' = target
      BY <1>1, <1>6 DEF StartCall, Goto, WorkInv
   <2>2. [work[k] EXCEPT !.pc = "failed"] \in WorkRows /\ CallKnows([work[k] EXCEPT !.pc = "failed"])
      BY <1>1, <1>2, WorkUpdates
   <2>. QED
      BY <2>1, <2>2, <1>2, <1>4, GoroutineKeeps
<1>. QED
   BY <1>5, <1>6

\* An accepted call only adds to what was reached.
LEMMA AcceptedKeeps ==
    ASSUME IInv, NEW k \in Tokens, Accepted(k) PROVE IInv'
<1>1. /\ FeedInv /\ TargetInv /\ PlayerInv /\ WorkInv /\ RestTypes /\ left \in Budget
      /\ work[k] \in WorkRows /\ CallKnows(work[k])
   BY Parts DEF WorkInv, RestTypes
<1>. DEFINE t == work[k].target
            w == [work[k] EXCEPT !.pc = "accepted"]
<1>2. /\ UNCHANGED <<feed, dispatch, target, job, caller, player, left>>
      /\ work[k].pc = "calling" /\ work' = [work EXCEPT ![k] = w]
      /\ reached' = [reached EXCEPT ![t] = Larger(reached[t], work[k].saw)]
   BY <1>1 DEF Accepted, At, Goto, WorkInv
<1>3. t \in Targets
   BY <1>1, <1>2 DEF CallKnows
<1>4. /\ work[k].saw \in Nat /\ work[k].saw \in 0..MaxRev
      /\ reached \in [Targets -> 0..MaxRev] /\ \A s \in Targets : reached[s] \in Nat
   BY <1>1, Bounds DEF WorkRows, TargetInv
<1>5. /\ Larger(reached[t], work[k].saw) \in {reached[t], work[k].saw}
      /\ reached[t] <= Larger(reached[t], work[k].saw)
      /\ work[k].saw <= Larger(reached[t], work[k].saw)
   BY <1>3, <1>4, LargerOf
<1>6. reached' \in [Targets -> 0..MaxRev]
   <2>1. Larger(reached[t], work[k].saw) \in 0..MaxRev
      BY <1>3, <1>4, <1>5
   <2>. QED
      BY <2>1, <1>2, <1>3, <1>4
<1>7. /\ \A s \in Targets : reached'[s] \in Nat /\ reached[s] <= reached'[s]
      /\ work[k].saw <= reached'[t]
   <2>1. \A s \in Targets : reached'[s] = IF s = t THEN Larger(reached[t], work[k].saw) ELSE reached[s]
      BY <1>2, <1>3, <1>4
   <2>2. \A s \in Targets : reached'[s] \in Nat
      BY <1>6, Bounds
   <2>. HIDE DEF t
   <2>. QED
      BY <2>1, <2>2, <1>3, <1>4, <1>5
<1>8. TargetInv'
   <2>1. RefreshedIsTrue'
      <3>1. ASSUME NEW s \in Targets, target[s].success > 0
            PROVE  ready[target[s].success] \in 1..reached'[s]
         <4>1. ready[target[s].success] \in 1..reached[s]
            BY <3>1, <1>1 DEF TargetInv, RefreshedIsTrue
         <4>. QED
            BY <4>1, <1>4, <1>7
      <3>. QED
         BY <3>1, <1>2 DEF RefreshedIsTrue, feed
   <2>2. NewestReachesTargets'
      BY <1>1, <1>2 DEF TargetInv, NewestReachesTargets, NewestRetained, LatestReady, Ready,
                        Enabled, Present, feed
   <2>3. AskedRoom' /\ MarkerReady' /\ TargetsReady'
      BY <1>1, <1>2 DEF TargetInv, AskedRoom, MarkerReady, TargetsReady, feed
   <2>. QED
      BY <2>1, <2>2, <2>3, <1>1, <1>2, <1>6 DEF TargetInv
<1>9. WorkInv'
   <2>1. w \in WorkRows /\ w.pc = "accepted" /\ w.target = t /\ w.saw = work[k].saw
         /\ w.desired = work[k].desired
      BY <1>1 DEF WorkRows
   <2>2. work' \in [Tokens -> WorkRows]
      BY <2>1, <1>1, <1>2 DEF WorkInv
   <2>3. ASSUME NEW j \in Tokens PROVE CallKnows(work[j])'
      <3>1. CASE j = k
         <4>1. work'[j] = w
            BY <3>1, <1>1, <1>2 DEF WorkInv
         <4>. QED
            BY <4>1, <2>1, <1>1, <1>2, <1>3, <1>7 DEF CallKnows, feed
      <3>2. CASE j # k
         <4>1. work'[j] = work[j] /\ work[j] \in WorkRows /\ CallKnows(work[j])
            BY <3>2, <1>1, <1>2 DEF WorkInv
         <4>2. work[j].pc = "accepted" => work[j].target \in Targets /\ work[j].saw <= reached'[work[j].target]
            <5>1. work[j].saw \in Nat
               BY <4>1, Bounds DEF WorkRows
            <5>. QED
               BY <5>1, <4>1, <1>4, <1>7 DEF CallKnows
         <4>. QED
            BY <4>1, <4>2, <1>2 DEF CallKnows, feed
      <3>. QED
         BY <3>1, <3>2
   <2>. QED
      BY <2>2, <2>3 DEF WorkInv
<1>10. PlayerInv'
   BY <1>1, <1>2, PlayerSame
<1>11. job' \in [Targets -> JobRows] /\ caller' \in [Callers -> CallerRows]
   BY <1>1, <1>2 DEF RestTypes
<1>. QED
   BY <1>2, <1>8, <1>9, <1>10, <1>11, Reassemble

\* A refused call stores no success.
LEMMA RefusedKeeps ==
    ASSUME IInv, NEW k \in Tokens, Refused(k) PROVE IInv'
<1>1. TargetInv /\ WorkInv /\ RestTypes /\ work[k] \in WorkRows /\ CallKnows(work[k])
   BY Parts DEF WorkInv
<1>2. /\ UNCHANGED <<feed, dispatch, job, caller, player, left, reached>>
      /\ work[k].pc = "calling"
   BY DEF Refused, At
<1>. DEFINE t == work[k].target
<1>3. PICK again \in BOOLEAN :
          /\ Goto(k, IF again THEN "again" ELSE "failed")
          /\ target' = IF Present(t)
                       THEN [target EXCEPT ![t].status = IF again THEN "retry_wait" ELSE "failed"]
                       ELSE target
   BY DEF Refused
<1>4. t \in Targets
   BY <1>1, <1>2 DEF CallKnows
<1>5. job' \in [Targets -> JobRows]
   BY <1>1, <1>2 DEF RestTypes
<1>6. PICK pc \in {"again", "failed"} : work' = [work EXCEPT ![k] = [work[k] EXCEPT !.pc = pc]]
   BY <1>1, <1>3 DEF Goto, WorkInv
<1>7. [work[k] EXCEPT !.pc = pc] \in WorkRows /\ CallKnows([work[k] EXCEPT !.pc = pc])
   BY <1>1, <1>2, WorkUpdates
<1>8. \/ target' = target
      \/ \E status \in {"idle", "queued", "running", "retry_wait", "failed", "completed"} :
            target' = [target EXCEPT ![t].status = status]
   BY <1>3
<1>. QED
   BY <1>2, <1>4, <1>5, <1>6, <1>7, <1>8, GoroutineKeeps

\* What is stored is what the goroutine read before the call, which the history
\* says the call came after.
LEMMA StoreResultKeeps ==
    ASSUME IInv, NEW k \in Tokens, StoreResult(k) PROVE IInv'
<1>1. /\ FeedInv /\ TargetInv /\ PlayerInv /\ WorkInv /\ RestTypes /\ left \in Budget
      /\ work[k] \in WorkRows /\ CallKnows(work[k])
   BY Parts DEF WorkInv, RestTypes
<1>2. /\ UNCHANGED <<feed, dispatch, job, caller, player, left, reached>>
      /\ work[k].pc = "accepted"
   BY DEF StoreResult, At
<1>. DEFINE t == work[k].target
<1>3. t \in Targets
   BY <1>1, <1>2 DEF CallKnows
<1>4. job' \in [Targets -> JobRows] /\ caller' \in [Callers -> CallerRows]
   BY <1>1, <1>2 DEF RestTypes
<1>5. CASE ~ Present(t)
   <2>1. work' = [work EXCEPT ![k] = [work[k] EXCEPT !.pc = "failed"]] /\ target' = target
      BY <1>1, <1>5 DEF StoreResult, Goto, WorkInv
   <2>2. [work[k] EXCEPT !.pc = "failed"] \in WorkRows /\ CallKnows([work[k] EXCEPT !.pc = "failed"])
      BY <1>1, <1>2, WorkUpdates
   <2>. QED
      BY <2>1, <2>2, <1>2, <1>4, GoroutineKeeps
<1>6. CASE Present(t)
   <2>1. work' = [work EXCEPT ![k] = [work[k] EXCEPT !.pc = "done"]]
         /\ target' = [target EXCEPT ![t] = Covered(k)]
      BY <1>1, <1>6 DEF StoreResult, Goto, WorkInv
   <2>2. [work[k] EXCEPT !.pc = "done"] \in WorkRows /\ CallKnows([work[k] EXCEPT !.pc = "done"])
      BY <1>1, <1>2, WorkUpdates
   <2>3. WorkInv'
      BY <2>1, <2>2, <1>1, <1>2, WorkOne
   <2>. DEFINE s == Larger(target[t].success, work[k].desired)
               m == Larger(target[t].manualOk, work[k].manual)
   <2>4. target[t] \in TargetRows
      BY <1>1, <1>3 DEF TargetInv
   <2>5. /\ target[t].success \in Nat /\ target[t].success \in 0..MaxRev
         /\ target[t].manualOk \in Nat /\ target[t].manualOk \in 0..MaxAsked
         /\ work[k].desired \in Nat /\ work[k].desired \in 0..MaxRev
         /\ work[k].manual \in Nat /\ work[k].manual \in 0..MaxAsked
         /\ work[k].saw \in Nat /\ reached[t] \in Nat
         /\ target[t].manual \in Nat /\ target[t].desired \in Nat
      BY <2>4, <1>1, <1>3, Bounds DEF TargetRows, WorkRows, TargetInv
   <2>6. /\ s \in {target[t].success, work[k].desired} /\ s \in 0..MaxRev
         /\ m \in {target[t].manualOk, work[k].manual} /\ m \in 0..MaxAsked
      <3>1. s \in {target[t].success, work[k].desired} /\ m \in {target[t].manualOk, work[k].manual}
         BY <2>5, LargerOf
      <3>. QED
         BY <3>1, <2>5
   <2>. DEFINE row == [target[t] EXCEPT !.success = s, !.manualOk = m, !.status = "completed"]
   <2>7. target' = [target EXCEPT ![t] = row]
      BY <2>1 DEF Covered
   <2>. HIDE DEF s, m
   <2>8. /\ row \in TargetRows /\ row.success = s /\ row.desired = target[t].desired
         /\ row.manual = target[t].manual /\ row.state = target[t].state
         /\ row.enabled = target[t].enabled
      BY <2>4, <2>6 DEF TargetRows
   <2>. HIDE DEF row
   <2>9. row.success > 0 => ready[row.success] \in 1..reached[t]
      <3>1. ASSUME target[t].success > 0 PROVE ready[target[t].success] \in 1..reached[t]
         BY <3>1, <1>1, <1>3 DEF TargetInv, RefreshedIsTrue
      <3>2. ASSUME work[k].desired > 0 PROVE ready[work[k].desired] \in 1..reached[t]
         <4>1. work[k].desired \in Revs /\ work[k].desired # 0
            BY <3>2, <2>5, Bounds DEF Revs
         <4>2. ready[work[k].desired] # 0 /\ ready[work[k].desired] <= work[k].saw
               /\ work[k].saw <= reached[t]
            BY <4>1, <1>1, <1>2 DEF CallKnows
         <4>3. ready[work[k].desired] \in Nat
            BY <4>1, <1>1, Bounds DEF FeedInv, FeedTypes
         <4>. QED
            BY <4>2, <4>3, <2>5
      <3>. QED
         BY <3>1, <3>2, <2>6, <2>8
   <2>10. left.requests \in Nat /\ left'.requests \in Nat /\ left'.requests <= left.requests
      BY <1>1, <1>2, LeftKeeps
   <2>11. /\ row.manual + left'.requests <= MaxAsked
          /\ row.desired # 0 => ready[row.desired] # 0
          /\ row.state = "present" /\ row.enabled => Enabled(t) /\ target[t].desired <= row.desired
      BY <2>5, <2>8, <1>1, <1>2, <1>3
         DEF TargetInv, AskedRoom, TargetsReady, Enabled, Present
   <2>12. TargetInv'
      BY <2>7, <2>8, <2>9, <2>10, <2>11, <1>1, <1>2, <1>3, TargetOne
   <2>13. PlayerInv'
      BY <1>1, <1>2, PlayerSame
   <2>. QED
      BY <2>3, <2>12, <2>13, <1>2, <1>4, Reassemble
<1>. QED
   BY <1>5, <1>6

\* Finishing the job of a stored result keeps it.
LEMMA FinishKeeps ==
    ASSUME IInv, NEW k \in Tokens, Finish(k) PROVE IInv'
<1>1. WorkInv /\ RestTypes /\ work[k] \in WorkRows /\ CallKnows(work[k])
   BY Parts DEF WorkInv
<1>2. /\ UNCHANGED <<feed, dispatch, target, caller, player, left, reached>>
      /\ work' = [work EXCEPT ![k] = Idle] /\ work[k].pc # "off"
      /\ job' = IF Holds(k)
                THEN [job EXCEPT ![work[k].target].status = Finished(k),
                                 ![work[k].target].lease = 0]
                ELSE job
   BY DEF Finish
<1>3. Finished(k) \in {"retry_wait", "failed", "queued", "completed"}
   BY DEF Finished
<1>4. work[k].target \in Targets
   BY <1>1, <1>2 DEF CallKnows
<1>5. job' \in [Targets -> JobRows]
   <2>1. job \in [Targets -> JobRows]
      BY <1>1 DEF RestTypes
   <2>. QED
      BY <2>1, <1>2, <1>3, <1>4 DEF JobRows, Live
<1>6. Idle \in WorkRows /\ CallKnows(Idle)
   BY <1>1, WorkUpdates
<1>. QED
   BY <1>2, <1>5, <1>6, GoroutineKeeps

\* Every step of a goroutine keeps it.
LEMMA WorkerStepKeeps ==
    ASSUME IInv, NEW k \in Tokens, WorkerStep(k) PROVE IInv'
BY ReadTargetKeeps, StartCallKeeps, AcceptedKeeps, RefusedKeeps, StoreResultKeeps, FinishKeeps
   DEF WorkerStep

-----------------------------------------------------------------------------
(* Faults                                                                    *)

\* A crash loses goroutines and callers, and keeps it.
LEMMA CrashKeeps ==
    ASSUME IInv, Crash PROVE IInv'
<1>1. FeedInv /\ TargetInv /\ PlayerInv /\ WorkInv /\ RestTypes /\ left \in Budget
   BY Parts DEF RestTypes
<1>2. /\ Spend("faults") /\ UNCHANGED <<feed, dispatch, target, job, reached>>
      /\ work' = [k \in Tokens |-> Idle] /\ caller' = [c \in Callers |-> Nobody]
      /\ player' = [player EXCEPT !.pc = "idle"]
   BY DEF Crash
<1>3. left.requests \in Nat /\ left'.requests \in Nat /\ left'.requests <= left.requests
   BY <1>1, <1>2, LeftKeeps
<1>4. TargetInv'
   BY <1>1, <1>2, <1>3, TargetSame
<1>5. PlayerInv'
   <2>1. /\ player' \in PlayerRows /\ player'.cursor = player.cursor
         /\ player'.latest = player.latest /\ player'.told = player.told
      BY <1>1, <1>2 DEF PlayerInv, PlayerRows
   <2>. QED
      BY <2>1, <1>1, <1>2 DEF PlayerInv, PlayerBehind, FeedTellsEverything, Ready, feed
<1>6. WorkInv'
   <2>1. Idle \in WorkRows
      <3>1. 0 \in 0..MaxRev /\ 0 \in 0..MaxAsked
         BY Bounds
      <3>. QED
         BY <3>1 DEF Idle, WorkRows
   <2>2. \A k \in Tokens : CallKnows(work[k])'
      BY <1>2 DEF CallKnows, Idle
   <2>. QED
      BY <2>1, <2>2, <1>2 DEF WorkInv
<1>7. job' \in [Targets -> JobRows] /\ caller' \in [Callers -> CallerRows]
   BY <1>1, <1>2, CallerUpdates DEF RestTypes
<1>. QED
   BY <1>2, <1>4, <1>5, <1>6, <1>7, Reassemble

\* A lease that runs out, with or without a goroutine, keeps it.
LEMMA ExpiryKeeps ==
    ASSUME IInv, NEW t \in Targets, OrphanExpires(t) \/ KeepaliveMissed(t) PROVE IInv'
<1>1. FeedInv /\ TargetInv /\ PlayerInv /\ WorkInv /\ RestTypes /\ left \in Budget
   BY Parts DEF RestTypes
<1>2. /\ left' = left \/ Spend("faults")
      /\ UNCHANGED <<feed, dispatch, target, work, caller, player, reached>>
      /\ \E status \in {"retry_wait", "failed"} :
            job' = [job EXCEPT ![t].status = status, ![t].lease = 0]
   BY DEF OrphanExpires, KeepaliveMissed, ExpireLease
<1>3. left.requests \in Nat /\ left'.requests \in Nat /\ left'.requests <= left.requests
   BY <1>1, <1>2, LeftKeeps
<1>4. TargetInv' /\ PlayerInv' /\ WorkInv'
   BY <1>1, <1>2, <1>3, TargetSame, PlayerSame, WorkSame
<1>5. job' \in [Targets -> JobRows] /\ caller' \in [Callers -> CallerRows]
   <2>1. PICK status \in {"retry_wait", "failed"} :
            job' = [job EXCEPT ![t].status = status, ![t].lease = 0]
      BY <1>2
   <2>2. job \in [Targets -> JobRows] /\ status \in Live \cup {"none", "completed", "failed", "cancelled"}
      BY <1>1 DEF RestTypes, Live
   <2>3. job' \in [Targets -> JobRows]
      BY <2>1, <2>2 DEF JobRows
   <2>. QED
      BY <2>3, <1>1, <1>2 DEF RestTypes
<1>6. left' = left \/ \E f \in {"polls", "requests", "faults"} : Spend(f)
   BY <1>2
<1>. QED
   BY <1>2, <1>4, <1>5, <1>6, Reassemble

-----------------------------------------------------------------------------
(* The theorems                                                              *)

\* The initial states satisfy the inductive invariant.
LEMMA InitInv == Init => IInv
<1>. SUFFICES ASSUME Init PROVE IInv
   OBVIOUS
<1>1. left \in Budgets /\ left \in Budget
   BY BudgetsAssumption DEF Init
<1>2. /\ MaxRev \in Nat /\ MaxGen \in Nat \ {0} /\ MaxAsked \in Nat
      /\ left.changes <= MaxRev /\ 1 + left.scans <= MaxGen /\ left.requests <= MaxAsked
      /\ left.changes \in Nat /\ left.scans \in Nat /\ left.requests \in Nat
   BY <1>1, Bounds DEF Budget
<1>3. rows = {} /\ Pending = {} /\ Ready = {}
   BY DEF Init, Pending, Ready
<1>4. FeedInv
   <2>1. lib = [rev |-> 0, gen |-> 1, seq |-> 0] /\ cleanup = NoCleanup /\ stood = 0
         /\ ready = [r \in Revs |-> 0]
      BY DEF Init
   <2>2. 0 \in 0..MaxRev /\ 1 \in 1..MaxGen /\ 0 \in 0..(2 * MaxRev) /\ 0 \in 0..MaxGen
      BY <1>2
   <2>3. FeedTypes
      BY <2>1, <2>2, <1>3 DEF FeedTypes, NoCleanup
   <2>4. RoomLeft
      <3>1. IsFiniteSet({}) /\ Cardinality({}) = 0
         BY FS_EmptySet
      <3>2. lib.rev = 0 /\ lib.gen = 1 /\ lib.seq = 0
         BY <2>1
      <3>. QED
         BY <3>1, <3>2, <1>2, <1>3 DEF RoomLeft
   <2>5. FeedOrdered /\ CleanupSound
      BY <2>1, <1>3 DEF FeedOrdered, CleanupSound, NoCleanup
   <2>6. ReadyKnown
      <3>1. Readied \in Nat
         BY <2>3, ReadiedType DEF FeedTypes
      <3>. QED
         BY <3>1, <2>1, <1>3 DEF ReadyKnown
   <2>. QED
      BY <2>3, <2>4, <2>5, <2>6 DEF FeedInv
<1>5. TargetInv
   <2>1. 0 \in 0..MaxRev /\ 0 \in 0..MaxAsked
      BY <1>2
   <2>2. \A t \in Targets : /\ target[t] \in TargetRows /\ target[t].manual = 0
                            /\ target[t].desired = 0 /\ target[t].success = 0
      BY <2>1 DEF Init, Unborn, TargetRows
   <2>3. target \in [Targets -> TargetRows]
      BY <2>2 DEF Init
   <2>4. dispatch \in MarkerRows /\ dispatch.rev = 0 /\ reached \in [Targets -> 0..MaxRev]
      BY <2>1 DEF Init, NoMarker, MarkerRows
   <2>5. AskedRoom
      BY <2>2, <1>2 DEF AskedRoom
   <2>6. LatestReady = 0
      <3>1. {c.rev : c \in Ready} = {}
         BY <1>3
      <3>2. Largest({}) \in {} \cup {0}
         <4>1. {} \in SUBSET Nat /\ IsFiniteSet({})
            BY FS_EmptySet
         <4>. QED
            BY <4>1, LargestOf
      <3>. QED
         BY <3>1, <3>2 DEF LatestReady
   <2>7. NewestReachesTargets
      BY <2>2, <2>6 DEF NewestReachesTargets
   <2>. QED
      BY <2>2, <2>3, <2>4, <2>5, <2>7 DEF TargetInv, MarkerReady, TargetsReady, RefreshedIsTrue
<1>6. PlayerInv
   <2>1. player = [cursor |-> 0, pc |-> "idle", latest |-> 0, told |-> {}] /\ lib.seq = 0
      BY DEF Init
   <2>2. 0 \in 0..(2 * MaxRev)
      BY <1>2
   <2>. QED
      BY <2>1, <2>2, <1>3 DEF PlayerInv, PlayerRows, PlayerBehind, FeedTellsEverything
<1>7. WorkInv
   <2>1. 0 \in 0..MaxRev /\ 0 \in 0..MaxAsked
      BY <1>2
   <2>2. Idle \in WorkRows /\ \A k \in Tokens : work[k] = Idle
      BY <2>1 DEF Init, Idle, WorkRows
   <2>. QED
      BY <2>2 DEF Init, WorkInv, CallKnows, Idle
<1>8. RestTypes
   <2>1. 0 \in 0..MaxAttempts
      BY AttemptsAssumption
   <2>2. NoJob \in JobRows /\ Nobody \in CallerRows
      BY <2>1 DEF NoJob, JobRows, Nobody, CallerRows
   <2>. QED
      BY <2>2, <1>1 DEF Init, RestTypes
<1>. QED
   BY <1>4, <1>5, <1>6, <1>7, <1>8, Parts

\* So does a step that changes nothing.
LEMMA StutterKeeps == ASSUME IInv, UNCHANGED vars PROVE IInv'
<1>1. FeedInv /\ TargetInv /\ PlayerInv /\ WorkInv /\ RestTypes /\ left \in Budget
   BY Parts DEF RestTypes
<1>2. /\ UNCHANGED <<feed, dispatch, target, job, work, caller, player, left, reached>>
   BY DEF vars, feed
<1>3. left.requests \in Nat /\ left'.requests \in Nat /\ left'.requests <= left.requests
   BY <1>1, <1>2, LeftKeeps
<1>4. TargetInv' /\ PlayerInv' /\ WorkInv'
   BY <1>1, <1>2, <1>3, TargetSame, PlayerSame, WorkSame
<1>5. job' \in [Targets -> JobRows] /\ caller' \in [Callers -> CallerRows]
   BY <1>1, <1>2 DEF RestTypes
<1>. QED
   BY <1>2, <1>4, <1>5, Reassemble

\* Every step keeps the inductive invariant.
LEMMA NextInv == IInv /\ [Next]_vars => IInv'
<1>. SUFFICES ASSUME IInv, [Next]_vars PROVE IInv'
   OBVIOUS
<1>1. CASE FeedStep
   BY <1>1, FeedStepKeeps
<1>2. CASE PollReads \/ PollFinds
   BY <1>2, PollKeeps
<1>3. CASE DispatchBatch
   BY <1>3, DispatchKeeps
<1>4. CASE Recover
   BY <1>4, RecoverKeeps
<1>5. CASE \E c \in Callers, t \in Targets : Insert(c, t)
   BY <1>5, InsertKeeps
<1>6. CASE \E c \in Callers : Link(c)
   BY <1>6, LinkKeeps
<1>7. CASE \E t \in Targets : UserStep(t) \/ Claim(t) \/ OrphanExpires(t) \/ KeepaliveMissed(t)
   BY <1>7, UserStepKeeps, ClaimKeeps, ExpiryKeeps
<1>8. CASE \E k \in Tokens : WorkerStep(k)
   BY <1>8, WorkerStepKeeps
<1>9. CASE Crash
   BY <1>9, CrashKeeps
<1>10. CASE UNCHANGED vars
   BY <1>10, StutterKeeps
<1>. QED
   BY <1>1, <1>2, <1>3, <1>4, <1>5, <1>6, <1>7, <1>8, <1>9, <1>10 DEF Next, FeedStep

\* The inductive invariant holds in every reachable state, for any targets, kinds
\* of change, batch, tokens and budgets.
THEOREM SpecInv == Spec => []IInv
BY InitInv, NextInv, PTL DEF Spec

\* All state is of its type, within the bounds the budgets give, and no two
\* changes share a sequence or a revision.
THEOREM SpecTypeOK == Spec => []TypeOK
<1>1. IInv => TypeOK
   BY DEF IInv
<1>. QED
   BY <1>1, SpecInv, PTL

\* ReadyAfter and PlayerMediaChanges skip nothing: what is ready up to the cursor
\* a player holds was told to it, whatever became ready late or was pruned.
THEOREM SpecFeedTellsEverything == Spec => []FeedTellsEverything
<1>1. IInv => FeedTellsEverything
   BY DEF IInv
<1>. QED
   BY <1>1, SpecInv, PTL

\* advanceTargetsTx, DispatchBatch, Create and Update together bring the newest
\* ready revision to every enabled target, or the marker is still on its way.
THEOREM SpecNewestReachesTargets == Spec => []NewestReachesTargets
<1>1. IInv => NewestReachesTargets
   BY DEF IInv
<1>. QED
   BY <1>1, SpecInv, PTL

\* A target's last_success_revision was ready before a call began that the media
\* server accepted.
THEOREM SpecRefreshedIsTrue == Spec => []RefreshedIsTrue
<1>1. IInv => RefreshedIsTrue
   BY DEF IInv
<1>. QED
   BY <1>1, SpecInv, PTL

\* A step that takes the revision of a pending change out of the feed is one of
\* CleanupPendingBatch, for a change that something newer stands for.
LEMMA VanishStep ==
    ASSUME IInv, Next, NEW c \in Pending, \A d \in rows' : d.rev # c.rev
    PROVE  c.rev < stood
<1>1. FeedInv /\ left \in Budget
   BY Parts DEF RestTypes
<1>2. c \in rows /\ c.state = "pending" /\ c \notin rows'
   BY DEF Pending
<1>3. ASSUME NEW S, Announceable(S), rows' = (rows \ S) \cup Published(S) PROVE FALSE
   <2>1. c \in S
      BY <1>2, <1>3
   <2>2. \E p \in Published(S) : p.rev = c.rev
      BY <2>1, <1>1, <1>3, PublishedIs DEF FeedInv
   <2>. QED
      BY <2>2, <1>3
<1>4. CASE FeedStep
   <2>1. CASE CleanupPending
      <3>1. c.seq <= cleanup.max
         BY <2>1, <1>1, <1>2, FeedCleanupPending
      <3>. QED
         BY <3>1, <1>1 DEF FeedInv, CleanupSound
   <2>2. ASSUME NEW kind \in left.kinds, Record(kind) PROVE FALSE
      <3>1. CASE RecordReady(kind)
         BY <3>1, <1>1, <1>3, FeedRecordReady DEF Announce
      <3>2. ASSUME NEW g, RecordPending(kind, g) PROVE FALSE
         BY <3>2, <1>2 DEF RecordPending
      <3>. QED
         BY <2>2, <3>1, <3>2 DEF Record
   <2>3. CASE EmptyScan
      BY <2>3, <1>2 DEF EmptyScan
   <2>4. CASE MarkGenerationReady
      BY <2>4, <1>1, <1>3, FeedMarkGenerationReady DEF Announce
   <2>5. CASE MarkBatchReady
      BY <2>5, <1>1, <1>3, FeedMarkBatchReady DEF Announce
   <2>6. CASE Prune
      <3>1. Pending' = Pending
         BY <2>6, <1>1, FeedPrune
      <3>. QED
         BY <3>1, <1>2 DEF Pending
   <2>. QED
      BY <1>4, <2>1, <2>2, <2>3, <2>4, <2>5, <2>6 DEF FeedStep
<1>5. CASE rows' = rows
   BY <1>2, <1>5
<1>6. FeedStep \/ rows' = rows
   BY DEF Next, FeedStep, PollReads, PollFinds, DispatchBatch, Recover, Insert, Link,
          UserStep, Create, Update, Delete, ManualRefresh, Retry, CancelJob, Untouched,
          Claim, OrphanExpires, KeepaliveMissed, ExpireLease, WorkerStep, ReadTarget,
          StartCall, Accepted, Refused, StoreResult, Finish, Crash, feed
<1>. QED
   BY <1>4, <1>5, <1>6

\* CleanupPendingBatch deletes nothing that no newer change, published for the
\* artifacts of a whole generation, stands for, and nothing else deletes at all.
THEOREM SpecNothingVanishes == Spec => NothingVanishes
<1>1. IInv /\ [Next]_vars =>
         [\A c \in Pending : (\A d \in rows' : d.rev # c.rev) => c.rev < stood]_vars
   BY VanishStep
<1>. QED
   BY <1>1, SpecInv, PTL DEF Spec, NothingVanishes

=============================================================================
