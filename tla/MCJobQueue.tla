---------------------------- MODULE MCJobQueue ----------------------------
(***************************************************************************)
(* Instances of JobQueue for TLC: two jobs on one resource, either a       *)
(* download and the seeding job that follows it, or two jobs of one lane.  *)
(***************************************************************************)
EXTENDS JobQueue, TLC

CONSTANTS j1, j2, t1, t2

\* The policies the instances choose from.
Small == [concurrency |-> 1, resourceConcurrency |-> 1, maxAttempts |-> 1,
          leaseTicks |-> 1]
Large == [concurrency |-> 2, resourceConcurrency |-> 0, maxAttempts |-> 2,
          leaseTicks |-> 1]

Exclusive == [concurrency |-> 2, resourceConcurrency |-> 1, maxAttempts |-> 2,
              leaseTicks |-> 1]

MCJobs == {j1, j2}
MCTokens == {t1, t2}
OneToken == {t1}
OneType == {"media_artifact"}
TwoTypes == {"download", "seeding"}
MixedTypes == (j1 :> "download") @@ (j2 :> "seeding")
SameType == [j \in MCJobs |-> "media_artifact"]
TypeOrder == [ty \in Types |-> IF ty = "seeding" THEN 2 ELSE 1]
SamePriority == [j \in MCJobs |-> 100]
OneResource == {"connection"}
SharedResource == [j \in MCJobs |-> "connection"]
OneKey == {"latest"}
NoKeys == [j \in MCJobs |-> NoKey]
SharedKey == [j \in MCJobs |-> "latest"]
FirstJob == {j1}
StagesOfFirst == j1 :> {j2}
NoStages == <<>>
SecondJob == {j2}
None == {}
BothPolicies == {Small, Large}
TightPolicies == {Small, Exclusive}
LargeOnly == {Large}
AllExclusive == [ty \in Types |-> Exclusive]
AllSmall == [ty \in Types |-> Small]
AllLarge == [ty \in Types |-> Large]

TokenSymmetry == Permutations(MCTokens)
=============================================================================
