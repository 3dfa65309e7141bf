---------------------------- MODULE MCScheduler ----------------------------
(***************************************************************************)
(* Instances of Scheduler for TLC: one job, which is enough for two claims *)
(* of it to overlap, and two tokens, one for each claim.                   *)
(***************************************************************************)
EXTENDS Scheduler, TLC

CONSTANTS j1, t1, t2

\* One lost lease is forgiven, or none; a lease lasts leaseTicks.
Brief  == [concurrency |-> 1, resourceConcurrency |-> 0, maxAttempts |-> 2,
           leaseTicks |-> 1]
Strict == [Brief EXCEPT !.maxAttempts = 1]
Longer == [Strict EXCEPT !.leaseTicks = 2]

MCJobs == {j1}
MCTokens == {t1, t2}
OneToken == {t1}
OneType == {"type"}
TypeOfOne == j1 :> "type"
RankOfOne == "type" :> 1
PriorityOfOne == j1 :> 100
NoResources == j1 :> NoResource
NoKeys == j1 :> NoKey
OneKey == j1 :> "latest"
Latest == {"latest"}
None == {}
NoStages == <<>>
StagesOfOne == j1 :> {}
BriefOnly == {Brief}
AllBrief == "type" :> Brief
StrictOnly == {Strict}
AllStrict == "type" :> Strict
LongerOnly == {Longer}
AllLonger == "type" :> Longer

TokenSymmetry == Permutations(MCTokens)
=============================================================================
