\* Coalesced requests, workers that are starved past their lease, and a scheduler that closes.
SPECIFICATION SchedFairSpec
CONSTANTS
  j1 = j1
  t1 = t1
  t2 = t2
  NoJob = NoJob
  NoToken = NoToken
  NoKey = NoKey
  NoResource = NoResource
  Jobs <- MCJobs
  Tokens <- MCTokens
  Types <- OneType
  JobType <- TypeOfOne
  TypeRank <- RankOfOne
  Priority <- PriorityOfOne
  Resources <- None
  Resource <- NoResources
  Keys <- Latest
  Key <- OneKey
  Interruptible <- None
  ProviderControlled <- None
  Seeding <- None
  Downloads <- None
  Stages <- NoStages
  Retirable <- None
  Gated <- None
  Policies <- LongerOnly
  InitPolicy <- AllLonger
  MaxDelay = 0
  CountCap = 1
  Punctual = FALSE
  MaxFaults = 2
  MaxCalls = 0
PROPERTIES
  ImplementsQueue
  LostRunStops
  CloseReturns
CHECK_DEADLOCK FALSE
