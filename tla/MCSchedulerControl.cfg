\* A download that its provider controls, its retirement and the cancellation of its pipeline.
SPECIFICATION SchedFiniteSpec
CONSTANTS
  j1 = j1
  t1 = t1
  t2 = t2
  NoJob = NoJob
  NoToken = NoToken
  NoKey = NoKey
  NoResource = NoResource
  Jobs <- MCJobs
  Tokens <- OneToken
  Types <- OneType
  JobType <- TypeOfOne
  TypeRank <- RankOfOne
  Priority <- PriorityOfOne
  Resources <- None
  Resource <- NoResources
  Keys <- None
  Key <- NoKeys
  Interruptible <- MCJobs
  ProviderControlled <- MCJobs
  Seeding <- None
  Downloads <- MCJobs
  Stages <- StagesOfOne
  Retirable <- MCJobs
  Gated <- None
  Policies <- StrictOnly
  InitPolicy <- AllStrict
  MaxDelay = 0
  CountCap = 1
  Punctual = TRUE
  MaxFaults = 1
  MaxCalls = 2
INVARIANTS
  RegisteredHearsControl
PROPERTIES RunKeepsLease ControlAnswered
CHECK_DEADLOCK FALSE
