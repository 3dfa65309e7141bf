\* Two jobs of one lane while the policy and the readiness gate change.
SPECIFICATION QueueSpec
CONSTANTS
  j1 = j1
  j2 = j2
  t1 = t1
  t2 = t2
  NoToken = NoToken
  NoKey = NoKey
  NoResource = NoResource
  Jobs <- MCJobs
  Tokens <- MCTokens
  Types <- OneType
  JobType <- SameType
  TypeRank <- TypeOrder
  Priority <- SamePriority
  Resources <- OneResource
  Resource <- SharedResource
  Keys <- None
  Key <- NoKeys
  ProviderControlled <- None
  Seeding <- None
  Downloads <- None
  Stages <- NoStages
  Retirable <- None
  Gated <- SecondJob
  Policies <- TightPolicies
  InitPolicy <- AllExclusive
  MaxDelay = 0
  CountCap = 2
SYMMETRY TokenSymmetry
PROPERTIES
  GivenUpAfterEnoughLosses
  CapacityRespected
CHECK_DEADLOCK FALSE
