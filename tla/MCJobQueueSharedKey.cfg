\* Lost workers, with two jobs of one coalescing key and a policy that is raised.
SPECIFICATION QueueFairSpec
CONSTANTS
  j1 = j1
  j2 = j2
  t1 = t1
  t2 = t2
  NoToken = NoToken
  NoKey = NoKey
  NoResource = NoResource
  Jobs <- MCJobs
  Tokens <- MCTokens
  Types <- OneType
  JobType <- SameType
  TypeRank <- TypeOrder
  Priority <- SamePriority
  Resources <- OneResource
  Resource <- SharedResource
  Keys <- OneKey
  Key <- SharedKey
  ProviderControlled <- None
  Seeding <- None
  Downloads <- None
  Stages <- NoStages
  Retirable <- None
  Gated <- None
  Policies <- BothPolicies
  InitPolicy <- AllSmall
  MaxDelay = 0
  CountCap = 2
PROPERTY LostWorkerResumes
CHECK_DEADLOCK FALSE
