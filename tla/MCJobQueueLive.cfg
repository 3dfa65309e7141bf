\* Lost workers, with two jobs of one coalescing key, only one of which can be
\* active, and a policy that stays.
SPECIFICATION QueueFairSpec
CONSTANTS
  j1 = j1
  j2 = j2
  t1 = t1
  t2 = t2
  NoToken = NoToken
  NoKey = NoKey
  NoResource = NoResource
  Jobs <- MCJobs
  Tokens <- OneToken
  Types <- OneType
  JobType <- SameType
  TypeRank <- TypeOrder
  Priority <- SamePriority
  Resources <- OneResource
  Resource <- SharedResource
  Keys <- OneKey
  Key <- SharedKey
  ProviderControlled <- None
  Seeding <- None
  Downloads <- None
  Stages <- NoStages
  Retirable <- SecondJob
  Gated <- None
  Policies <- LargeOnly
  InitPolicy <- AllLarge
  MaxDelay = 1
  CountCap = 2
INVARIANT CompletedServesLatest
PROPERTY LostWorkerResumes
CHECK_DEADLOCK FALSE
