\* A download and its seeding job, both controlled by the provider.
SPECIFICATION QueueSpec
CONSTANTS
  j1 = j1
  j2 = j2
  t1 = t1
  t2 = t2
  NoToken = NoToken
  NoKey = NoKey
  NoResource = NoResource
  Jobs <- MCJobs
  Tokens <- MCTokens
  Types <- TwoTypes
  JobType <- MixedTypes
  TypeRank <- TypeOrder
  Priority <- SamePriority
  Resources <- OneResource
  Resource <- SharedResource
  Keys <- None
  Key <- NoKeys
  ProviderControlled <- MCJobs
  Seeding <- SecondJob
  Downloads <- FirstJob
  Stages <- StagesOfFirst
  Retirable <- None
  Gated <- None
  Policies <- LargeOnly
  InitPolicy <- AllLarge
  MaxDelay = 1
  CountCap = 2
SYMMETRY TokenSymmetry
INVARIANTS
  TypeOK
  LeaseMatchesRunning
  IntentIsAnswerable
  NoStrandedJob
  FinishedMeansTerminal
PROPERTIES
  IntentIsHonoured
  TerminalStays
CHECK_DEADLOCK FALSE
