SPECIFICATION FairSpec
CONSTANTS
    Targets = {1}
    Kinds <- Two
    Batch = 1
    MaxAttempts = 2
    Tokens = {1, 2}
    Budgets <- Scenarios
INVARIANTS TypeOK FeedTellsEverything NewestReachesTargets RefreshedIsTrue
PROPERTIES NothingVanishes ReadyIsRefreshed
CHECK_DEADLOCK FALSE
