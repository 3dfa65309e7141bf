SPECIFICATION FairSpec
CONSTANTS
    Owners = {1, 2}
    Repairs = {2}
    MaxClaims = 2
    MaxContexts = 3
    MaxRuntimes = 2
    MaxRevs = 3
INVARIANTS TypeOK CallHoldsEntry FrozenWhilePending RetiredQuiet
PROPERTIES OutcomeAccounted TaskEntersAlone RetirementEnds
CHECK_DEADLOCK FALSE
