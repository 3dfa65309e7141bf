SPECIFICATION Spec
CONSTANTS
    Owners = {1, 2}
    Repairs = {2}
    MaxClaims = 3
    MaxContexts = 2
    MaxRuntimes = 1
    MaxRevs = 3
INVARIANT PhysicalFence
CHECK_DEADLOCK FALSE
