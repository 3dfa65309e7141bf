SPECIFICATION Spec
CONSTANTS
    Targets = {1}
    Kinds <- Two
    Batch = 1
    MaxAttempts = 2
    Tokens = {1, 2}
    Budgets <- OneLateChange
INVARIANT NoReadyChangeForgotten
CHECK_DEADLOCK FALSE
