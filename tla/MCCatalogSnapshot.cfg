SPECIFICATION FairSpec
CONSTANTS
    b = b
    c = c
    d = d
    x = x
    v = v
    Snapshots = {b, d, c, x}
    Stack <- MCStack
    StackFacts <- MCStackFacts
    Purposes <- MCPurposes
    Ids = {1, 2}
    Vals = {v}
    Owners = {o}
    Configs = {g1, g2}
    None = None
    Tombstone = Tombstone
    MaxDeltas = 2
    MaxDeltaRows = 3
    MaxPreparations = 2
    MaxRevision = 4
INVARIANTS TypeOK HeadReadable BoundReadable CompactionExact
PROPERTIES ImplementsView CollectedInTheEnd
CHECK_DEADLOCK FALSE
