SPECIFICATION FairSpec
CONSTANTS
    p1 = p1
    p2 = p2
    r1 = r1
    r2 = r2
    Senders = {p1, p2}
    Readers = {r1, r2}
    Pairs <- MCPairs
    NumBlocks = 2
    MaxEvents <- MCMaxEvents
    MaxFaults = 1
    NoBlock = NoBlock
    NoEvent = NoEvent
INVARIANTS TypeOK LockBalance InOrder
PROPERTIES KeepsPromise BlockReturns
CHECK_DEADLOCK FALSE
