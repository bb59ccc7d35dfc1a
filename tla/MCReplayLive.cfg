SPECIFICATION FairSpec
CONSTANTS
    Calls = {c1, c2, c3}
    Requests = {x1}
    Fingerprints = {f1, f2}
    ReplyShapes <- MCSmallReply
    Capacity = 2
    MaxCompletedBytes = 2
    Ttl = 1
    CompactFloor = 1
    MaxTime = 0
    MaxLockDelay = 0
    NoKey = NoKey
    NoReply = NoReply
PROPERTIES
    WaiterReleased
CHECK_DEADLOCK FALSE
