SPECIFICATION Spec
CONSTANTS
    Calls = {c1, c2, c3, c4}
    Requests = {x1, x2}
    Fingerprints = {f1, f2}
    ReplyShapes <- MCReplyShapes
    Capacity = 2
    MaxCompletedBytes = 2
    Ttl = 1
    CompactFloor = 1
    MaxTime = 1
    MaxLockDelay = 1
    NoKey = NoKey
    NoReply = NoReply
SYMMETRY MCSymmetry
INVARIANTS
    CacheAgrees
    OrderIsComplete
    AnswersAreOriginal
    OverlapNeedsReuse
PROPERTIES
    OrderIsBounded
    LossIsJustified
    ServiceSpec
CHECK_DEADLOCK FALSE
