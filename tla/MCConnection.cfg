SPECIFICATION MCPipeSpec
CONSTANTS
    c1 = c1
    c2 = c2
    r0 = r0
    r1 = r1
    r2 = r2
    r3 = r3
    x1 = x1
    x2 = x2
    a1 = a1
    Conns = {c1, c2}
    Reqs = {r0, r1, r2, r3}
    Xids = {x1, x2}
    Args = {a1}
    ConnOf <- MCPipeConnOf
    XidOf <- MCPipeXidOf
    ArgsOf <- MCPipeArgsOf
    MaxRequestsPerConnection = 1
    MaxInflight = 1
    RequestRecords = 2
    ReplyRecords = 2
    Empty = Empty
    NoCall = NoCall
ACTION_CONSTRAINT
    MCScenario
INVARIANTS
    ChargesFollowBytes
    LeaseHasOwner
    CleanCloseAnswersAll
PROPERTIES
    RequestSettles
    ConnectionEnds
CHECK_DEADLOCK FALSE
