SPECIFICATION FairSpec
CONSTANTS
    c1 = c1
    c2 = c2
    r0 = r0
    r1 = r1
    r2 = r2
    r3 = r3
    x1 = x1
    x2 = x2
    a1 = a1
    Conns = {c1, c2}
    Reqs = {r1, r2}
    Xids = {x1}
    Args = {a1}
    ConnOf <- MCRepeatConnOf
    XidOf <- MCRepeatXidOf
    ArgsOf <- MCRepeatArgsOf
    MaxRequestsPerConnection = 1
    MaxInflight = 2
    RequestRecords = 2
    ReplyRecords = 2
    Empty = Empty
    NoCall = NoCall
INVARIANTS
    RepeatsNeverRunTogether
PROPERTIES
    RequestSettles
CHECK_DEADLOCK FALSE
