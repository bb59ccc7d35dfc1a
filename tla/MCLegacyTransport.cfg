SPECIFICATION Spec
CONSTANTS
    Retention = 1
    MAX_IN_FLIGHT_MESSAGES = 1
    MAX_QUEUED_REPLIES = 1
    PIPE = 1
    CHUNK = 2
    MaxSends = 5
    MaxRepeats = 1
    MaxConnections = 2
    MaxClock = 1
CONSTRAINT Exploration
INVARIANTS
    TrackerAgrees
    StallNeedsFullPipes
PROPERTIES
    NotRepeatedTooSoon
    RequestSettles
CHECK_DEADLOCK FALSE
