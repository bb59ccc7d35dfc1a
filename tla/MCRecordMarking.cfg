SPECIFICATION FairSpec
CONSTANTS
    LimitChoices <- MCLimitChoices
    Segmentations <- MCSegmentations
    MaxRecords = 2
    FragmentSizes = {0, 1, 2, 4}
    MaxFragments = 4
INVARIANTS
    RoundTrip
    RefusesExactly
    AllocationIsReserved
PROPERTIES
    RecordArrives
CHECK_DEADLOCK FALSE
