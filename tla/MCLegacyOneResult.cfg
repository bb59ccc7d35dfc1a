SPECIFICATION DemoSpec
CONSTANTS
    a = a
    b = b
    f = f
    g = g
    m1 = m1
    m2 = m2
    c1 = c1
    c2 = c2
    d1 = d1
    d2 = d2
    MAX_PERMITS = 4096
    U32_MAX = 65535
    USIZE_MAX = 65535
    Exports = {a, b}
    Keys = {f, g}
    FirstExport = a
    Overflowing <- FarTimes
    DataFile <- File
    Writes = {"w1"}
    limits <- TightLimits
    Counts <- SomeCounts
    PathLengths <- SomePaths
    MaxRuns = 2
    MaxWire = 2
CONSTRAINT Exploration
INVARIANT OneResult
CHECK_DEADLOCK FALSE
