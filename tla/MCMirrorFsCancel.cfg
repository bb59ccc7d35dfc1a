SPECIFICATION Spec
CONSTANTS
    c1 = c1
    c2 = c2
    x = x
    y = y
    Calls = {c1}
    Names = {x}
    Verifiers = {"v"}
    MaxDepth = 1
    MaxInode = 2
    MaxFileId = 3
INVARIANTS
    CancellationIsSafe
