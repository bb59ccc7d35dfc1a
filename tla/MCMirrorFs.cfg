SPECIFICATION Spec
CONSTANTS
    c1 = c1
    c2 = c2
    x = x
    y = y
    Calls = {c1, c2}
    Names = {x, y}
    Verifiers = {"v"}
    MaxDepth = 2
    MaxInode = 2
    MaxFileId = 3
SYMMETRY Symmetry
CONSTRAINT Exploration
INVARIANTS
    IndexAgrees
    FileIdDenotesOneObject
    RepetitionsAreRecognised
PROPERTIES
    StaleStaysStale
