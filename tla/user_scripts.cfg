SPECIFICATION Spec
CONSTANTS
    Ids = {s1}
    Versions <- MCVersions
    Names = {n1}
    Windows = {w1, w2}
    Passes = {p1, p2}
    None = None
SYMMETRY MCSymmetry
INVARIANT PendingNewer
INVARIANT NothingLeft
PROPERTY KeepsTheRest
