SPECIFICATION Spec
CONSTANTS
    Saves = {w1, w2}
    Ids = {k1, k2}
    Players = {p1, p2, p3, p4}
    None = None
CHECK_DEADLOCK FALSE
SYMMETRY Symmetry
INVARIANTS RefusedOnlyMixed SavedIsComplete RowAgrees
