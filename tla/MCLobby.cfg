SPECIFICATION Spec
CONSTANTS
    Conns = {c1, c2, c3}
    Codes = {k1, k2}
    Rooms = {r1, r2}
    Reads = 2
    None = None
    NoView = NoView
    ClosedView = ClosedView
CHECK_DEADLOCK FALSE
SYMMETRY Symmetry
INVARIANTS TypeOK StartsOnce ToldMatchesRoom IndexConsistent RecipientsOpen ReadyPairStarts
PROPERTIES ClosedTold RoomsKept
