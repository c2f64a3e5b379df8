SPECIFICATION Spec
CONSTANTS
    Conns = {c1, c2, c3}
    Codes = {k1}
    Rooms = {r1}
    Reads = 4
    None = None
    NoView = NoView
    ClosedView = ClosedView
CHECK_DEADLOCK FALSE
INVARIANT ConcurrentUseSafe
