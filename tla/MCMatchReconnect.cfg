SPECIFICATION Spec
CONSTANTS
    a0 = a0
    a1 = a1
    b1 = b1
    None = None
    Conns = {a0, a1, b1}
    Gs = {g1, g2, g3}
    Original <- MCOriginal
    ConnIDs <- MCOriginal
    Sessions <- MCOriginal
    Owner <- MCOwner
    PointsToWin = 2
    ReconnectCap = 1
    MaxReconnects = 1
CHECK_DEADLOCK FALSE
SYMMETRY Symmetry
INVARIANTS ScoreDecides NoForfeitOfAttached RecordAgrees PausedHasWaker
PROPERTY DisconnectsReachRun
