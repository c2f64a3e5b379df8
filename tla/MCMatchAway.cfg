SPECIFICATION FairSpec
CONSTANTS
    a0 = a0
    a1 = a1
    b1 = b1
    None = None
    Conns = {a0, a1}
    Gs = {g1, g2}
    Original <- MCOriginal
    ConnIDs <- MCOriginal
    Sessions <- MCOriginal
    Owner <- MCOwner
    PointsToWin = 2
    ReconnectCap = 1
    MaxReconnects = 0
CHECK_DEADLOCK FALSE
INVARIANTS TypeOK VerdictStands
PROPERTIES NoPlayWhileAway OnePointPerRally ContractKept AbandonedMatchRecorded
