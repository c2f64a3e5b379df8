SPECIFICATION Spec
CONSTANTS
    Conns = {c1, c2, c3}
    Codes = {k1, k2}
    Runs = {r1, r2}
    None = None
    ReconnectCap = 1
    MaxReconnects = 3
CHECK_DEADLOCK FALSE
SYMMETRY Symmetry
CONSTRAINT Bounded
INVARIANTS TypeOK RoutesToPlayers LostToAnotherMatch DisconnectsHeard NoRouteToFinished
