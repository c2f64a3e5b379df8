SPECIFICATION Spec
CONSTANTS
    Court = 2000
    Radius = 36
    HalfWidth = 220
    HalfHeight = 25
    PaddleStep = 60
    Line = 140
    Speed = 133
    Directions <- FastDirections
    Targets <- StayThere
INVARIANT ScoredAfterMiss
