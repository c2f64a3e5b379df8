SPECIFICATION FairSpec
CONSTANTS
    Court = 16
    Radius = 1
    HalfWidth = 2
    HalfHeight = 1
    PaddleStep = 2
    Line = 3
    Speed = 4
    Directions <- SomeDirections
    Targets <- SomeTargets
INVARIANTS TypeOK ScoredAfterMiss HitsAlternate
PROPERTY BallReturns
