SPECIFICATION FairSpec
CONSTANTS
    Cap = 2
    MaxSeq = 4
INVARIANTS TypeOK InOrder NewestKept
PROPERTIES HandlerReturns DrainEnds
