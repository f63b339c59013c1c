SPECIFICATION FairWalkSpec
CONSTANTS
    N = 4
    K = 3
    MaxSet = 1
INVARIANT CheckAgrees
PROPERTIES WalkEnds NoStoneSkipped GoesForward
