SPECIFICATION FairSpec
CONSTANTS
    Releases = 2
    UseCli = TRUE
    StopMayFail = TRUE
    MaxStarts = 2
    MaxKill = 2
INVARIANTS TypeOK Quiesced DoneIsComplete
PROPERTIES BackInService PageLeavesUnlessLost FrontDoor
CHECK_DEADLOCK FALSE
