SPECIFICATION FairSpec
CONSTANTS
    Dtos <- MCDtos
    RunCount = 3
INVARIANTS
    NoCrossTalk
    ReturnedWasReceived
    ConnectionsClosed
PROPERTIES
    OwnWorkIsFetched
    Returns
CHECK_DEADLOCK FALSE
