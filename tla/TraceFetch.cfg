SPECIFICATION FairSpec
CONSTANTS
    Spans <- MCSpans
    Start <- MCStart
    Buffer = 3
    MaxHits = 3
    LastOf <- MCLastOf
    Matches <- MCLastIsThree
    Timeout = 4
    RetryDelay = 2
    GetTimeout = 3
    Horizon = 6
INVARIANTS
    NothingLost
    NoEarlyEnd
PROPERTIES
    KeepsContract
    Terminates
