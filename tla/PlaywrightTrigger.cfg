SPECIFICATION FairSpec
CONSTANTS
    Requests <- MCRequests
    RunCount = 2
INVARIANTS
    IdIsOfThisRun
    AnsweredIsReturned
PROPERTY
    Terminates
