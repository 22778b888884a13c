SPECIFICATION BuildSpec
CONSTANTS
    Answers <- MCUpperCase
    NoId = "none"
    Lower <- MCLower
    Missing = Missing
    Buffer = 5
    MaxHits = 3
    Grain = 4
    OtherRuns <- MCOtherRuns
    NoTrace = NoTrace
    PerMilli = 10
    Words <- MCWords
    Rank <- MCRank
INVARIANT ErrorRateCountsErrors
