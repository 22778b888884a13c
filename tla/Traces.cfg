SPECIFICATION FairBuildSpec
CONSTANTS
    Answers <- MCAnswers
    NoId = "none"
    Lower <- MCLower
    Missing = Missing
    Buffer = 5
    MaxHits = 3
    Grain = 4
    OtherRuns <- MCOtherRuns
    NoTrace = NoTrace
    PerMilli = 10
    Words <- MCWords
    Rank <- MCRank
INVARIANTS
    ParentFirstAndOnce
    LossExplained
    WalksInPreorder
    MatchesPreorder
    RoundingKeepsOrder
    CutKeepsParents
    PercentilesAreNearestRank
    ReportIsUnique
PROPERTIES
    SortTerminates
