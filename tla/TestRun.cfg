SPECIFICATION FairSpec
CONSTANTS
    NTests = 2
    RunCount = 2
    NumSetup <- MCSetup
    NumTraces <- MCTraces
    NumAssertions <- MCAssertions
    NumChecks <- MCChecks
    NumExporters = 2
    NumAnalytics = 1
INVARIANTS
    CleanupMirrorsSetup
    NothingSkipped
    VerdictJustified
    ReportComplete
PROPERTIES
    ResultAfterCleanup
    KeepsPromise
    Terminates
