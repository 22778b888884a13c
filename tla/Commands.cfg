SPECIFICATION Spec
CONSTANTS
    Nil = Nil
    Broken = Broken
    Calls <- MCCalls
INVARIANTS
    CreatedIsRunnable
    NothingRunsUnlessAllValid
    ReportsAgree
