CONSTANTS
    c1 = c1
    c2 = c2
    NThrottles = 3
    TargetOf <- MCTargetOf
    RunCount = 2
SPECIFICATION Spec
INVARIANTS
    Unthrottled
PROPERTY
    OwnRuleOnly
