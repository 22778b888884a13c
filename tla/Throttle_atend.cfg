CONSTANTS
    c1 = c1
    c2 = c2
    NThrottles = 1
    TargetOf <- MCOneTarget
    RunCount = 1
SPECIFICATION Spec
INVARIANT UnthrottledAtEnd
