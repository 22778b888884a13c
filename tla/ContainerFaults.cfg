CONSTANTS
    c1 = c1
    c2 = c2
    Containers <- MCContainers
    Setups <- MCSetups
    RunCount = 2
SPECIFICATION Spec
INVARIANTS
    FaultsInv
    Restored
