SPECIFICATION Spec
CONSTANTS
    a = a
    b = b
    r1 = r1
    r2 = r2
    None = None
    Instances <- TwoInstances
    Runtimes <- TwoRuntimes
    Expiry = 4
    ExtendEvery = 1
    ExtendDelay = 1
    CheckEvery = 1
    MaxBlock = 2
    ContinueIfEnded = FALSE
CHECK_DEADLOCK FALSE
INVARIANTS TypeOK ExtenderHoldsMutex StaleIsShort
SYMMETRY Alike
