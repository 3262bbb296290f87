SPECIFICATION Spec
CHECK_DEADLOCK FALSE
CONSTANTS
    m1 = m1
    m2 = m2
    Managers = {m1, m2}
    Steps = 1
    MaxCrashes = 1
INVARIANT NothingLeftOver
