SPECIFICATION Spec
CHECK_DEADLOCK FALSE
CONSTANTS
    m1 = m1
    Managers = {m1}
    Steps = 3
    MaxCrashes = 3
INVARIANT NothingLeftOver
INVARIANT Recoverable
PROPERTY ReverseOrder
