SPECIFICATION FairSpec
CHECK_DEADLOCK FALSE
CONSTANTS
    l1 = l1
    a1 = a1
    s1 = s1
    Loops = {l1}
    Stoppers = {a1}
    Servers = {s1}
    None = None
    ByApi = FALSE
    MaxGen = 1
    MaxConfigs = 1
    MaxStops = 1
PROPERTY StopReturns
