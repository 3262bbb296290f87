SPECIFICATION FairSpec
CHECK_DEADLOCK FALSE
CONSTANTS
    l1 = l1
    a1 = a1
    s2 = s2
    s1 = s1
    Loops = {l1}
    Stoppers = {a1}
    Servers = {s1, s2}
    None = None
    ByApi = TRUE
    MaxGen = 2
    MaxConfigs = 2
    MaxStops = 2
INVARIANT OneGeneration
INVARIANT StatusTruthful
PROPERTY DrainBeforeReplace
PROPERTY ConfigTakesEffect
PROPERTY StreamEndReturns
