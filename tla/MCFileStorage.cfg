SPECIFICATION Spec
CHECK_DEADLOCK FALSE
SYMMETRY Symmetry
CONSTANTS
    c1 = c1
    c2 = c2
    k1 = k1
    k2 = k2
    v1 = v1
    v2 = v2
    Clients = {c1, c2}
    Keys = {k1, k2}
    Values = {v1, v2}
    Nothing = Nothing
    Missing = Missing
    Torn = Torn
    Kinds = {"set", "remove", "clear", "get"}
    KeysOf <- SharedKeys
    MaxFiles = 2
    MaxCrashes = 2
INVARIANT IndexReadable
INVARIANT SequentialMapKept
INVARIANT AnswersOwnKey
