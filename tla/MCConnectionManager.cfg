SPECIFICATION FairSpec
CHECK_DEADLOCK FALSE
CONSTANTS
    c1 = c1
    c2 = c2
    Conns <- MCConns
    MaxBytes <- MCMaxBytes
INVARIANT TableMatchesHandles
INVARIANT AbortedOnRequest
INVARIANT NothingLost
PROPERTY ClosingEnds
