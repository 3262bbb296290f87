SPECIFICATION FairSpec
CHECK_DEADLOCK FALSE
CONSTANTS
    Hs = "hs"
    Reqs <- MCReqs
    KindsOf <- MCKindsOf
INVARIANT AnswerIsOwn
INVARIANT HeldExists
PROPERTY ResponseReachesWaiter
PROPERTY BreakNoticed
