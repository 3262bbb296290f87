SPECIFICATION FairSpec
CHECK_DEADLOCK FALSE
CONSTANTS
    Hs = "hs"
    Reqs <- PairReqs
    KindsOf <- PairKindsOf
PROPERTY CallsReturn
