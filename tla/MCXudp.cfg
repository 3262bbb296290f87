SPECIFICATION Spec
CONSTANTS
    Addresses = {7, 8}
    Sizes = {1, 2}
    MaxPackets = 2
INVARIANT PacketsDecoded
CHECK_DEADLOCK FALSE
