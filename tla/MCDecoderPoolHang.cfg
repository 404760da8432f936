SPECIFICATION FairSpec
CONSTANTS
    NWorkers = 1
    Decoders = {d1}
    MaxQueue = 1
    MaxBlocks = 1
PROPERTIES
    StopReturns
CHECK_DEADLOCK FALSE
