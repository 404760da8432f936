\* One worker, so that the queue fills, drops and empties under two decoders.
SPECIFICATION Spec
CONSTANTS
    NWorkers = 1
    Decoders = {d1, d2}
    MaxQueue = 2
    MaxBlocks = 3
SYMMETRY DecoderSymmetry
INVARIANTS
    NoSilentGap
    LateAtMostOnce
    QueueBoundedInOrder
    RetuneLeavesAtMostTwoOldBlocks
\* The program ends: after Exit nothing runs.
CHECK_DEADLOCK FALSE
