\* Two workers, a queue of one, two blocks: workers_ is filled and cleared while feed() may
\* be between two of them; a worker is busy, about to block or blocked when the next block
\* arrives, and blocks are dropped.  Fair threads.
SPECIFICATION FairSpec
CONSTANTS
    NWorkers = 2
    Decoders = {d1}
    MaxQueue = 1
    MaxBlocks = 2
INVARIANTS
    VectorChangesUnderFeedOnlyInStartOrExit
    ClearsOnlyWhatNobodyUses
PROPERTIES
    StopHangsOnlyOnMissedNotify
    QueuedBlockLeaves
\* The program ends: after Exit nothing runs.
CHECK_DEADLOCK FALSE
