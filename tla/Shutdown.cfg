CONSTANTS
    ConfiguredBatchSize = 2
    BufferBatches = 1
    MaxRows = 4
    DBFails = TRUE
    MayStop = TRUE
    Guests = {g1}
    Feeds = {f1}
    Streams = {s1}
    Imports = {i1}
    ListenersFail = TRUE
SPECIFICATION ShutdownSpec
CHECK_DEADLOCK FALSE
PROPERTY StartedBatchSettles
PROPERTY RowsWritten
PROPERTY StopCompletes
PROPERTY RequestsFinish
INVARIANT ShutdownTypeOK
INVARIANT InOrder
INVARIANT NothingLost
