SPECIFICATION KdSpec
\* A window of the larger size needs more than the smaller resolution has, and
\* more than VideoRestoreBuffer.
CONSTANTS
    MaxDepth = 3
    ChunkSize = 2
    BufferSize = 5
    Pointers <- MCPointers
    Sizes <- MCSizes
    Readable <- MCReadable
    Hooks = {"Callback", "Patch", "None"}
    Fifos = {TRUE, FALSE}
    Resolutions = {3, 7}
    WndSizes = {1, 6}
    SmallSize = 2
    RestoreSize = 5
INVARIANTS
    NoFatal
    BufferInBounds
    ReadsAnswered
    LifeSessionSound
    LifeAllOrNothing
    LifeBackupIsTheirs
PROPERTIES
    ImplementsCallChain
    ReadTerminates
    LifeScreenGivenBack
    LifePresentAgain
