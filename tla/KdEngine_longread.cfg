SPECIFICATION Spec
CONSTANTS
    MaxDepth = 1
    ChunkSize = 2
    BufferSize = 5
    Pointers <- MCPointers
    Sizes <- MCSizes
    Readable <- MCReadable
INVARIANT
    ReadIsFresh
