SPECIFICATION FairSpec
CONSTANTS
    ChunkSize = 3
    Base = 2
    FrameSizes = {1, 2, 3, 7}
    MaxFrames = 3
    Uploads <- MCUploads
INVARIANTS
    TypeOK
    MemoryBounded
    InOrder
    SignaturesChain
    DeliveredWhole
PROPERTIES
    UploadsArrive
    Settles
