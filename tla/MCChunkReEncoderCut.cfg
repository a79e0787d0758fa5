SPECIFICATION FairSpec
CONSTANTS
    ChunkSize = 3
    Base = 2
    FrameSizes = {1, 2, 3, 7}
    MaxFrames = 2
    Uploads <- MCUploads
PROPERTY Finishes
