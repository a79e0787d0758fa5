SPECIFICATION Spec
CONSTANTS
    Requests <- MCRequests
    HostBucket <- MCHostBucket
    MaxBodySize = 3
    LargestObject = 7
    TextLength = 2
INVARIANTS OnlyGenuineServed RightOperation BodyClosed WithinLimit TruncationShows
