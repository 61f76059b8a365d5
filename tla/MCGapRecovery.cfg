SPECIFICATION FairSpec
CONSTANTS
    Seqs = {1, 2, 3, 4, 5}
    MaxChunk = 2
    Interval = 2
INVARIANTS Separated ChunksPartition AskedRemembered
PROPERTIES TracksMissing RateLimited EveryGapAsked
