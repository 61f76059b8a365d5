SPECIFICATION Spec

CONSTANTS
    Variants <- SyncPlain
    LoginTimeout = 1
    HeartbeatInterval = 0
    HeartbeatTimeout = 1
    Capacity = 1
    FirstRequested = 1
    TrustsSequence = TRUE
    Noise = {}
    MaxLog = 2
    MaxSends = 0
    MaxNet = 1
    MaxConnects = 2

PROPERTY
    ResumesInOrder

CHECK_DEADLOCK FALSE
