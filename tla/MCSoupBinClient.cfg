SPECIFICATION Spec

CONSTANTS
    Variants <- AllVariants
    LoginTimeout = 1
    HeartbeatInterval = 0
    HeartbeatTimeout = 1
    Capacity = 1
    FirstRequested = 1
    TrustsSequence = FALSE
    Noise = {"Debug", "Odd", "Unknown", "Oversize"}
    MaxLog = 2
    MaxSends = 1
    MaxNet = 1
    MaxConnects = 2

INVARIANTS
    NumberedAsSent
    WireOrder
    NoLostWakeup

PROPERTIES
    ResumesInOrder
    TimeoutMeansSilence

CHECK_DEADLOCK FALSE
