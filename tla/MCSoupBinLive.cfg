SPECIFICATION FairSpec

CONSTANTS
    Variants <- AllVariants
    LoginTimeout = 1
    HeartbeatInterval = 1
    HeartbeatTimeout = 1
    Capacity = 1
    FirstRequested = 1
    TrustsSequence = FALSE
    Noise = {}
    MaxLog = 1
    MaxSends = 0
    MaxNet = 1
    MaxConnects = 1

PROPERTIES
    LoginResolves
    EventuallyDelivered
    HeartbeatsFlow
    SilenceNoticed

CHECK_DEADLOCK FALSE
