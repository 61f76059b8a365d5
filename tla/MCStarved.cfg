SPECIFICATION Spec
CONSTANTS
    Frames = 2
    IndexSpan = 4
    FrameSize = 2
    UringSlots = 2
    Depth = 1
    SqSize = 4
    CqSize = 3
    NoSlot = NoSlot
    Mbufs = 2
    Burst = 2
    Slabs = 2
    MaxQueue = 2
    Backends = {"io_uring"}
    MaxRoom = 2
    DecapBurst = 2
    DstPort = 1
    DstIp = {}
    WireFrames <- ArrivingFrames
    Arrivals <- ArrivingFrames
    None = None
INVARIANT StarvedReopens
CHECK_DEADLOCK FALSE
