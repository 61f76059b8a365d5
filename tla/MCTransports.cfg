SPECIFICATION FairSpec
CONSTANTS
    Frames = 2
    IndexSpan = 4
    FrameSize = 2
    UringSlots = 2
    Depth = 2
    SqSize = 4
    CqSize = 4
    NoSlot = NoSlot
    Mbufs = 2
    Burst = 2
    Slabs = 2
    MaxQueue = 2
    Backends = {"afxdp", "io_uring", "dpdk", "socket"}
    MaxRoom = 2
    DecapBurst = 2
    DstPort = 1
    DstIp = {}
    WireFrames <- FrameShapes
    Arrivals <- ArrivingFrames
    None = None
INVARIANTS ArmedExact MemoryOutlivesKernel ParkedIsWoken AcceptedRedirected PayloadInside
PROPERTIES InOrderOnce OneOwner  CallsReturn BuffersReturn
CHECK_DEADLOCK FALSE
