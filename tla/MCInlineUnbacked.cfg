SPECIFICATION Spec
CONSTANTS
    Legs = 2
    Recovery = FALSE
    StartSequence = 1
    Seqs <- Numbers
    Capacity = 2
    ConfirmWindow = 1
    Interval = 1
    MaxChunk = 2
    Datagrams <- OverlapTraffic
    Retransmissions <- Singles
    MaxBurst = 1
    None = None
INVARIANT InlineBacked
