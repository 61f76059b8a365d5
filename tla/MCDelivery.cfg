SPECIFICATION FairSpec
CONSTANTS
    Legs = 1
    Recovery = TRUE
    StartSequence = 1
    Seqs <- Numbers
    Capacity = 4
    ConfirmWindow = 1
    Interval = 1
    MaxChunk = 2
    Datagrams <- LiveTraffic
    Retransmissions <- Singles
    MaxBurst = 1
    None = None
PROPERTY EventuallyDelivered
