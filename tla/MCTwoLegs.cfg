SPECIFICATION Spec
CONSTANTS
    Legs = 2
    Recovery = TRUE
    StartSequence = 0
    Seqs <- Numbers
    Capacity = 4
    ConfirmWindow = 1
    Interval = 1
    MaxChunk = 2
    Datagrams <- TwoLegTraffic
    Retransmissions <- Singles
    MaxBurst = 1
    None = None
INVARIANT MissingIsTracked
PROPERTY DeliversInOrder
