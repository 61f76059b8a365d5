SPECIFICATION Spec
CONSTANTS
    Legs = 1
    Recovery = TRUE
    StartSequence = 1
    Seqs <- Numbers
    Capacity = 2
    ConfirmWindow = 1
    Interval = 1
    MaxChunk = 2
    Datagrams <- OneLegTraffic
    Retransmissions <- Singles
    MaxBurst = 1
    None = None
INVARIANTS RingConsistent InlineBacked GapsAreMissing OnlyRefusalForgets
PROPERTIES InOrder DeliversInOrder
