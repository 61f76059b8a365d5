SPECIFICATION Spec
CONSTANTS
    Legs = 2
    Capacity = 2
    ConfirmWindow = 1
    MaxSeq = 5
    MaxLost = 1
INVARIANT RetransmissionTaken
