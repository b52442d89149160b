\* The preview of a close of a position smaller than the symbol's minimum.
SPECIFICATION Spec
CONSTANTS
    Step = 4
    Minimum = 12
    Maximum = 16
    Tick = 2
    Stops = 1
    Freeze = 1
    Buffer = 1
    Parts = 2
    MaxMeddling = 0
    None = None
    Levels = {0}
    Cases <- Remainder
    Quotes <- TwoQuotes
INVARIANTS
    VolumesAccepted
CHECK_DEADLOCK FALSE
