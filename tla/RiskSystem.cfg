\* Safety of the whole path.
SPECIFICATION Spec
CONSTANTS
    Agent = a
    MaxBoots = 2
    MaxCommands = 2
    MaxLate = 1
    Ttl = 2
    OnlineWindow = 0
    BusyWindow = 1
    None = None
VIEW View
CONSTRAINT Bounds
INVARIANTS
    InterlockHeld
    Accounted
    HandedOver
    ExecutedOnce
    ResultHonest
