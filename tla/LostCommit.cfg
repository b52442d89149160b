\* A transaction lost after its response.
SPECIFICATION Spec
CONSTANTS
    Agent = a
    MaxBoots = 1
    MaxCommands = 2
    MaxLate = 0
    Ttl = 2
    OnlineWindow = 0
    BusyWindow = 1
    None = None
INVARIANT CleanedUpIsStored
