\* A result reaches the server.
SPECIFICATION FairSpec
CONSTANTS
    Agent = a
    MaxBoots = 2
    MaxCommands = 2
    MaxLate = 0
    Ttl = 1
    OnlineWindow = 0
    BusyWindow = 1
    None = None
CONSTRAINT Undamaged
PROPERTIES
    ResultArrives
