\* Liveness of the queue: fairness of the clock and of the sweeper alone.
SPECIFICATION FairSpec
CONSTANTS
    Agents = {a1}
    Sessions = {s1, s2}
    MaxCommands = 2
    Ttl = 2
    OnlineWindow = 1
    BusyWindow = 1
    Outcomes = {"SUCCEEDED", "FAILED", "UNCERTAIN"}
    None = None
PROPERTIES
    NothingWaitsForever
