\* A mismatch while an execution is leased, and the way back to ONLINE.
SPECIFICATION LatchSpec
CONSTANTS
    Agents = {a1}
    Sessions = {s1}
    MaxCommands = 4
    Ttl = 2
    OnlineWindow = 1
    BusyWindow = 1
    Outcomes = {"SUCCEEDED", "FAILED", "UNCERTAIN"}
    None = None
PROPERTY MismatchStaysLatched
