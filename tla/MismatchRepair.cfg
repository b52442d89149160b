\* Re-pairing after a mismatch.
SPECIFICATION LatchSpec
CONSTANTS
    Agents = {a1, a2}
    Sessions = {s1}
    MaxCommands = 4
    Ttl = 2
    OnlineWindow = 1
    BusyWindow = 1
    Outcomes = {"SUCCEEDED", "FAILED", "UNCERTAIN"}
    None = None
INVARIANT RepairLiftsLatch
