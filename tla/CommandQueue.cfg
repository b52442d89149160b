\* Safety of the queue: an execution, its preview and the next operation.
SPECIFICATION Spec
CONSTANTS
    Agents = {a1, a2}
    Sessions = {s1, s2}
    MaxCommands = 3
    Ttl = 2
    OnlineWindow = 0
    BusyWindow = 1
    Outcomes = {"SUCCEEDED", "FAILED", "UNCERTAIN"}
    None = None
SYMMETRY Symmetry
VIEW View
INVARIANTS
    BlockedIffUnresolved
    OneInFlight
    OneSessionPerExecution
    ConfirmedOnce
    NoOrphan
PROPERTIES
    ResolvedOnlyByEvidence
    SentInTime
    Final
    ImplementsInterlock
