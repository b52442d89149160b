\* Two workers, one message that stays sealed; three requests for two threads
\* and two connections.
SPECIFICATION ProcessSpec
CONSTANTS
    Workers = {w1, w2}
    MaxMessages = 3
    Unreadable = {2}
    Lifetime = 4
    SendTime = 1
    BackoffCap = 3
    MaxCrashes = 1
    Clients = {q1, q2, q3}
    Threads = 2
    Connections = 2
INVARIANTS
    DuplicatesExplained
    RowsTellTheTruth
    BackedOff
PROPERTIES
    NeverStale
    NothingStuck
    Answered
