\* Plans, and their execution against a trader and a broker.
SPECIFICATION Spec
CONSTANTS
    Step = 4
    Minimum = 8
    Maximum = 16
    Tick = 2
    Stops = 1
    Freeze = 1
    Buffer = 1
    Parts = 2
    MaxMeddling = 2
    None = None
    Levels = {0, 10, 18}
    Cases <- AllCases
    Quotes <- TwoQuotes
INVARIANTS
    TypeOK
    ConfirmedIsOurs
    StatusIsHonest
    WithinTarget
    WorstFirst
    JustEnough
    PlansAgree
    SimulatorAgrees
PROPERTIES
    OneRequestOpen
    NeverLoosens
CHECK_DEADLOCK FALSE
