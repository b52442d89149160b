\* The EA against an arbitrary server.
SPECIFICATION Spec
CONSTANTS
    Commands = {c1, c2}
    MaxBoots = 3
    MaxTtl = 1
    None = None
SYMMETRY Symmetry
INVARIANTS
    EvaluatedOnce
    OnRecord
    Truthful
PROPERTIES
    ResultStands
