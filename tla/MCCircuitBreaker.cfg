SPECIFICATION FairSpec
CONSTANTS
    Callers = {c1, c2}
    Threshold = 2
    Cooldown = 2
    ProbeTimeout = 3
    MaxRetries = 1
INVARIANTS
    TypeOK
    NeverWedged
PROPERTIES
    ProbesSpaced
    Recovers
