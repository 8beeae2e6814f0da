SPECIFICATION Spec
CONSTANTS
    i1 = i1
    i2 = i2
    Intents = {i1, i2}
    NoFacts = {i2}
    SkipGraph = {i2}
    MaxFaults = 3
INVARIANTS TypeOK WritesNotForgotten
CHECK_DEADLOCK FALSE
