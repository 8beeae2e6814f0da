SPECIFICATION Spec
CONSTANTS
    m1 = m1
    m2 = m2
    c1 = c1
    c2 = c2
    t1 = t1
    t2 = t2
    Msgs <- TwoRows
    Channels = {c1}
    ChannelOf <- OneChannel
    Ticks = {t1, t2}
    ClaimSize = 1
    Schedule <- ShortSchedule
    StaleAfter = 1
    MaxFaults = 1
    MaxResets = 0
    MaxRedeliveries = 1
    Halving = FALSE
    Prompt = FALSE
SYMMETRY OverlapSymmetry
INVARIANTS
    BudgetLeft
    ClaimExclusive
    DoneMeansStored
    NoMissedDrain
PROPERTY ImplementsRetryQueue
