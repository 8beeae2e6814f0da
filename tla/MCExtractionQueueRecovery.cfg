SPECIFICATION FairSpec
CONSTANTS
    m1 = m1
    m2 = m2
    c1 = c1
    c2 = c2
    t1 = t1
    t2 = t2
    Msgs <- TwoRows
    Channels = {c1}
    ChannelOf <- OneChannel
    Ticks = {t1}
    ClaimSize = 2
    Schedule <- ShortSchedule
    StaleAfter = 1
    MaxFaults = 1
    MaxResets = 1
    MaxRedeliveries = 0
    Halving = TRUE
    Prompt = TRUE
INVARIANTS
    TypeOK
    DoneMeansStored
    DoneIsAnnounced
PROPERTIES
    ImplementsRetryQueue
    EveryRowSettles
