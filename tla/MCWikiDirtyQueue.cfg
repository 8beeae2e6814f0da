SPECIFICATION FairSpec
CONSTANTS
    c1 = c1
    p1 = p1
    NoOne = NoOne
    Facts = {f1, f2}
    Channels = {c1}
    Pages = {p1}
    ChannelOf <- OnePage
    Adaptive = {}
    Flushes = {"debounced", "overview"}
    Debounced = "debounced"
    MaxFaults = 1
    MaxSeeds = 1
    MaxEdits = 1
INVARIANTS
    TypeOK
    BuilderFirst
    QueuedUntilWritten
    InMemoryUntilWritten
PROPERTIES
    ScheduledIsWritten
