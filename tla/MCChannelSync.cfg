SPECIFICATION SyncSpec
CONSTANTS
    Slots <- TwoSlots
    Limit = 2
    Page = 2
    Cap = 2
    Forward = TRUE
    MaxPosts = 3
    MaxFaults = 1
INVARIANTS TypeOK CursorCovers
PROPERTIES CatchesUp JobsSettle
