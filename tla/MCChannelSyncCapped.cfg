SPECIFICATION SyncSpec
CONSTANTS
    Slots <- OneSlot
    Limit = 3
    Page = 2
    Cap = 1
    Forward = FALSE
    MaxPosts = 3
    MaxFaults = 0
INVARIANT CursorCovers
