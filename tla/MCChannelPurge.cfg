SPECIFICATION Spec
CONSTANTS
    Slots <- OneSlot
    Limit = 2
    Page = 2
    Cap = 2
    Forward = TRUE
    MaxPosts = 1
    MaxFaults = 1
    Runs = {p1, p2}
INVARIANTS PurgeTypeOK OnePurger CursorCoversAfterPurge
PROPERTIES PurgedIsGone PurgeConverges
