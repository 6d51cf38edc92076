\* One chat, four writes, no compaction at a start.
SPECIFICATION StoreSpec
CONSTANTS
    Chats = {c1}
    Messages = {m1}
    NoEvent = NoEvent
    MaxWrites = 4
    CompactAt = 9
    Faults = {}
SYMMETRY Symmetry
INVARIANT UnreadSurvives
