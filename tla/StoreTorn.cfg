\* One chat, one message; a crash or a failed write may leave part of a line.
SPECIFICATION StoreSpec
CONSTANTS
    Chats = {c1}
    Messages = {m1}
    NoEvent = NoEvent
    MaxWrites = 4
    CompactAt = 9
    Faults = {"torn", "write_error"}
SYMMETRY Symmetry
INVARIANT HistoryKept
