\* A tab opened on a chat, and another chat: the initial scroll of each.
SPECIFICATION ScrollSpec
CONSTANTS
    ScrollChats = {s1, s2}
    NoPosition = NoPosition
    MaxUnits = 1
    MaxGuards = 1
PROPERTIES InitialScrollEnds
CHECK_DEADLOCK FALSE
