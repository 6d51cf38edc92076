\* One Claude chat, two turns: a message waits for the first turn to end.
SPECIFICATION PipelineSpec
CONSTANTS
    Chats = {c1}
    CodexChats = {}
    Turns = {t1, t2}
    Tools = {k1}
    NoTurn = NoTurn
    NoTool = NoTool
    Messages = {m1, m2}
    Drains = {d1, d2}
    DirectSends = {}
    Delegations = {}
    SlowCalls = {}
PROPERTIES QueueDrains
CHECK_DEADLOCK FALSE
