\* One Codex chat: a message is enqueued while a drain clears the queue.
SPECIFICATION PipelineSpec
CONSTANTS
    Chats = {c1}
    CodexChats = {c1}
    Turns = {t1, t2, t3}
    Tools = {k1}
    NoTurn = NoTurn
    NoTool = NoTool
    Messages = {m1, m2, m3}
    Drains = {d1, d2}
    DirectSends = {}
    Delegations = {}
    SlowCalls = {}
SYMMETRY Symmetry
INVARIANTS NoQueuedMessageLost
CHECK_DEADLOCK FALSE
