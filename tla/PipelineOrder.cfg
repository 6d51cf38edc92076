\* One Codex chat, three turns, three messages, one tool request, all replies in time.
SPECIFICATION PipelineSpec
CONSTANTS
    Chats = {c1}
    CodexChats = {c1}
    Turns = {t1, t2, t3}
    Tools = {k1}
    NoTurn = NoTurn
    NoTool = NoTool
    Messages = {m1, m2, m3}
    Drains = {d1, d2}
    DirectSends = {m3}
    Delegations = {}
    SlowCalls = {}
SYMMETRY Symmetry
INVARIANTS StartedAtMostOnce HubKnows
CHECK_DEADLOCK FALSE
