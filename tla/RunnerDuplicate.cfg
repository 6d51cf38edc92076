\* One Claude chat: a cancelled turn's cleanup lets a duplicate start through.
SPECIFICATION RunnerSpec
CONSTANTS
    Chats = {c1}
    CodexChats = {}
    Turns = {t1, t2, t3}
    Tools = {k1}
    NoTurn = NoTurn
    NoTool = NoTool
    ClaudeTurns = {t1, t2, t3}
    ClaudeTools = {k1}
SYMMETRY Symmetry
INVARIANT OneLiveTurnPerChat
CHECK_DEADLOCK FALSE
