\* One chat, of Codex (three commands, two tool requests) or of Claude (two, one).
SPECIFICATION OneChatSpec
CONSTANTS
    Chats = {c1, c2}
    CodexChats = {c1}
    Turns = {1, 2, 3}
    Tools = {1, 2}
    ClaudeTurns = {1, 2}
    ClaudeTools = {1}
    NoTurn = NoTurn
    NoTool = NoTool
INVARIANTS OneLiveTurnPerChat StatusPublished OneVerdict AnswerReachesAsker LiveTurnTracked
PROPERTIES CancelledStaysSilent CancelledTurnEnds
CHECK_DEADLOCK FALSE
