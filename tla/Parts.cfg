\* Eight parts, one at a time, each at the bounds its module's comments name.
SPECIFICATION PartsSpec
CONSTANTS
    MaxTurns = 2
    NoCodexTurn = NoCodexTurn
    Root = Root
    Agents = {a1, a2}
    Waits = {w1, w2}
    MaxDepth = 2
    MaxConcurrency = 1
    DelegationDepth = 1
    NoWait = NoWait
    Steps = 2
    Repos = 2
    OnFailure = {"stop", "rollback", "continue"}
    MaxRelease = 3
    MaxFrames = 5
    BufferLimit = 2
    Runners = {1, 2}
    MaxAttempts = 2
    TerminalIds = {"t1", "t2"}
    MaxShells = 4
    Chats = {c1}
    CodexChats = {c1}
    Turns = {t1, t2, t3, t4}
    Tools = {}
    NoTurn = NoTurn
    NoTool = NoTool
    Messages = {m1, m2}
    Drains = {d1, d2}
    DirectSends = {}
    Delegations = {g1}
    SlowCalls = {m1}
INVARIANTS
    PartsTypeOK OwnTranscripts ListedAgentsAreTracked InstallsForward
    FramesInOrder ReadyIsListening ShellsAreOwned
PROPERTIES TurnsSettle WaitsSettle StopsAndEnds InstalledRuns EveryCallSettles
CHECK_DEADLOCK FALSE
