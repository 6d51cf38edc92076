\* Nine parts of a tab, one at a time, each at the bounds its module's comments name.
SPECIFICATION ClientPartsSpec
CONSTANTS
    Subs = {1, 2}
    Conns = {1, 2}
    MaxVersion = 1
    MaxOutages = 1
    Viewable = {v1, v2}
    First = v1
    NoneShown = NoneShown
    MaxVisits = 2
    MaxEntries = 2
    Tabs = {1, 2}
    MaxMessages = 2
    EntryKinds = {"assistant_text", "status", "result", "context_cleared"}
    ToolKinds = {"work", "ask_user_question", "todo_write"}
    MaxLog = 5
    Window = 4
    Lines <- TemplateLines
    Layouts <- TemplateModules
    MaxTemplate = 3
    ChatIds = {k1, k2}
    MaxSubmits = 2
    MaxChoices = 2
    NoModel = NoModel
    ChatKeys = {n1, n2}
    Stored = {n1}
    Home = Home
    MaxActs = 3
    ScrollChats = {s1, s2}
    NoPosition = NoPosition
    MaxUnits = 2
    MaxGuards = 2
    FormTabs = {1, 2}
    Options <- OptionLabels
    MultiSelect = {2}
    Typed <- TypedTexts
    Blanks <- BlankText
    MaxClicks = 3
SYMMETRY Symmetry
INVARIANTS
    ClientPartsTypeOK ViewsCatchUp ShowsItsChat SaidIsHeard
    RenderedFaithfully TemplatesMeanTheirLines ShownIsRun PlacesAreReal
    ReaderIsLeftAlone
CHECK_DEADLOCK FALSE
