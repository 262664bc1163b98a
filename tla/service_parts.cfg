SPECIFICATION Spec
INVARIANT TokensNeverWiden
INVARIANT RunsByItsDoor
INVARIANT StreamWellFormed
INVARIANT MapOutlivesTheRun
INVARIANT StoredIsListed
INVARIANT RunsAsShown
INVARIANT ShownPlanIsItself
INVARIANT StartedOnce
INVARIANT PerfectIsThePipeline
INVARIANT PerfectIsWhatTheViewerRuns
INVARIANT OneProfileMeasured
INVARIANT SibylLeftAsFound
INVARIANT AnswerWasAccepted
INVARIANT EveryFigureIsItsOwn
INVARIANT BetterIsNeverScoredWorse
INVARIANT LinksKeepWorking
INVARIANT TurnsApart
INVARIANT EveryFeatureInItsPlace
CONSTANTS
    Parts = {"tokens", "run", "files", "manifests", "qgis", "scoring", "sweep",
             "sites", "shares", "pacing", "layers"}
    Subjects = {ann}
    Calls = {c1}
    TOOL_TOKEN_LIFETIME = 2
    MCP_TOKEN_LIFETIME = 1
    MaxTime = 2
    MaxTokens = 2
    MaxLines = 3
    MaxKeepalives = 1
    Callers = {ann, bob}
    Anonymous = anonymous
    Uploads = {u1, u2}
    MaxShown = 2
    ToolThreads = {q1, q2}
    Chats = {chat, other}
    Runs = 2
    MaxEvents = 2
    MaxSwitches = 1
    MAX_LOCATIONS = 2
    MAX_NAMED = 1
    MAX_CELLS = 30
    ShareIds = {"a", "b", "c"}
    OldKeys = {"a", "b", "no id"}
    Processes = {p1, p2}
    SECONDS_BETWEEN_REQUESTS = 2
    MaxReal = 4
    MaxSet = 1
    PADDING = 1
    Me = "me"
    Profiles = {"local", "cloud"}
    Cloud = "cloud"
    Tools <- MCTools
    Events <- MCEvents
    SentFiles <- MCSentFiles
    WrittenManifests <- MCWrittenManifests
    CoastPlaces <- MCCoastPlaces
    GoldenTasks <- MCGoldenTasks
    ModelAnswers <- MCModelAnswers
    ToolRecords <- MCToolRecords
    GoldenViewerTasks <- MCGoldenViewerTasks
    ViewerAnswers <- MCViewerAnswers
    SiteRequests <- MCSiteRequests
    LayerRequests <- MCLayerRequests
    SmallPlane <- MCSmallPlane
CHECK_DEADLOCK FALSE
