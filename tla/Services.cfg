SPECIFICATION MCSpec
CONSTANTS
    Callers = {c1, c2, c3}
    Threshold = 2
    OpenDuration = 2
    MaxAttempts = 3
    InitialDelay = 1
    Multiplier = 2
    MaxDelay = 3
    DocLines <- MCDocLines
    MaxLines = 5
    Target = 5
    Overlap = 1
    Window = 2
    Bodies <- MCBodies
    RobotsLines <- MCRobotsLines
    MaxRobots = 4
    Agent <- MCAgent
    SitePaths <- MCSitePaths
    DefaultInterval = 2
    Delays = {1, 3}
    Fetchers = {f1, f2}
    MaxSlots = 3
    MaxNow = 4
    Sites <- MCSites
    BatchSize = 2
    MaxRuns = 2
    SecsPerMinute = 2
    MinutesPerHour = 3
    HoursPerDay = 4
    Cadences <- MCCadences
    MaxClock = 340
    JobLists <- MCJobLists
    Intents <- MCIntents
    Recorders = {"r1", "r2", "r3", "r4"}
    Episode <- MCEpisode
    Tags = {"fi", "mm"}
    Tenants = {"a", "b", "none"}
    Cap = 3
    Limit = 2
    MaxTurns = 5
    ChunkIds = {"a", "b", "c", "d"}
    Embedded = {"a", "b", "c"}
    RrfK = 60
    Pool = 3
INVARIANTS
    OpenAdmitsNobody
    SectionsNested
    TreeIsOutline
    PointersAlive
    SplitLosesNothing
    RobotsObeyed
    SlotsSpaced
    StoredIsWhole
    CalendarOnTime
    JobsThenReply
    ContextIsRight
    ConsensusWins
PROPERTIES
    RequestReturns
    ImplementsGate
