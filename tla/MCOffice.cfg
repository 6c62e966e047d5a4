SPECIFICATION MCOfficeSpec

CONSTANTS
    \* TerminalWatch
    GraceChecks = 2
    BackoffFirst = 1
    BackoffMost = 4
    KillAfter = 2
    MaySignIn = TRUE
    TwHorizon = 10
    \* Notifier
    Chats = {"c"}
    EventKeys = {"k"}
    DedupeFor = 2
    CommandAge = 1
    QueueMost = 1
    DayHours = 2
    NtHorizon = 3
    MaxUpdates = 2
    \* Promotion
    Policies = {"default","wide"}
    DefaultPolicy = "default"
    ParamSets = {1,2}
    RunIds = {"r1"}
    \* TrialLedger
    Systems = {"a","b"}
    Variants = {1,2}
    MaxDeclared = 3
    \* LessonStore
    Books = {"a","b"}
    Patterns = {"p"}
    Unconfirmed = 1
    LsHorizon = 2
    MaxLessons = 3
    \* Coach
    ViewDepth = 3
    MaxPerTick = 2
    NthWin = 2
    MaxClosed = 4
    \* ProposalQueue
    Paths <- MCPaths
    Values = {3,10,30}
    ProposalIds = {1,2}
    TTL = 1
    PqHorizon = 2
    \* AIService
    Chain <- MCChain
    Requesters = {"desk","panel"}
    MaxPerHour = 2
    HourLength = 2
    WaitFirst = 1
    WaitMost = 2
    Versions = {"v1","v2"}
    MinLabels = 1
    MaxRows = 3
    AiHorizon = 2
    \* Brain
    Strategies = {"s"}
    AccountLimit = 2
    StrategyLimit = 2
    AccountRest = 1
    StrategyRest = 2
    Models = {"m1","m2"}
    MaxTrades = 3
    BrHours = 3
    \* ShadowBook
    ShHorizon = 2
    FrameBars = 2
    SignalBars = {1,2}
    RowLimit = 1
    MaxBars = 3
    ShutFor = 7
    \* Licence
    Licences <- MCLicences
    Grace = 1
    ClockSlack = 1
    IssueSlack = 1
    RecheckAfter = 1
    LeaseLife = 2
    LeaseEvery = 1
    LcHorizon = 4
    MaxJumps = 1
    \* Subscription
    MonthLen <- MCMonthLen
    TermMonths = 1
    TermDays = 3
    LateGrace = 1
    MaxTerms = 4
    \* Activation
    Devices = {"d1","d2","d3"}
    Seats = 2

INVARIANTS
    OwnerIsTold
    LiveIsEarned
    ProposalsAreSafe
    
    LicenceIsEnforced
    TermsAndSeatsHold

PROPERTIES
    LearningHolds
    BrainHolds

CHECK_DEADLOCK FALSE
