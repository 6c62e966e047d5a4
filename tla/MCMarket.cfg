SPECIFICATION MCMarketSpec

CONSTANTS
    \* RiskBudget
    RbHorizon = 4
    RbLevels = {96, 97, 100}
    DayLength = 2
    RollWindow = 2
    Ladder <- MCLadder
    Hysteresis = 2
    DailyLoss = 4
    RollingLoss = 4
    ProfitLock = 4
    EntriesPerDay = 1
    \* RiskGate
    Pairs = {"EURUSD","GBPUSD","USDCHF"}
    BaseCurrency <- MCBase
    QuoteCurrency <- MCQuote
    Stops = {2, 3}
    AccountEquity = 100
    RiskPerTrade = 4
    MaxLots = 3
    Tolerance = 30
    GapLoss <- MCGapLoss
    StressLimit = 25
    MinStop = 2
    MaxStop = 9
    MaxPositions = 3
    MaxCurrency = 5
    MaxTotal = 6
    MaxCluster = 8
    Correlated <- MCCorrelated
    Contexts <- MCContexts
    \* GroupRisk
    Engines = {"a","b"}
    GroupLimit = 3
    OwnLimit = 2
    StaleAfter = 1
    GroupHorizon = 3
    \* PositionCare
    R = 2
    Highest = 4
    FullLots = 4
    Buffer = 1
    Trail = 3
    GiveBack = 1
    ArmR2 = 4
    TakeR2 = 3
    Guarded = TRUE
    \* PaperVenue
    MaxIds = 2
    Mids = {10,20,30}
    HalfSpread = 1
    Slips = {0}
    NewStops = {30}
    Sizes = {2,4}
    PartialOver = 2
    Barrier = 12
    LotRisk = 10
    LotFee = 2
    LotSwap = 1
    LotMargin = 7
    StartBalance = 30
    DayMultiples <- MCMultiples
    \* Backtest
    BarDay <- MCBarDay
    Warmup = 1
    DayCap = 1
    HoldFor = 2
    \* BarFeed
    Interval = 2
    History = 3
    FetchGap = 2
    MarketShut = {1}
    QuoteLimit = 1
    FdHorizon = 10
    \* ReferenceStream
    StreamTickers = {"bg","api"}
    MaxWorkers = 3
    RefPrices = {2,5}
    BrokerPrice = 2
    BlockAt = 1
    MaxAge = 0
    RsHorizon = 1
    \* LinkHealth
    VenueStamps = TRUE
    StepBack = 2
    StepOn = 2
    SkewWindow = 3
    SkewCeiling = 1
    FreezeAfter = 2
    MaxSteps = 2
    LhHorizon = 3
    \* NewsDesk
    Occurrences = {"o1","o2"}
    TitleOf <- MCTitles
    WeekHours = 2
    PatternAt = 3
    PatternSure = FALSE
    Before = 1
    After = 1
    CalendarEvery = 2
    Items = {"a"}
    ReadWithin = 3
    HeedFor = 2
    BlockFor = 1
    NdHorizon = 3
    MaxMoves = 2
    \* Surprise
    Releases = {"a","b"}
    MinHistory = 1
    MaxRevised = 1
    SuHorizon = 2

INVARIANTS
    
    
    NewsIsTimely

PROPERTIES
    
    
    SimulationIsHonest

CHECK_DEADLOCK FALSE
