SPECIFICATION MCAccessSpec

CONSTANTS
    \* DealHistory
    DhOrders = {1,2}
    DealLots = {1}
    DealSides = {"buy"}
    ServerAhead = 1
    BackMargin = 2
    BlackoutFor = 1
    MaxDeals = 4
    DhHorizon = 3
    \* Bridge
    Tickets = {"t1","t2"}
    Beyond = {"t2"}
    Prices = {1,2}
    MaxCalls = 3
    \* Connections
    ConnIds = {"x","y"}
    Logins = {"d","l"}
    RealMoney = {"l"}
    Overlapping = FALSE
    \* AuditLog
    MaxLines = 4
    MaxDigests = 5
    \* EquityLedger
    Accounts = {"sim","demo"}
    EqDay = 2
    EqMonth = 2
    WriteEvery = 2
    EqHorizon = 7
    \* WriteGate
    CodeWindow = 1
    ReplayTTL = 4
    MaxAttempts = 2
    LockoutSteps = 1
    MaxFactor = 4
    ForgetAfter = 1
    RateWindow = 2
    WritesPerWindow = 2
    WgHorizon = 4
    \* Accounts
    Users = {"a","b"}
    FirstOwner = "a"
    GivenRoles = {"owner","viewer"}

INVARIANTS
    
    BridgeIsExact
    
    RecordsSurvive


    

CHECK_DEADLOCK FALSE
