SPECIFICATION AgentSpec
CONSTANTS
    c1 = c1
    c2 = c2
    eurusd = eurusd
    gbpusd = gbpusd
    Coids = {c1, c2}
    Instruments = {eurusd, gbpusd}
    InstOf <- TwoInstruments
    MaxRetries = 0
    SupportsClientOrderId = TRUE
    QueryReports <- AllStates
    HistoryReadable = FALSE
    MaxRestarts = 0
    MaxTrades = 2
    DiskFails = TRUE
SYMMETRY
    Exchange
INVARIANTS
    AgentTypeOK
    OneUnknownAtATime
PROPERTY
    NoRequestWhileHalted
