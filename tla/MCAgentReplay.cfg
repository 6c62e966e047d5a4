SPECIFICATION AgentSpec
CONSTANTS
    c1 = c1
    c2 = c2
    eurusd = eurusd
    gbpusd = gbpusd
    Coids = {c1}
    Instruments = {eurusd}
    InstOf <- OneInstrument
    MaxRetries = 1
    SupportsClientOrderId = FALSE
    QueryReports <- DealsOnly
    HistoryReadable = TRUE
    MaxRestarts = 2
    MaxTrades = 1
    DiskFails = FALSE
INVARIANT
    EveryPositionTracked
