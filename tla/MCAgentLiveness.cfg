SPECIFICATION FairAgent
CONSTANTS
    c1 = c1
    c2 = c2
    eurusd = eurusd
    gbpusd = gbpusd
    Coids = {c1}
    Instruments = {eurusd}
    InstOf <- OneInstrument
    MaxRetries = 0
    SupportsClientOrderId = FALSE
    QueryReports <- DealsOnly
    HistoryReadable = TRUE
    MaxRestarts = 0
    MaxTrades = 1
    DiskFails = FALSE
PROPERTIES
    OrphanHaltsAgent
    NakedIsHandled
