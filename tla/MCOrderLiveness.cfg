SPECIFICATION FairSpec
CONSTANTS
    Coids = {c1}
    Instruments = {eurusd, gbpusd}
    InstOf <- OneInstrument
    MaxRetries = 1
    SupportsClientOrderId = FALSE
    QueryReports <- DealsOnly
    HistoryReadable = TRUE
    MaxRestarts = 1
PROPERTIES
    CallsReturn
    FillFoundOut
