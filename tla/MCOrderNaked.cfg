SPECIFICATION Spec
CONSTANTS
    Coids = {c1}
    Instruments = {eurusd, gbpusd}
    InstOf <- OneInstrument
    MaxRetries = 1
    SupportsClientOrderId = TRUE
    QueryReports <- AllStates
    HistoryReadable = FALSE
    MaxRestarts = 0
INVARIANT
    NakedNeverTolerated
