SPECIFICATION Spec
CONSTANTS
    Coids = {c1, c2}
    Instruments = {eurusd, gbpusd}
    InstOf <- OneInstrument
    MaxRetries = 1
    SupportsClientOrderId = TRUE
    QueryReports <- AllStates
    HistoryReadable = FALSE
    MaxRestarts = 1
INVARIANTS
    TypeOK
    QuarantineCoversUnknown
    JournalBeforeSocket
    FrozenWhileNaked
    ExecutionNeverForgotten
PROPERTY
    LedgerSpec
