SPECIFICATION BrSpec
CONSTANTS
    Tickets = {"t1", "t2"}
    Beyond = {"t2"}
    Prices = {1, 2}
    MaxCalls = 3
INVARIANT
    ClosesPass
CHECK_DEADLOCK FALSE
