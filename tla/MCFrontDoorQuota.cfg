\* Two calls of the warehouse API at a time, over two days.
SPECIFICATION LiveSpec
CONSTANTS
    r1 = r1
    r2 = r2
    ada = ada
    ann = ann
    ben = ben
    Requests <- TwoRequests
    Routes <- Warehouse
    Clients <- OneClient
    Forged <- NoHeader
    Emails <- TwoAccounts
    Normal <- AsTyped
    TrustedProxyHops = 0
    Window <- TwoTicks
    Maximum <- Three
    MaxConcurrent = 1
    DailyQuota = 1
    Days <- TwoDays
    DayOf <- Halves
    DrainTime = 1
    MaxLag = 1
    MaxTime = 3
INVARIANTS
    SlotsAreAccounted
    QuotaHolds
PROPERTIES
    CapacityReturns
