\* Two logins at a time through the three limiters that guard them.
SPECIFICATION Spec
CONSTANTS
    r1 = r1
    r2 = r2
    ada = ada
    ann = ann
    ben = ben
    Requests <- TwoRequests
    Routes <- Login
    Clients <- OneClient
    Forged <- BlankHeader
    Emails <- TwoAccounts
    Normal <- AsTyped
    TrustedProxyHops = 1
    Window <- TwoTicks
    Maximum <- Few
    MaxConcurrent = 1
    DailyQuota = 1
    Days <- TwoDays
    DayOf <- Halves
    DrainTime = 1
    MaxLag = 1
    MaxTime = 3
SYMMETRY Symmetry
INVARIANTS
    TypeOK
    SweepKeepsUp
PROPERTIES
    ImplementsBatches
