\* Recoveries, enrolment pages, password resets and logins in any order.
SPECIFICATION Spec
CONSTANTS
    r1 = r1
    r2 = r2
    r3 = r3
    r4 = r4
    t1 = t1
    t2 = t2
    old = old
    new = new
    Requests <- ThreeRequests
    Tokens <- TwoTokens
    Passwords <- TwoPasswords
    Handlers <- RecoveryAndReset
    InitialAccounts <- AnyAccount
    ChallengeAttempts = 1
    BackupCodeCount = 2
    RecoveryLimit = 1
    MaxStep = 1
SYMMETRY Symmetry3
INVARIANTS
    BackupCodesAccounted
    ResetRetiresAll
PROPERTIES
    RehashKeepsPassword
    ImplementsVouchers
CHECK_DEADLOCK FALSE
