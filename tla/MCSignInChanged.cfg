\* A login of an old-format account against a reset.
SPECIFICATION Spec
CONSTANTS
    r1 = r1
    r2 = r2
    r3 = r3
    r4 = r4
    t1 = t1
    t2 = t2
    old = old
    new = new
    Requests <- TwoRequests
    Tokens <- OneToken
    Passwords <- TwoPasswords
    Handlers <- Resetting
    InitialAccounts <- OldFormat
    ChallengeAttempts = 1
    BackupCodeCount = 1
    RecoveryLimit = 1
    MaxStep = 1
PROPERTIES
    ResetPasswordHolds
CHECK_DEADLOCK FALSE
