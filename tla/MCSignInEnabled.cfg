\* Two confirmations of one enrolment.
SPECIFICATION Spec
CONSTANTS
    r1 = r1
    r2 = r2
    r3 = r3
    r4 = r4
    t1 = t1
    t2 = t2
    old = old
    new = new
    Requests <- ThreeRequests
    Tokens <- OneToken
    Passwords <- OnePassword
    Handlers <- Enrolling
    InitialAccounts <- SettingUp
    ChallengeAttempts = 1
    BackupCodeCount = 1
    RecoveryLimit = 1
    MaxStep = 1
PROPERTIES
    EnabledPageIsTrue
CHECK_DEADLOCK FALSE
