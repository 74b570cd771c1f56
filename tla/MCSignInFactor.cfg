\* Logins and second steps: four requests, challenges with two attempts.
SPECIFICATION Spec
CONSTANTS
    r1 = r1
    r2 = r2
    r3 = r3
    r4 = r4
    t1 = t1
    t2 = t2
    old = old
    new = new
    Requests <- FourRequests
    Tokens <- OneToken
    Passwords <- OnePassword
    Handlers <- SecondFactor
    InitialAccounts <- WithTOTP
    ChallengeAttempts = 2
    BackupCodeCount = 1
    RecoveryLimit = 1
    MaxStep = 2
SYMMETRY Symmetry4
INVARIANTS
    TypeOK
    AttemptsAccounted
    SessionsAreEarned
    StepAcceptedOnce
CHECK_DEADLOCK FALSE
