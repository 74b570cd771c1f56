\* Two logins and a registration, any of them with either passkey.
SPECIFICATION Spec
CONSTANTS
    a = a
    b = b
    k1 = k1
    k2 = k2
    c1 = c1
    c2 = c2
    login1 = login1
    login2 = login2
    register1 = register1
    Users <- TwoUsers
    Keys <- TwoKeys
    Challenges <- TwoChallenges
    Logins <- TwoLogins
    Registrations = {register1}
    MaxSigns = 2
SYMMETRY Symmetry
CHECK_DEADLOCK FALSE
INVARIANTS
    TypeOK
PROPERTIES
    ImplementsVouchers
    DeletionStopsLogins
    CountersFallOnlyBehind
