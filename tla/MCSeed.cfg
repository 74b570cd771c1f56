\* Two processes that may overlap, two handlers, a seeding and a rotation.
SPECIFICATION Spec
CONSTANTS
    wendy = wendy
    mabel = mabel
    s1 = s1
    s2 = s2
    r1 = r1
    r2 = r2
    r3 = r3
    seeded = seeded
    Servers <- TwoServers
    Requests <- ThreeRequests
    Users <- TwoUsers
    MaxReviews = 2
    StarterAuthors <- OneReview
    StarterSecrets <- WendysSecret
    MaxVersion = 2
    MaxSeeds = 1
SYMMETRY Symmetry3
INVARIANTS
    TypeOK
    SecretsAreKept
    PlaintextIsNewer
PROPERTIES
    AuthorsWrite
CHECK_DEADLOCK FALSE
