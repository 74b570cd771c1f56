\* Two old documents, one of them also a fixture; an upload and an import.
SPECIFICATION LiveSpec
CONSTANTS
    d1 = d1
    d2 = d2
    u = u
    i = i
    e1 = e1
    e2 = e2
    x = x
    Legacy <- TwoLegacy
    Seeded <- OneSeeded
    Uploads <- OneUpload
    Imports <- OneImport
    Carries <- Both
    MaxStarts = 3
INVARIANTS
    TypeOK
    NothingIsLost
    ServedIsReadable
    NoPlaintextLeft
    MissingIsExplained
    NoOrphans
    ImportsAreWhole
PROPERTIES
    MigrationEnds
CHECK_DEADLOCK FALSE
