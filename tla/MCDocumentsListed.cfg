\* One upload, nothing to migrate.
SPECIFICATION Spec
CONSTANTS
    d1 = d1
    d2 = d2
    u = u
    i = i
    e1 = e1
    e2 = e2
    x = x
    Legacy = {}
    Seeded = {}
    Uploads <- OneUpload
    Imports = {}
    Carries <- One
    MaxStarts = 1
INVARIANTS
    ListedIsReadable
CHECK_DEADLOCK FALSE
