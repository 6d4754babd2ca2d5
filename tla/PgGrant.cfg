SPECIFICATION FairSpec
CONSTANTS
    a = a
    b = b
    t1 = t1
    t2 = t2
    db = db
    d1 = d1
    d2 = d2
    Resources = {a, b}
    Specs <- TwoSpecs
    Choices <- Two
    Objects = {t1, t2, db, d1, d2}
    Defaults = {d1, d2}
    AllPrivileges <- MCPrivileges
    NewPrivileges <- MCNewPrivileges
    Shorthand <- MCShorthand
    OldServer = TRUE
    MaxEdits = 1
    MaxFaults = 1
CHECK_DEADLOCK FALSE
INVARIANTS
    NoLeakedPrivilege
PROPERTIES
    NoPrivilegeLost
    GrantsConverge
    DeletionCompletes
