SPECIFICATION Spec
CONSTANTS
    a = a
    b = b
    t1 = t1
    t2 = t2
    db = db
    d1 = d1
    d2 = d2
    Resources = {a}
    Specs <- OneSpecs
    Choices <- One
    Objects = {t1, t2, d1, d2}
    Defaults = {d1, d2}
    AllPrivileges <- MCPrivileges
    NewPrivileges <- MCNewPrivileges
    Shorthand <- MCShorthand
    OldServer = FALSE
    MaxEdits = 0
    MaxFaults = 1
CHECK_DEADLOCK FALSE
PROPERTIES
    CreateCommits
