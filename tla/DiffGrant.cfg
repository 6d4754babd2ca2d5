SPECIFICATION FairSpec
CONSTANTS
    a = a
    b = b
    t1 = t1
    t2 = t2
    Resources = {a, b}
    Specs <- MCSpecs
    Choices <- MCChoices
    Servers = {"mysql", "mssql"}
    Targets = {t1, t2}
    Placements <- MCPlacements
    Privileges <- MCPrivileges
    MaxEdits = 1
    MaxFaults = 1
CHECK_DEADLOCK FALSE
INVARIANTS
    NoOrphanedPrivilege
PROPERTIES
    UpdateDelivers
    GrantsConverge
    DeletionCompletes
