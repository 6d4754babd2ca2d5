SPECIFICATION FairSpec
CONSTANTS
    a = a
    b = b
    Resources = {a, b}
    Specs <- MCSpecs
    Choices <- MCChoices
    Placements <- MCPlacements
    Home <- MCHome
    Values = {"v1", "v2", "ghost"}
    MissingRoles = {"ghost"}
    DefaultValue = "v1"
    Second = "v2"
    MaxEdits = 1
    MaxFaults = 1
    MaxChanges = 1
CHECK_DEADLOCK FALSE
INVARIANTS
    NoLostEdit
    NoOrphanedObject
PROPERTIES
    ObjectLifecycle
    ObjectsConverge
    DeletionCompletes
