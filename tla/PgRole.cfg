SPECIFICATION FairSpec
CONSTANTS
    Privileges <- MCPrivileges
    Parameters <- MCParameters
    Limits <- MCLimits
    DefaultLimit = "unlimited"
    DefaultOn <- MCDefaultOn
    SpecChoices <- MCSpecChoices
    g1 = g1
    Generated = {g1}
    WritesSecret = TRUE
    PasswordsReused = FALSE
    MaxPassword = 2
    MaxEdits = 2
    MaxDrifts = 1
    MaxFaults = 1
CHECK_DEADLOCK FALSE
INVARIANTS
    NoOrphanedRole
    StalePasswordIsNoticed
PROPERTIES
    ImplementsLifecycle
    AttributesConverge
    PasswordConverges
    DeletionCompletes
