SPECIFICATION FairSpec
CONSTANTS
    Privileges <- MCPrivileges
    Parameters <- MCParameters
    Limits <- MCLimits
    DefaultLimit = "unlimited"
    DefaultOn <- MCDefaultOn
    SpecChoices <- MCSpecChoices
    g1 = g1
    g2 = g2
    Generated = {g1, g2}
    WritesSecret = TRUE
    PasswordsReused = TRUE
    MaxPassword = 2
    MaxEdits = 2
    MaxDrifts = 0
    MaxFaults = 1
CHECK_DEADLOCK FALSE
PROPERTY
    ReferencedPasswordIsUsed
