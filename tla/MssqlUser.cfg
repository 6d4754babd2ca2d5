SPECIFICATION FairSpec
CONSTANTS
    a = a
    b = b
    g1 = g1
    Resources = {a, b}
    Specs <- MCSpecs
    Choices <- MCChoices
    HasPasswordRef = TRUE
    Generated = {g1}
    MaxPassword = 2
    MaxEdits = 1
    MaxFaults = 1
CHECK_DEADLOCK FALSE
INVARIANTS
    NoDanglingUser
    NoLeakedLogin
    StalePasswordIsNoticed
PROPERTIES
    UserLifecycle
    PasswordConverges
    DeletionCompletes
