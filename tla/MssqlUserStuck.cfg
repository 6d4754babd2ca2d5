SPECIFICATION FairSpec
CONSTANTS
    a = a
    b = b
    g1 = g1
    Resources = {a}
    Specs <- MCSpecs
    Choices <- OneLogin
    HasPasswordRef = FALSE
    Generated = {g1}
    MaxPassword = 1
    MaxEdits = 0
    MaxFaults = 1
CHECK_DEADLOCK FALSE
PROPERTIES
    UserConverges
