SPECIFICATION FairSpec
CONSTANTS
    a = a
    g1 = g1
    Resources = {a}
    Specs <- MCSpecs
    Choices <- MCChoices
    Flavours = {"mysql", "singlestore"}
    OptionNames <- MCOptionNames
    Limits = {"default", "five"}
    DefaultLimit = "default"
    Generated = {g1}
    MaxPassword = 2
    MaxEdits = 2
    MaxFaults = 1
CHECK_DEADLOCK FALSE
INVARIANTS
    StalePasswordIsNoticed
    ReplicaFollows
PROPERTIES
    UserLifecycle
    UserConverges
    DeletionCompletes
