SPECIFICATION FairSpec
CONSTANTS
    reader = reader
    writer = writer
    team = team
    u = u
    s1 = s1
    s2 = s2
    Resources = {reader, team}
    Specs <- MCSpecs
    Choices <- MCChoices
    Roles = {reader, writer}
    Groups = {team}
    People = {u}
    Scopes = {s1, s2}
    Privileges <- Select
    MaxEdits = 1
    MaxFaults = 1
CHECK_DEADLOCK FALSE
PROPERTIES
    RbacLifecycle
    GainsOnlyWanted
    AccessConverges
    DeletionCompletes
