SPECIFICATION FairSpec
CONSTANTS
    p = p
    q = q
    a = a
    b = b
    my = my
    ss = ss
    pg = pg
    k = k
    l = l
    None = None
    Processes = {p, q}
    Resources = {a, b}
    Configs = {my, ss, pg}
    Keys = {k, l}
    Deployments <- Alongside
    FlavourOf <- MCFlavourOf
    ClusterKind <- MCClusterKind
    MaxVersion = 1
    MaxEdits = 0
    MaxFaults = 0
CHECK_DEADLOCK FALSE
PROPERTIES
    FlavoursRun
