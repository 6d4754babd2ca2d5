SPECIFICATION FairSpec
CONSTANTS
    p = p
    q = q
    a = a
    b = b
    my = my
    ss = ss
    pg = pg
    k = k
    l = l
    None = None
    Processes = {p, q}
    Resources = {a, b}
    Configs = {my, ss, pg}
    Keys = {k, l}
    Deployments <- MCDeployments
    FlavourOf <- MCFlavourOf
    ClusterKind <- MCClusterKind
    MaxVersion = 2
    MaxEdits = 2
    MaxFaults = 1
CHECK_DEADLOCK FALSE
INVARIANTS
    ConnectsAsConfigured
    ConfigOutlivesObjects
PROPERTIES
    FlavoursRun
    RegistryIsFresh
    DeletionCompletes
