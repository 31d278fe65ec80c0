SPECIFICATION FairSpec
CHECK_DEADLOCK FALSE
CONSTANTS
    Pkgs = {"p", "q"}
    Versions = {1, 2, 3}
    Chart <- MCChart
    Cluster = {"crd"}
    Crds = {"crd"}
    Keep = {"claim"}
    Worlds <- MCWorlds
    PreReleases = {2, 3}
    Retries = 1
PROPERTY Lifecycle
PROPERTY Delivers
PROPERTY Leaves
