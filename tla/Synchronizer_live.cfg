SPECIFICATION FairSpec
CONSTANTS
    Subs <- MCOne
    Resources <- MCResources
    Option <- MCOption
    Denied = {}
    Keep = {}
    Faults = {"apply", "get", "prune", "purge", "clean", "subget", "write", "report"}
    Features = {"restart", "cleanup", "pause"}
    MaxEdits = 4
    MaxFaults = 2
PROPERTIES KeepsListed  Converges
CHECK_DEADLOCK FALSE
