SPECIFICATION Spec
CONSTANTS
    Subs <- MCSubs
    Resources <- MCResources
    Option <- MCOption
    Denied <- MCDenied
    Keep = {}
    Faults = {"apply", "prune", "override", "report"}
    Features = {"foreign", "recreate"}
    MaxEdits = 4
    MaxFaults = 1
INVARIANTS TypeOK RecordInv Accounted
PROPERTIES RecordKept NotTaken DeployedIsThere
CHECK_DEADLOCK FALSE
