SPECIFICATION Spec
CONSTANTS
    Subs <- MCOne
    Resources <- MCResources
    Option <- MCOption
    Denied = {}
    Keep = {}
    Faults = {"purge"}
    Features = {}
    MaxEdits = 3
    MaxFaults = 1
PROPERTIES RecordKept
CHECK_DEADLOCK FALSE
