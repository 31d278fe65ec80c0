SPECIFICATION FairSpec
CONSTANTS
    s1 = s1
    s2 = s2
    c1 = c1
    c2 = c2
    Subs = {s1}
    Clusters = {c1, c2}
    Label <- MCDistinct
    AppSpecs <- MCAsks
    Faults = {"get", "branch", "hooks", "prehooks", "running", "checkhooks", "resources", "clusters", "report", "list", "create", "expire", "cleanup", "update", "patch"}
    MaxEdits = 2
    MaxFaults = 2
INVARIANTS TypeOK HubInv QuietIsRight
PROPERTIES Quiesces
CHECK_DEADLOCK FALSE
