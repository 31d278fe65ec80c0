SPECIFICATION Spec
CONSTANTS
    Pollers = {p1, p2}
    Resources <- MCResources
    Kind <- MCKind
    Commits <- MCCommits
    Content <- MCContent
    CRs <- MCMedium
    CountLimit = 3
    Retries = 1
    Faults = {"kustomize"}
    LateEntry = FALSE
    MaxUpdates = 2
    MaxFaults = 1
PROPERTIES KeepsWanted
