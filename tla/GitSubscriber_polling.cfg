SPECIFICATION Spec
CONSTANTS
    Pollers = {p1, p2}
    Resources <- MCResources
    Kind <- MCKind
    Commits <- MCCommits
    Content <- MCNoChart
    CRs <- MCPolling
    CountLimit = 3
    Retries = 1
    Faults = {"clone", "sort", "kustomize", "apply"}
    LateEntry = TRUE
    MaxUpdates = 3
    MaxFaults = 2
INVARIANTS TypeOK SubscriberInv OneSubscriber GoneStaysGone DeployedIsCommit
PROPERTIES KeepsWanted
