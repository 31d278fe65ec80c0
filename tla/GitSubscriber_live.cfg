SPECIFICATION FairSpec
CONSTANTS
    Pollers = {p1}
    Resources <- MCResources
    Kind <- MCKind
    Commits <- MCCommits
    Content <- MCContent
    CRs <- MCWebhook
    CountLimit = 3
    Retries = 1
    Faults = {"clone", "sort", "read", "kustomize", "chart", "apply", "prune", "purge"}
    LateEntry = FALSE
    MaxUpdates = 2
    MaxFaults = 2
PROPERTIES Converges StopEnds Removed
