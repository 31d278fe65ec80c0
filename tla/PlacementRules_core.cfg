SPECIFICATION FairSpec
CONSTANTS
    Clusters = {1, 2}
    ClusterStates <- MCClusterStates
    Specs <- MCSpecs
    MaxDecisions = 1
    MaxRules = 2
    Changes = {"spec", "delete", "cluster", "roles"}
    MaxChanges = 1
    MaxFaults = 1
CHECK_DEADLOCK FALSE
 
PROPERTY KeepsChosen
 
