SPECIFICATION FairSpec
CONSTANTS
    Refs = {1, 2}
    Pinned = {2}
    MaxCommits = 3
    Pre = {"pre1"}
    Post = {"post1"}
    Hooks <- MCHooks
    Clusters = {1, 2}
    ByCount = "no"
    Edits = {"spec", "sync", "ref", "delete", "decide", "commit"}
    Faults = {"clone", "override", "list", "apply", "check", "resources", "update", "patch", "annotate", "job", "restart"}
    MaxEdits = 1
    MaxFaults = 1
INVARIANT OneUnfinished
PROPERTIES CommitFollowed HooksCatchUp HooksBeforeWork
CHECK_DEADLOCK FALSE
