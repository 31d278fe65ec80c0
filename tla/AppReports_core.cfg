SPECIFICATION FairReportSpec
CONSTANTS
    a1 = a1
    a2 = a2
    Apps = {a1}
    Clusters = {1, 2}
    Label <- MCDistinct
    Hooked = {a1}
    Limit = 1
    ReportFaults = {"clusters", "report", "list", "create", "entry", "expire", "withdraw", "update", "ready", "view"}
    MaxEdits = 2
    MaxReportFaults = 1
INVARIANTS ReportTypeOK CountsAddUp
PROPERTIES AgentsWordStands  ReportsSettle
CHECK_DEADLOCK FALSE
