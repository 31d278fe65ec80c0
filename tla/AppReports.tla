----------------------------- MODULE AppReports -----------------------------
(***************************************************************************)
(* The reports that say how far an application has come.  Each managed      *)
(* cluster has a report with one entry per Subscription, written by the     *)
(* agent of the cluster and, when a ManifestWork cannot be written, by the  *)
(* hub.  Each Subscription has a report with counts, written by the hub's   *)
(* reconcile and by the periodic aggregation of pkg/controller/             *)
(* appsubsummary, which also keeps the ManagedClusterViews of failing       *)
(* applications.  An Update of an object that changed after it was read is  *)
(* refused, so that an update which succeeds is one step with its Get; what *)
(* the aggregation lists at its start is stale in the rest of the round.    *)
(***************************************************************************)
EXTENDS Integers, FiniteSets

CONSTANTS
    Apps,        \* the Subscriptions of the hub
    Clusters,    \* the managed clusters: numbers, in the order of their names
    Label,       \* Label[a]: the hosting label of a, cut off at 63 characters
    Hooked,      \* the Subscriptions with post hooks
    Limit,       \* how many applications get a ManagedClusterView (50)
    ReportFaults,      \* which calls may fail
    MaxEdits,    \* bound on what users and workloads do
    MaxReportFaults    \* bound on the failures of one behaviour

ReportFaultKinds == {"clusters", "report", "list", "create", "entry", "expire",
               "withdraw", "update", "ready", "view"}

ASSUME ReportAssumption ==
    /\ Apps # {} /\ Hooked \subseteq Apps
    /\ Clusters \subseteq Nat /\ IsFiniteSet(Clusters)
    /\ Limit \in Nat /\ MaxEdits \in Nat /\ MaxReportFaults \in Nat
    /\ ReportFaults \subseteq ReportFaultKinds

VARIABLES
    alive,       \* the Subscriptions that exist
    decision,    \* decision[a]: the clusters its placement decides on
    works,       \* works[a]: the clusters that have a ManifestWork of a
    subscribed,  \* subscribed[a]: the clusters whose agent follows a
    entry,       \* entry[c][a]: the result for a in the report of cluster c
    report,      \* report[a]: the report of the application
    views,       \* the ManagedClusterViews, pairs of a cluster and a Subscription
    queue,       \* the Subscriptions waiting for the hub's reconcile
    hub,         \* the reconcile in progress, after it wrote the report
    agg,         \* the round of the aggregation in progress
    edits, faults

hubVars == <<works, queue, hub>>
aggVars == <<views, agg>>
world == <<alive, decision, edits>>
reportVars == <<alive, decision, works, subscribed, entry, report, views, queue,
          hub, agg, edits, faults>>

\* (mutant) The phases of the SubscriptionStatus in place of the results.
FoundPhases == {"Deployed", "Failed"}

Found == {"deployed", "failed"}     \* what an agent reports
Results == {"none", "deployed", "failed", "propagationFailed"}
NoReport == [exists |-> "no", Clusters |-> 0, Deployed |-> 0, Failed |-> 0,
             PropagationFailed |-> 0, InProgress |-> 0,
             results |-> [c \in Clusters |-> "none"]]

Blank == [c \in Clusters |-> [a \in Apps |-> "none"]]

\* A round that listed the entries snap, with the Subscriptions todo left in this
\* step, and n of them counted as failing; err tells whether a view failed.
Round(label, snap, todo, n, err) ==
    [pc |-> label, snap |-> snap, todo |-> todo, count |-> n, err |-> err]
NoRound == Round("idle", Blank, {}, 0, "no")

ReportInit ==
    /\ alive = Apps
    /\ decision = [a \in Apps |-> Clusters]
    /\ works = [a \in Apps |-> {}]
    /\ subscribed = [a \in Apps |-> {}]
    /\ entry = Blank
    /\ report = [a \in Apps |-> NoReport]
    /\ views = {}
    /\ queue = Apps
    /\ hub = [pc |-> "idle", app |-> CHOOSE a \in Apps : TRUE, targets |-> {}]
    /\ agg = NoRound
    /\ edits = 0 /\ faults = 0

Fail(f) == f \in ReportFaults /\ faults < MaxReportFaults /\ faults' = faults + 1
Ok == UNCHANGED faults
Edit == edits < MaxEdits /\ edits' = edits + 1

----------------------------------------------------------------------------
(* The users and the placement controller.                                  *)

\* A Subscription is deleted, its report with it, or created again.
EditApp(a) ==
    /\ Edit
    /\ alive' = IF a \in alive THEN alive \ {a} ELSE alive \cup {a}
    /\ report' = [report EXCEPT ![a] = NoReport]
    /\ queue' = queue \cup {a}
    /\ UNCHANGED <<decision, works, subscribed, entry, hub, aggVars, faults>>

\* (mutant) A changed decision does not bring the Subscription to the hub.
EditDecisionUnseen(a) ==
    /\ Edit
    /\ \E d \in SUBSET Clusters \ {decision[a]} : decision' = [decision EXCEPT ![a] = d]
    /\ UNCHANGED <<alive, works, subscribed, entry, report, hubVars, aggVars, faults>>

EditDecision(a) ==
    /\ Edit
    /\ \E d \in SUBSET Clusters \ {decision[a]} : decision' = [decision EXCEPT ![a] = d]
    /\ queue' = queue \cup {a}
    /\ UNCHANGED <<alive, works, subscribed, entry, report, hub, aggVars, faults>>

----------------------------------------------------------------------------
(* The agent of a managed cluster.                                          *)

\* The work agent brings the Subscription to the cluster.
AgentSubscribe(c, a) ==
    /\ c \in works[a] \ subscribed[a]
    /\ subscribed' = [subscribed EXCEPT ![a] = @ \cup {c}]
    /\ UNCHANGED <<world, entry, report, hubVars, aggVars, faults>>

\* updateAppsubReportResult: an entry is added, or changed if it differs.  The
\* first result of the agent, and later ones that the workload brings about.
AgentReport(c, a) ==
    /\ c \in subscribed[a]
    /\ \/ entry[c][a] \notin Found /\ UNCHANGED edits
       \/ entry[c][a] \in Found /\ Edit
    /\ \E res \in Found \ {entry[c][a]} : entry' = [entry EXCEPT ![c][a] = res]
    /\ UNCHANGED <<alive, decision, subscribed, report, hubVars, aggVars, faults>>

\* The Subscription is gone from the cluster: deleteAppsubReportResult takes its
\* entry out; a failure is only logged.
AgentWithdraw(c, a) ==
    /\ c \in subscribed[a] \ works[a]
    /\ subscribed' = [subscribed EXCEPT ![a] = @ \ {c}]
    /\ \/ Ok /\ entry' = [entry EXCEPT ![c][a] = "none"]
       \/ Fail("withdraw") /\ UNCHANGED entry
    /\ UNCHANGED <<world, report, hubVars, aggVars>>

----------------------------------------------------------------------------
(* The hub's reconcile.                                                     *)

\* A report as createAppAppsubReport creates it.
NewReport(propagationFailedCount, clusterCount) ==
    [NoReport EXCEPT !.exists = "yes", !.Clusters = clusterCount,
                     !.PropagationFailed = propagationFailedCount,
                     !.InProgress = IF propagationFailedCount > 0 THEN 0 ELSE clusterCount]

\* (mutant) The count of clusters that were not reached is left as it is.
CreateKeepsFailed(r, propagationFailedCount, clusterCount) ==
    IF r.exists = "no" THEN NewReport(propagationFailedCount, clusterCount)
    ELSE IF propagationFailedCount > 0 THEN r
    ELSE [r EXCEPT !.InProgress = clusterCount - r.Deployed - r.Failed,
                   !.Clusters = clusterCount]

\* createAppAppsubReport: the report it leaves where it finds r.
CreateAppAppsubReport(r, propagationFailedCount, clusterCount) ==
    IF r.exists = "no" THEN NewReport(propagationFailedCount, clusterCount)
    ELSE IF propagationFailedCount > 0 THEN r
    ELSE [r EXCEPT !.InProgress = clusterCount - r.Deployed - r.Failed,
                   !.PropagationFailed = propagationFailedCount,
                   !.Clusters = clusterCount]

\* A Subscription that is gone: its works are deleted, a failure is only logged.
HubCleanup(a) ==
    /\ hub.pc = "idle" /\ a \in queue \ alive
    /\ queue' = queue \ {a}
    /\ \/ Ok /\ works' = [works EXCEPT ![a] = {}]
       \/ Fail("expire") /\ \E left \in SUBSET works[a] : works' = [works EXCEPT ![a] = left]
    /\ UNCHANGED <<world, subscribed, entry, report, hub, aggVars>>

\* The clusters are read and the report is written; a failure of either brings
\* the Subscription back.
HubReport(a) ==
    /\ hub.pc = "idle" /\ a \in queue \cap alive
    /\ \/ /\ Fail("clusters")
          /\ report' = [report EXCEPT ![a] = CreateAppAppsubReport(@, 1, 1)]
          /\ UNCHANGED hubVars
       \/ /\ Fail("report")
          /\ UNCHANGED <<report, hubVars>>
       \/ /\ Ok
          /\ report' = [report EXCEPT ![a] = CreateAppAppsubReport(@, 0, Cardinality(decision[a]))]
          /\ queue' = queue \ {a}
          /\ hub' = [pc |-> "works", app |-> a, targets |-> decision[a]]
          /\ UNCHANGED works
    /\ UNCHANGED <<world, subscribed, entry, aggVars>>

\* (mutant) An entry of the agent is overwritten.
NoteAlways(a, S) ==
    [c \in Clusters |-> IF c \in S THEN [entry[c] EXCEPT ![a] = "propagationFailed"] ELSE entry[c]]

\* The entries after CreateFailedAppsubReportResult for the clusters S: only an
\* entry that is missing is added.
Note(a, S) ==
    [c \in Clusters |-> IF c \in S /\ entry[c][a] = "none"
                        THEN [entry[c] EXCEPT ![a] = "propagationFailed"] ELSE entry[c]]

\* PropagateAppSubManifestWork.  When the works could not be listed, or one of them
\* not be written, those that exist are created once more from there on, which
\* fails and is noted in the report of the cluster; nothing expires then.  A note
\* that fails is only logged.  Of the works that cannot be deleted only the last
\* one's error brings the Subscription back.
HubWorks ==
    /\ hub.pc = "works"
    /\ LET a == hub.app
           t == hub.targets
           next == [hub EXCEPT !.pc = IF a \in Hooked THEN "check" ELSE "idle"]
       IN \/ /\ Ok
             /\ works' = [works EXCEPT ![a] = t]
             /\ hub' = next
             /\ UNCHANGED <<queue, entry>>
          \/ /\ Fail("list")
             /\ works' = [works EXCEPT ![a] = @ \cup t]
             /\ entry' = Note(a, t \cap works[a])
             /\ hub' = next
             /\ UNCHANGED queue
          \/ /\ Fail("create")
             /\ \E unmade \in SUBSET t \ {{}}, again \in SUBSET (t \cap works[a]) :
                   /\ works' = [works EXCEPT ![a] = @ \cup (t \ unmade)]
                   /\ entry' = Note(a, unmade \cup again)
             /\ hub' = next
             /\ UNCHANGED queue
          \/ /\ Fail("entry")
             /\ \E unmade \in SUBSET t \ {{}} : \E noted \in SUBSET (unmade \cup (t \cap works[a])) :
                   /\ works' = [works EXCEPT ![a] = @ \cup (t \ unmade)]
                   /\ entry' = Note(a, noted)
             /\ hub' = next
             /\ UNCHANGED queue
          \/ /\ Fail("expire")
             /\ \E left \in SUBSET (works[a] \ t) \ {{}} : works' = [works EXCEPT ![a] = t \cup left]
             /\ \/ hub' = next /\ UNCHANGED queue
                \/ hub' = [hub EXCEPT !.pc = "idle"] /\ queue' = queue \cup {a}
             /\ UNCHANGED entry
    /\ UNCHANGED <<world, subscribed, report, aggVars>>

\* IsSubscriptionCompleted, of a Subscription that is propagated.
IsCompleted(a) ==
    \/ a \notin alive
    \/ /\ report[a].exists = "yes" /\ report[a].Clusters # 0
       /\ report[a].Deployed + report[a].InProgress = report[a].Clusters
       /\ report[a].InProgress <= 0

\* The end of finalCommit: the post hooks run, or the Subscription comes back.
HubCheck ==
    /\ hub.pc = "check"
    /\ hub' = [hub EXCEPT !.pc = "idle"]
    /\ queue' = IF IsCompleted(hub.app) THEN queue ELSE queue \cup {hub.app}
    /\ UNCHANGED <<world, works, subscribed, entry, report, aggVars, faults>>

----------------------------------------------------------------------------
(* The aggregation: generateAppSubSummary, once per interval.               *)

Having(a, e, res) == {c \in Clusters : e[c][a] = res}
Sources(e) == {a \in Apps : Having(a, e, "none") # Clusters}

\* The reports of the clusters are listed; one that mentions nothing, or a list
\* that fails, ends the round.
AggList ==
    /\ agg.pc = "idle" /\ Sources(entry) # {}
    /\ agg' = Round("reports", entry, Sources(entry), 0, "no")
    /\ UNCHANGED <<world, subscribed, entry, report, hubVars, views, faults>>

\* newAppSubReport with i as the number of clusters in progress.
CountedReport(r, a, e, i) ==
    [r EXCEPT !.Deployed = Cardinality(Having(a, e, "deployed")),
              !.Failed = Cardinality(Having(a, e, "failed")),
              !.PropagationFailed = Cardinality(Having(a, e, "propagationFailed")),
              !.InProgress = IF i < 0 THEN 0 ELSE i,
              !.results = [c \in Clusters |-> e[c][a]]]

InProgressOf(r, a, e) == r.Clusters - Cardinality(Having(a, e, "propagationFailed"))
                                    - Cardinality(Having(a, e, "deployed"))
                                    - Cardinality(Having(a, e, "failed"))

\* newAppSubReport: the report of a after the entries e, where it was r.
NewAppSubReport(r, a, e) == CountedReport(r, a, e, InProgressOf(r, a, e))

\* createOrUpdateAppSubReport for one Subscription, in any order: a report that is
\* not there is not created, a failed update is only logged.
AggReport(a) ==
    /\ agg.pc = "reports" /\ a \in agg.todo
    /\ \/ /\ report[a].exists = "yes" /\ Ok
          /\ report' = [report EXCEPT ![a] = NewAppSubReport(@, a, agg.snap)]
       \/ report[a].exists = "yes" /\ Fail("update") /\ UNCHANGED report
       \/ report[a].exists = "no" /\ Ok /\ UNCHANGED report
    /\ agg' = [agg EXCEPT !.todo = @ \ {a}]
    /\ UNCHANGED <<world, subscribed, entry, hubVars, views>>

\* The views are refreshed unless their API is not ready.
AggReady ==
    /\ agg.pc = "reports" /\ agg.todo = {}
    /\ \/ Ok /\ agg' = [agg EXCEPT !.pc = "views", !.todo = Sources(agg.snap)]
       \/ Fail("ready") /\ agg' = NoRound
    /\ UNCHANGED <<world, subscribed, entry, report, hubVars, views>>

FirstOf(S) == CHOOSE c \in S : \A d \in S : c <= d
Failing(a) == Having(a, agg.snap, "failed")

\* The cluster on which a is to have a view: the first failing one, up to the limit.
Kept(a) == IF Failing(a) # {} /\ agg.count + 1 <= Limit THEN {FirstOf(Failing(a))} ELSE {}

\* (mutant) Nothing is deleted for an application that no longer fails.
OutdatedIfFailing(a) ==
    {v \in views : Kept(a) # {} /\ Label[v[2]] = Label[a] /\ v[1] \notin Kept(a)}

\* The views that cleanManagedClusterViewPerApp deletes: all others with a's label.
Outdated(a) == {v \in views : Label[v[2]] = Label[a] /\ v[1] \notin Kept(a)}

\* RefreshManagedClusterViews for one Subscription, in any order.  Failures are only
\* logged: a view is not created, others are not deleted.
AggView(a) ==
    /\ agg.pc = "views" /\ a \in agg.todo
    /\ \/ /\ Ok
          /\ views' = (views \ Outdated(a)) \cup (Kept(a) \X {a})
       \/ /\ Fail("view")
          /\ \E gone \in SUBSET Outdated(a), made \in SUBSET (Kept(a) \X {a}) :
                views' = (views \ gone) \cup made
    /\ agg' = [agg EXCEPT !.todo = @ \ {a},
                          !.count = IF Failing(a) # {} THEN @ + 1 ELSE @,
                          !.err = IF faults' = faults THEN @ ELSE "yes"]
    /\ UNCHANGED <<world, subscribed, entry, report, hubVars>>

\* The round is over.
AggEnd ==
    /\ agg.pc = "views" /\ agg.todo = {}
    /\ agg' = NoRound
    /\ UNCHANGED <<world, subscribed, entry, report, hubVars, views, faults>>

----------------------------------------------------------------------------
Agent(c, a) == AgentSubscribe(c, a) \/ AgentReport(c, a) \/ AgentWithdraw(c, a)
Hub == HubWorks \/ HubCheck \/ \E a \in Apps : HubCleanup(a) \/ HubReport(a)
Aggregate == AggList \/ AggReady \/ AggEnd \/ \E a \in Apps : AggReport(a) \/ AggView(a)

ReportNext ==
    \/ \E a \in Apps : EditApp(a) \/ EditDecision(a)
    \/ \E c \in Clusters, a \in Apps : Agent(c, a)
    \/ Hub \/ Aggregate

\* The hub serves every request, the rounds go on, and an agent does its part.
ReportFairness ==
    /\ WF_reportVars(HubWorks \/ HubCheck)
    /\ \A a \in Apps : SF_reportVars(HubCleanup(a) \/ HubReport(a))
    /\ WF_reportVars(Aggregate)
    /\ \A c \in Clusters, a \in Apps : WF_reportVars(Agent(c, a))

ReportSpec == ReportInit /\ [][ReportNext]_reportVars
FairReportSpec == ReportSpec /\ ReportFairness

----------------------------------------------------------------------------
(* Properties.                                                              *)

ReportType == [exists: {"yes", "no"}, Clusters: Nat, Deployed: Nat, Failed: Nat,
               PropagationFailed: Nat, InProgress: Int, results: [Clusters -> Results]]
EntryType == [Clusters -> [Apps -> Results]]

\* Every variable keeps to its type; in progress is the only count that can be negative.
ReportTypeOK ==
    /\ alive \subseteq Apps /\ queue \subseteq Apps
    /\ decision \in [Apps -> SUBSET Clusters]
    /\ works \in [Apps -> SUBSET Clusters]
    /\ subscribed \in [Apps -> SUBSET Clusters]
    /\ entry \in EntryType
    /\ report \in [Apps -> ReportType]
    /\ views \subseteq Clusters \X Apps
    /\ hub \in [pc: {"idle", "works", "check"}, app: Apps, targets: SUBSET Clusters]
    /\ agg \in [pc: {"idle", "reports", "views"}, snap: EntryType, todo: SUBSET Apps,
                count: Nat, err: {"yes", "no"}]
    /\ edits \in 0 .. MaxEdits /\ faults \in 0 .. MaxReportFaults

\* Whichever of the two writers wrote a report last, and in whatever order they took
\* turns, the clusters in progress are those that are not accounted for
\* (createAppAppsubReport, newAppSubReport); if more are accounted for than the
\* placement has, the aggregation says that none is in progress.
CountsAddUp ==
    \A a \in Apps :
        LET r == report[a]
            rest == r.Clusters - r.Deployed - r.Failed - r.PropagationFailed
        IN r.InProgress = rest \/ (r.InProgress = 0 /\ rest < 0)

\* What an agent has reported of a Subscription is taken back or changed by that agent
\* only: the hub, which writes to the same report when a ManifestWork fails, never
\* replaces it (CreateFailedAppsubReportResult).
AgentsWordStands ==
    [][\A c \in Clusters, a \in Apps :
         entry[c][a] \in Found /\ entry'[c][a] # entry[c][a] =>
             c \in subscribed[a] /\ entry'[c][a] # "propagationFailed"]_reportVars

\* A round that met no failure leaves the Subscriptions it listed with views on the first
\* failing cluster only, with none if nothing fails, and with as many as fail up to the
\* limit, in whatever order it took them (RefreshManagedClusterViews).
RoundLeavesViews ==
    [][agg.pc = "views" /\ agg'.pc = "idle" /\ agg.err = "no" =>
         LET listed == Sources(agg.snap)
             failing == {a \in listed : Failing(a) # {}}
             left == {v \in views : v[2] \in listed}
         IN /\ \A v \in left : v[2] \in failing /\ v[1] = FirstOf(Failing(v[2]))
            /\ Cardinality(left) = IF Cardinality(failing) < Limit THEN Cardinality(failing) ELSE Limit]_reportVars

\* The report of a says what the reports of the clusters say.
SaysResults(a) ==
    /\ report[a].exists = "yes"
    /\ report[a].results = [c \in Clusters |-> entry[c][a]]
    /\ report[a].Deployed = Cardinality(Having(a, entry, "deployed"))
    /\ report[a].Failed = Cardinality(Having(a, entry, "failed"))
    /\ report[a].Clusters = Cardinality(decision[a])
SaysUnreached(a) == report[a].PropagationFailed = Cardinality(Having(a, entry, "propagationFailed"))

\* Once users and workloads leave it alone, the report of every Subscription that some
\* cluster mentions comes to say what the clusters say and keeps saying it.  Only the
\* number of clusters not reached may be set back by a reconcile that waits for post
\* hooks: it is right again after every round (createOrUpdateAppSubReport).
ReportsSettle ==
    \A a \in Apps :
        LET due == a \in alive /\ a \in Sources(entry)
        IN /\ <>[](due => SaysResults(a))
           /\ IF a \in Hooked THEN []<>(due => SaysUnreached(a)) ELSE <>[](due => SaysUnreached(a))
=============================================================================
