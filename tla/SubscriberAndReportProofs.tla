-------------------------- MODULE SubscriberAndReportProofs --------------------------
(***************************************************************************)
(* Theorems about the reports made of what the agents answer, for any       *)
(* subscriptions, clusters, labels and limit, and about the Git subscriber, *)
(* for every set of resources, commits and settings; for every bound and    *)
(* every set of failures.                                                   *)
(***************************************************************************)
EXTENDS GitSubscriber, AppReports, FiniteSetTheorems, WellFoundedInduction, TLAPS

-----------------------------------------------------------------------------
(* The reports.                                                             *)


\* CountsAddUp of one report.
AddsUp(r) ==
    LET rest == r.Clusters - r.Deployed - r.Failed - r.PropagationFailed
    IN r.InProgress = rest \/ (r.InProgress = 0 /\ rest < 0)

\* The number of clusters in a set of them is a number.
LEMMA CountType ==
    ASSUME NEW S \in SUBSET Clusters
    PROVE  Cardinality(S) \in Nat
BY Zenon, FS_Subset, FS_CardinalityType, ReportAssumption

\* A call that fails or succeeds keeps the fault counter within its bound.
LEMMA FaultsType ==
    ASSUME faults \in 0 .. MaxReportFaults, NEW f, Fail(f) \/ Ok
    PROVE  faults' \in 0 .. MaxReportFaults
BY ReportAssumption DEF Fail, Ok

\* An edit keeps the counter of edits within its bound.
LEMMA EditsType ==
    ASSUME edits \in 0 .. MaxEdits, Edit \/ UNCHANGED edits
    PROVE  edits' \in 0 .. MaxEdits
BY ReportAssumption DEF Edit

\* A Subscription without a report counts nothing, which adds up.
LEMMA NoReportAddsUp == NoReport \in ReportType /\ AddsUp(NoReport)
BY DEF NoReport, ReportType, Results, AddsUp

\* createAppAppsubReport keeps the type of a report.
LEMMA CreateType ==
    ASSUME NEW r \in ReportType, NEW n \in Nat, NEW k \in Nat
    PROVE  CreateAppAppsubReport(r, n, k) \in ReportType
<1>1. ASSUME NEW s \in ReportType, NEW i \in Int
      PROVE  [s EXCEPT !.InProgress = i, !.PropagationFailed = n, !.Clusters = k] \in ReportType
  BY Zenon DEF ReportType
<1>2. ASSUME NEW s \in ReportType, NEW i \in Int
      PROVE  [s EXCEPT !.exists = "yes", !.Clusters = k, !.PropagationFailed = n,
                       !.InProgress = i] \in ReportType
  BY Zenon DEF ReportType
<1>3. NewReport(n, k) \in ReportType
  <2> DEFINE i == IF n > 0 THEN 0 ELSE k
  <2>1. i \in Int
    OBVIOUS
  <2>2. NewReport(n, k) = [NoReport EXCEPT !.exists = "yes", !.Clusters = k,
                                          !.PropagationFailed = n, !.InProgress = i]
    BY DEF NewReport
  <2> HIDE DEF i
  <2> QED BY Zenon, <1>2, <2>1, <2>2, NoReportAddsUp
<1>4. k - r.Deployed - r.Failed \in Int
  BY DEF ReportType
<1> QED BY Zenon, <1>1, <1>3, <1>4 DEF CreateAppAppsubReport

\* createAppAppsubReport leaves counts that add up, in both of its calls.
LEMMA CreateAddsUp ==
    ASSUME NEW r \in ReportType, AddsUp(r), NEW k \in Nat
    PROVE  /\ AddsUp(CreateAppAppsubReport(r, 1, 1))
           /\ AddsUp(CreateAppAppsubReport(r, 0, k))
<1>1. AddsUp(NewReport(1, 1)) /\ AddsUp(NewReport(0, k))
  BY DEF NewReport, NoReport, AddsUp
<1>2. AddsUp([r EXCEPT !.InProgress = k - r.Deployed - r.Failed,
                       !.PropagationFailed = 0, !.Clusters = k])
  BY DEF AddsUp, ReportType
<1> QED BY <1>1, <1>2 DEF CreateAppAppsubReport

\* newAppSubReport keeps the type of a report and leaves counts that add up.
LEMMA CountedAddsUp ==
    ASSUME NEW r \in ReportType, NEW a \in Apps, NEW e \in EntryType
    PROVE  NewAppSubReport(r, a, e) \in ReportType /\ AddsUp(NewAppSubReport(r, a, e))
<1> DEFINE d == Cardinality(Having(a, e, "deployed"))
           f == Cardinality(Having(a, e, "failed"))
           p == Cardinality(Having(a, e, "propagationFailed"))
           i == r.Clusters - p - d - f
           n == [r EXCEPT !.Deployed = d, !.Failed = f, !.PropagationFailed = p,
                          !.InProgress = IF i < 0 THEN 0 ELSE i,
                          !.results = [c \in Clusters |-> e[c][a]]]
<1>1. d \in Nat /\ f \in Nat /\ p \in Nat
  BY CountType DEF Having
<1>2. [c \in Clusters |-> e[c][a]] \in [Clusters -> Results]
  BY DEF EntryType
<1>3. NewAppSubReport(r, a, e) = n
  BY DEF NewAppSubReport, CountedReport, InProgressOf
<1> HIDE DEF d, f, p
<1>4. r.Clusters \in Nat /\ i \in Int /\ (IF i < 0 THEN 0 ELSE i) \in Int
  BY <1>1 DEF ReportType
<1>5. n \in ReportType
  <2> HIDE DEF i
  <2> QED BY Zenon, <1>1, <1>2, <1>4 DEF ReportType
<1>6. /\ n.Clusters = r.Clusters /\ n.Deployed = d /\ n.Failed = f
      /\ n.PropagationFailed = p /\ n.InProgress = IF i < 0 THEN 0 ELSE i
  BY DEF ReportType
<1> HIDE DEF n
<1>7. AddsUp(n)
  BY <1>1, <1>4, <1>6 DEF AddsUp
<1> QED BY Zenon, <1>3, <1>5, <1>7

----------------------------------------------------------------------------
(* Types.                                                                   *)

HubType == [pc: {"idle", "works", "check"}, app: Apps, targets: SUBSET Clusters]
AggType == [pc: {"idle", "reports", "views"}, snap: EntryType, todo: SUBSET Apps,
            count: Nat, err: {"yes", "no"}]

\* The entries that CreateFailedAppsubReportResult leaves are entries.
LEMMA NoteType ==
    ASSUME entry \in EntryType, NEW a \in Apps, NEW S
    PROVE  Note(a, S) \in EntryType
BY Zenon DEF Note, EntryType, Results

\* The variables are well typed at the start.
LEMMA ReportInitType == ReportInit => ReportTypeOK
<1> SUFFICES ASSUME ReportInit PROVE ReportTypeOK
  OBVIOUS
<1>1. Blank \in EntryType /\ NoReport \in ReportType
  BY Zenon, NoReportAddsUp DEF Blank, EntryType, Results
<1>2. agg \in AggType
  BY ZenonT(60), <1>1 DEF ReportInit, NoRound, Round, AggType
<1>3. hub \in HubType
  <2>1. (CHOOSE a \in Apps : TRUE) \in Apps
    BY ReportAssumption
  <2> QED BY <2>1 DEF ReportInit, HubType
<1> QED BY <1>1, <1>2, <1>3, ReportAssumption DEF ReportInit, ReportTypeOK, AggType, HubType

\* The steps of users and agents keep the types.
LEMMA OutsideType ==
    ASSUME ReportTypeOK, NEW c \in Clusters, NEW a \in Apps,
           EditApp(a) \/ EditDecision(a) \/ Agent(c, a)
    PROVE  ReportTypeOK'
<1>1. CASE EditApp(a)
  BY Zenon, <1>1, EditsType, NoReportAddsUp DEF EditApp, ReportTypeOK, aggVars
<1>2. CASE EditDecision(a)
  BY SMTT(60), <1>2, EditsType DEF EditDecision, ReportTypeOK, aggVars
<1>3. CASE AgentSubscribe(c, a)
  BY Zenon, <1>3 DEF AgentSubscribe, ReportTypeOK, world, hubVars, aggVars
<1>4. CASE AgentReport(c, a)
  <2>1. entry' \in EntryType
    BY SMTT(60), <1>4 DEF AgentReport, ReportTypeOK, EntryType, Found, Results
  <2>2. edits' \in 0 .. MaxEdits
    BY Zenon, <1>4, EditsType DEF AgentReport, ReportTypeOK
  <2> QED BY Zenon, <1>4, <2>1, <2>2 DEF AgentReport, ReportTypeOK, hubVars, aggVars
<1>5. CASE AgentWithdraw(c, a)
  <2>1. entry' \in EntryType
    <3>1. [entry EXCEPT ![c][a] = "none"] \in EntryType
      BY DEF ReportTypeOK, EntryType, Results
    <3> QED BY Zenon, <1>5, <3>1 DEF AgentWithdraw, ReportTypeOK
  <2>2. faults' \in 0 .. MaxReportFaults
    BY <1>5, FaultsType DEF AgentWithdraw, ReportTypeOK
  <2> QED BY Zenon, <1>5, <2>1, <2>2 DEF AgentWithdraw, ReportTypeOK, world, hubVars, aggVars
<1> QED BY Zenon, <1>1, <1>2, <1>3, <1>4, <1>5 DEF Agent

\* The steps of the hub keep the types.
LEMMA HubTypes ==
    ASSUME ReportTypeOK, Hub
    PROVE  ReportTypeOK'
<1> USE DEF HubType
<1>1. ASSUME NEW a \in Apps, HubCleanup(a)
      PROVE  ReportTypeOK'
  <2>1. faults' \in 0 .. MaxReportFaults
    BY Zenon, <1>1, FaultsType DEF HubCleanup, ReportTypeOK
  <2> QED BY <1>1, <2>1 DEF HubCleanup, ReportTypeOK, world, aggVars
<1>2. ASSUME NEW a \in Apps, HubReport(a)
      PROVE  ReportTypeOK'
  <2>1. faults' \in 0 .. MaxReportFaults
    BY <1>2, FaultsType DEF HubReport, ReportTypeOK
  <2>2. report[a] \in ReportType /\ Cardinality(decision[a]) \in Nat
    BY Zenon, CountType DEF ReportTypeOK
  <2>3. /\ CreateAppAppsubReport(report[a], 1, 1) \in ReportType
        /\ CreateAppAppsubReport(report[a], 0, Cardinality(decision[a])) \in ReportType
    BY Zenon, <2>2, CreateType
  <2>4. report' \in [Apps -> ReportType]
    BY Zenon, <1>2, <2>3 DEF HubReport, ReportTypeOK
  <2>5. hub' \in HubType /\ queue' \subseteq Apps /\ works' = works
    BY <1>2 DEF HubReport, ReportTypeOK, hubVars
  <2> QED BY Zenon, <1>2, <2>1, <2>4, <2>5 DEF HubReport, ReportTypeOK, world, aggVars
<1>3. CASE HubWorks
  <2> DEFINE a == hub.app
             t == hub.targets
  <2>1. a \in Apps /\ t \subseteq Clusters /\ works[a] \subseteq Clusters
    BY DEF ReportTypeOK
  <2>2. faults' \in 0 .. MaxReportFaults
    BY <1>3, FaultsType DEF HubWorks, ReportTypeOK
  <2>3. entry' = entry \/ \E S : entry' = Note(a, S)
    BY Zenon, <1>3 DEF HubWorks
  <2>4. entry' \in EntryType
    BY <2>1, <2>3, NoteType DEF ReportTypeOK
  <2>5. hub' \in HubType
    BY <1>3 DEF HubWorks, ReportTypeOK
  <2>6. queue' \subseteq Apps
    BY <1>3, <2>1 DEF HubWorks, ReportTypeOK
  <2>7. \E w \in SUBSET Clusters : works' = [works EXCEPT ![a] = w]
    BY Zenon, <1>3, <2>1 DEF HubWorks
  <2>8. works' \in [Apps -> SUBSET Clusters]
    BY <2>1, <2>7 DEF ReportTypeOK
  <2> QED BY Zenon, <1>3, <2>2, <2>4, <2>5, <2>6, <2>8 DEF HubWorks, ReportTypeOK, world, aggVars
<1>4. CASE HubCheck
  <2>1. hub' \in HubType /\ queue' \subseteq Apps
    BY <1>4 DEF HubCheck, ReportTypeOK
  <2> QED BY <1>4, <2>1 DEF HubCheck, ReportTypeOK, world, aggVars
<1> QED BY Zenon, <1>1, <1>2, <1>3, <1>4 DEF Hub

\* The views that are kept are pairs of a cluster and a Subscription.
LEMMA KeptType ==
    ASSUME NEW a
    PROVE  Kept(a) \subseteq Clusters
<1>1. ASSUME NEW S \in SUBSET Clusters, S # {}
      PROVE  FirstOf(S) \in S
  <2>1. S \subseteq Nat
    BY ReportAssumption
  <2> DEFINE R == {ss \in Nat \X Nat : ss[1] < ss[2]}
  <2>2. IsWellFoundedOn(R, Nat)
    BY NatLessThanWellFounded DEF OpToRel
  <2> HIDE DEF R
  <2>3. PICK c \in S : \A d \in S : ~(<<d, c>> \in R)
    BY Zenon, <1>1, <2>1, <2>2, WFMin
  <2>4. ASSUME NEW d \in S PROVE c <= d
    <3>1. c \in Nat /\ d \in Nat
      BY <2>1
    <3>2. d < c => <<d, c>> \in R
      BY <3>1 DEF R
    <3>3. ~(d < c)
      BY <2>3, <3>2
    <3> QED BY <3>1, <3>3
  <2> QED BY <2>4 DEF FirstOf
<1>2. Failing(a) \in SUBSET Clusters
  BY DEF Failing, Having
<1> QED BY <1>1, <1>2 DEF Kept

\* The steps of the aggregation keep the types.
LEMMA AggTypes ==
    ASSUME ReportTypeOK, Aggregate
    PROVE  ReportTypeOK'
<1> USE DEF AggType
<1>1. agg \in AggType /\ NoRound \in AggType
  <2>1. Blank \in EntryType
    BY Zenon DEF Blank, EntryType, Results
  <2> QED BY <2>1 DEF ReportTypeOK, NoRound, Round
<1>2. CASE AggList
  <2>1. agg' \in AggType
    BY <1>2 DEF AggList, Round, Sources, ReportTypeOK
  <2> QED BY Zenon, <1>2, <2>1 DEF AggList, ReportTypeOK, world, hubVars
<1>3. CASE AggReady
  <2>1. agg' \in AggType
    BY ZenonT(60), <1>1, <1>3 DEF AggReady, Sources
  <2>2. faults' \in 0 .. MaxReportFaults
    BY <1>3, FaultsType DEF AggReady, ReportTypeOK
  <2> QED BY <1>3, <2>1, <2>2 DEF AggReady, ReportTypeOK, world, hubVars
<1>4. CASE AggEnd
  BY <1>1, <1>4 DEF AggEnd, ReportTypeOK, world, hubVars
<1>5. ASSUME NEW a \in Apps, AggReport(a)
      PROVE  ReportTypeOK'
  <2>1. faults' \in 0 .. MaxReportFaults
    BY Zenon, <1>5, FaultsType DEF AggReport, ReportTypeOK
  <2>2. agg' \in AggType
    BY <1>1, <1>5 DEF AggReport
  <2>3. NewAppSubReport(report[a], a, agg.snap) \in ReportType
    BY <1>1, CountedAddsUp DEF ReportTypeOK
  <2>4. report' \in [Apps -> ReportType]
    BY <1>5, <2>3 DEF AggReport, ReportTypeOK
  <2> QED BY <1>5, <2>1, <2>2, <2>4 DEF AggReport, ReportTypeOK, world, hubVars
<1>6. ASSUME NEW a \in Apps, AggView(a)
      PROVE  ReportTypeOK'
  <2>1. faults' \in 0 .. MaxReportFaults
    BY <1>6, FaultsType DEF AggView, ReportTypeOK
  <2>2. ASSUME NEW n \in Nat, NEW e \in {"yes", "no"}
        PROVE  [agg EXCEPT !.todo = @ \ {a}, !.count = n, !.err = e] \in AggType
    BY Zenon, <1>1
  <2>3. \E n \in Nat, e \in {"yes", "no"} :
          agg' = [agg EXCEPT !.todo = @ \ {a}, !.count = n, !.err = e]
    <3> DEFINE n == IF Failing(a) # {} THEN agg.count + 1 ELSE agg.count
               e == IF faults' = faults THEN agg.err ELSE "yes"
    <3>1. n \in Nat /\ e \in {"yes", "no"}
      BY <1>1
    <3>2. agg' = [agg EXCEPT !.todo = @ \ {a}, !.count = n, !.err = e]
      BY <1>6 DEF AggView
    <3> HIDE DEF n, e
    <3> QED BY Zenon, <3>1, <3>2
  <2>4. agg' \in AggType
    BY Zenon, <2>2, <2>3
  <2>5. Kept(a) \X {a} \subseteq Clusters \X Apps
    BY KeptType
  <2>6. views' \subseteq views \cup (Kept(a) \X {a})
    BY <1>6 DEF AggView
  <2> QED BY Zenon, <1>6, <2>1, <2>4, <2>5, <2>6 DEF AggView, ReportTypeOK, world, hubVars
<1> QED BY ZenonT(60), <1>2, <1>3, <1>4, <1>5, <1>6 DEF Aggregate

\* Every variable of the reports keeps to its type, for any Subscriptions and clusters and
\* whatever fails.
THEOREM ReportsAreTyped == ReportSpec => []ReportTypeOK
<1>1. ReportInit => ReportTypeOK
  BY ReportInitType
<1>2. ReportTypeOK /\ [ReportNext]_reportVars => ReportTypeOK'
  <2>1. CASE UNCHANGED reportVars
    BY <2>1 DEF reportVars, ReportTypeOK
  <2>2. ASSUME ReportTypeOK, ReportNext PROVE ReportTypeOK'
    <3>1. ASSUME NEW a \in Apps, EditApp(a) PROVE ReportTypeOK'
      BY Zenon, <2>2, <3>1, EditsType, NoReportAddsUp DEF EditApp, ReportTypeOK, aggVars
    <3>2. ASSUME NEW a \in Apps, EditDecision(a) PROVE ReportTypeOK'
      BY <2>2, <3>2, EditsType DEF EditDecision, ReportTypeOK, aggVars
    <3> QED BY Zenon, <2>2, <3>1, <3>2, OutsideType, HubTypes, AggTypes DEF ReportNext
  <2> QED BY Zenon, <2>1, <2>2
<1> QED BY <1>1, <1>2, PTL DEF ReportSpec

----------------------------------------------------------------------------
(* The counts and the entries.                                              *)

\* Whoever wrote the report of an application last, the hub or the aggregation, its counts
\* add up.
THEOREM CountsAreRight == ReportSpec => []CountsAddUp
<1> DEFINE Inv == \A a \in Apps : AddsUp(report[a])
<1>1. ReportInit => Inv
  BY NoReportAddsUp DEF ReportInit
<1>2. ReportTypeOK /\ Inv /\ [ReportNext]_reportVars => Inv'
  <2> SUFFICES ASSUME ReportTypeOK, Inv, [ReportNext]_reportVars PROVE Inv'
    OBVIOUS
  <2>1. ASSUME NEW a \in Apps, NEW r, AddsUp(r), report' = [report EXCEPT ![a] = r]
        PROVE  Inv'
    BY <2>1 DEF ReportTypeOK
  <2>2. ASSUME NEW a \in Apps, EditApp(a) PROVE Inv'
    BY <2>1, <2>2, NoReportAddsUp DEF EditApp
  <2>3. ASSUME NEW a \in Apps, HubReport(a) PROVE Inv'
    <3>1. report[a] \in ReportType /\ Cardinality(decision[a]) \in Nat
      BY Zenon, CountType DEF ReportTypeOK
    <3>2. /\ AddsUp(CreateAppAppsubReport(report[a], 1, 1))
          /\ AddsUp(CreateAppAppsubReport(report[a], 0, Cardinality(decision[a])))
      BY Zenon, <3>1, CreateAddsUp
    <3>3. CASE UNCHANGED report
      BY Zenon, <3>3
    <3>4. CASE ~UNCHANGED report
      BY ZenonT(60), <2>1, <2>3, <3>2, <3>4 DEF HubReport
    <3> QED BY <3>3, <3>4
  <2>4. ASSUME NEW a \in Apps, AggReport(a) PROVE Inv'
    <3>1. AddsUp(NewAppSubReport(report[a], a, agg.snap))
      BY CountedAddsUp DEF ReportTypeOK
    <3>2. CASE UNCHANGED report
      BY <3>2
    <3>3. CASE ~UNCHANGED report
      BY <2>1, <2>4, <3>1, <3>3 DEF AggReport
    <3> QED BY <3>2, <3>3
  <2>5. CASE UNCHANGED report
    BY <2>5
  <2>6. \/ UNCHANGED report
        \/ \E a \in Apps : EditApp(a) \/ HubReport(a) \/ AggReport(a)
    BY ZenonT(60) DEF ReportNext, Agent, Hub, Aggregate, EditDecision, AgentSubscribe, AgentReport, AgentWithdraw,
           HubCleanup, HubWorks, HubCheck, AggList, AggReady, AggView, AggEnd, reportVars
  <2> QED BY Zenon, <2>2, <2>3, <2>4, <2>5, <2>6
<1>3. Inv => CountsAddUp
  BY DEF AddsUp, CountsAddUp
<1> QED BY <1>1, <1>2, <1>3, ReportsAreTyped, PTL DEF ReportSpec

\* What an agent has reported is never replaced by the hub, and changed or taken back only on
\* a cluster whose agent follows the Subscription.
THEOREM AgentsAreHeard == ReportSpec => AgentsWordStands
<1> DEFINE Stands == \A c \in Clusters, a \in Apps :
                        entry[c][a] \in Found /\ entry'[c][a] # entry[c][a] =>
                          c \in subscribed[a] /\ entry'[c][a] # "propagationFailed"
<1>1. ReportTypeOK /\ [ReportNext]_reportVars => [Stands]_reportVars
  <2> SUFFICES ASSUME ReportTypeOK, [ReportNext]_reportVars PROVE Stands
    BY Zenon
  <2>1. ASSUME NEW d \in Clusters, NEW b \in Apps, NEW v, v # "propagationFailed",
               d \in subscribed[b], entry' = [entry EXCEPT ![d][b] = v]
        PROVE  Stands
    BY Zenon, <2>1 DEF ReportTypeOK, EntryType
  <2>2. ASSUME NEW b, NEW S, entry' = Note(b, S)
        PROVE  Stands
    BY Zenon, <2>2 DEF Note, Found, ReportTypeOK, EntryType
  <2>3. CASE UNCHANGED entry
    BY Zenon, <2>3
  <2>4. ASSUME NEW d \in Clusters, NEW b \in Apps, AgentReport(d, b)
        PROVE  Stands
    BY Zenon, <2>1, <2>4 DEF AgentReport, Found
  <2>5. ASSUME NEW d \in Clusters, NEW b \in Apps, AgentWithdraw(d, b)
        PROVE  Stands
    BY Zenon, <2>1, <2>3, <2>5 DEF AgentWithdraw
  <2>6. CASE HubWorks
    <3>1. UNCHANGED entry \/ \E S : entry' = Note(hub.app, S)
      BY Zenon, <2>6 DEF HubWorks
    <3> QED BY <2>2, <2>3, <3>1
  <2>7. \/ UNCHANGED entry \/ HubWorks
        \/ \E d \in Clusters, b \in Apps : AgentReport(d, b) \/ AgentWithdraw(d, b)
    BY ZenonT(60) DEF ReportNext, Agent, Hub, Aggregate, EditApp, EditDecision, AgentSubscribe, HubCleanup,
           HubReport, HubCheck, AggList, AggReady, AggReport, AggView, AggEnd, reportVars
  <2> HIDE DEF Stands
  <2> QED BY Zenon, <2>3, <2>4, <2>5, <2>6, <2>7
<1> QED BY <1>1, ReportsAreTyped, PTL DEF ReportSpec, AgentsWordStands

----------------------------------------------------------------------------
(* The views.                                                               *)

\* In the middle of a round: the Subscriptions that it has dealt with, the failing ones
\* among them, and the views of those.
Finished == Sources(agg.snap) \ agg.todo
DoneFailing == {a \in Finished : Failing(a) # {}}
DoneViews == {v \in views : v[2] \in Finished}
UpToLimit(n) == IF n < Limit THEN n ELSE Limit

\* RoundLeavesViews for the part of the round that is over.
ViewsInv ==
    /\ agg.pc = "reports" => agg.count = 0
    /\ agg.pc = "views" =>
        /\ agg.todo \subseteq Sources(agg.snap)
        /\ IsFiniteSet(DoneFailing) /\ agg.count = Cardinality(DoneFailing)
        /\ agg.err = "no" =>
             /\ \A v \in DoneViews : v[2] \in DoneFailing /\ v[1] = FirstOf(Failing(v[2]))
             /\ IsFiniteSet(DoneViews) /\ Cardinality(DoneViews) = UpToLimit(agg.count)

\* A step that is none of the round's leaves what the round has done as it was.
LEMMA ViewsElsewhere ==
    ASSUME ViewsInv, UNCHANGED <<agg, views>>
    PROVE  ViewsInv'
BY Zenon DEF ViewsInv, Finished, DoneFailing, DoneViews, Failing

\* One element more counts one more.
LEMMA AddOne ==
    ASSUME NEW S, IsFiniteSet(S), NEW x, x \notin S
    PROVE  IsFiniteSet(S \cup {x}) /\ Cardinality(S \cup {x}) = Cardinality(S) + 1
BY Zenon, FS_AddElement

\* One more counts as long as the limit is not reached.
LEMMA CountOne ==
    ASSUME NEW n \in Nat
    PROVE  UpToLimit(n + 1) = IF n + 1 <= Limit THEN UpToLimit(n) + 1 ELSE UpToLimit(n)
BY ReportAssumption DEF UpToLimit

\* One application more: its view if it fails and the limit is not reached, the views of the
\* others as they were.
LEMMA OneMore ==
    ASSUME \A a, b \in Apps : Label[a] = Label[b] => a = b,
           ReportTypeOK, ViewsInv, NEW a \in Apps, AggView(a)
    PROVE  ViewsInv'
<1>1. /\ agg.pc = "views" /\ a \in agg.todo /\ agg \in AggType
      /\ agg.todo \subseteq Sources(agg.snap) /\ views \subseteq Clusters \X Apps
      /\ faults \in Nat /\ Limit \in Nat
  BY ReportAssumption DEF AggView, ViewsInv, ReportTypeOK, AggType
<1>2. /\ agg'.pc = "views" /\ agg'.snap = agg.snap /\ agg'.todo = agg.todo \ {a}
      /\ agg'.count = IF Failing(a) # {} THEN agg.count + 1 ELSE agg.count
      /\ agg'.err = IF faults' = faults THEN agg.err ELSE "yes"
  BY Zenon, <1>1 DEF AggView, AggType
<1>3. Finished' = Finished \cup {a} /\ a \notin Finished
  BY ZenonT(60), <1>1, <1>2 DEF Finished
<1>4. \A b : Failing(b)' = Failing(b)
  BY ZenonT(60), <1>2 DEF Failing, Having
<1>5. /\ IsFiniteSet(DoneFailing) /\ agg.count = Cardinality(DoneFailing) /\ agg.count \in Nat
      /\ a \notin DoneFailing
  BY Zenon, <1>1, <1>3 DEF ViewsInv, AggType, DoneFailing
<1>6. DoneFailing' = IF Failing(a) # {} THEN DoneFailing \cup {a} ELSE DoneFailing
  BY Zenon, <1>3, <1>4 DEF DoneFailing
<1>7. IsFiniteSet(DoneFailing') /\ agg'.count = Cardinality(DoneFailing')
  <2>1. CASE Failing(a) # {}
    <3>1. DoneFailing' = DoneFailing \cup {a} /\ agg'.count = agg.count + 1
      BY Zenon, <1>2, <1>6, <2>1
    <3> QED BY ZenonT(60), <1>5, <3>1, AddOne
  <2> QED BY ZenonT(60), <1>2, <1>5, <1>6, <2>1
<1>8. ASSUME agg'.err = "no"
      PROVE  /\ \A v \in DoneViews' : v[2] \in DoneFailing' /\ v[1] = FirstOf(Failing(v[2]))'
             /\ IsFiniteSet(DoneViews') /\ Cardinality(DoneViews') = UpToLimit(agg'.count)
  <2>1. agg.err = "no" /\ faults' = faults
    BY Zenon, <1>2, <1>8
  <2>2. views' = (views \ Outdated(a)) \cup (Kept(a) \X {a})
    BY SMTT(60), <1>1, <2>1 DEF AggView, Fail
  <2>3. /\ \A v \in DoneViews : v[2] \in DoneFailing /\ v[1] = FirstOf(Failing(v[2]))
        /\ IsFiniteSet(DoneViews) /\ Cardinality(DoneViews) = UpToLimit(agg.count)
    BY Zenon, <1>1, <2>1 DEF ViewsInv
  <2>4. \A v \in views : v \in Outdated(a) <=> v[2] = a /\ v[1] \notin Kept(a)
    BY Zenon, <1>1 DEF Outdated
  <2>5. \A v \in views : v[2] = a /\ v[1] \in Kept(a) => v \in Kept(a) \X {a}
    BY Zenon, <1>1
  <2>6. DoneViews' = DoneViews \cup (Kept(a) \X {a})
    BY ZenonT(60), <1>1, <1>3, <2>2, <2>4, <2>5 DEF DoneViews
  <2>7. CASE Kept(a) = {}
    <3>1. DoneViews' = DoneViews
      BY <2>6, <2>7
    <3>2. Failing(a) = {} \/ ~(agg.count + 1 <= Limit)
      BY Zenon, <2>7 DEF Kept
    <3>3. UpToLimit(agg'.count) = UpToLimit(agg.count)
      BY Zenon, <1>2, <1>5, <3>2, CountOne
    <3>4. \A b : FirstOf(Failing(b))' = FirstOf(Failing(b))
      BY Zenon, <1>4 DEF FirstOf
    <3> QED BY Zenon, <1>6, <2>3, <3>1, <3>3, <3>4
  <2>8. CASE Kept(a) # {}
    <3> DEFINE x == <<FirstOf(Failing(a)), a>>
    <3>1. Failing(a) # {} /\ agg.count + 1 <= Limit /\ Kept(a) = {FirstOf(Failing(a))}
      BY Zenon, <2>8 DEF Kept
    <3>2. DoneViews' = DoneViews \cup {x} /\ x \notin DoneViews
      BY SMTT(60), <1>3, <2>6, <3>1 DEF DoneViews
    <3>3. IsFiniteSet(DoneViews') /\ Cardinality(DoneViews') = Cardinality(DoneViews) + 1
      BY Zenon, <2>3, <3>2, AddOne
    <3>4. UpToLimit(agg'.count) = UpToLimit(agg.count) + 1
      BY Zenon, <1>2, <1>5, <3>1, CountOne
    <3>5. \A b : FirstOf(Failing(b))' = FirstOf(Failing(b))
      BY <1>4 DEF FirstOf
    <3>6. a \in DoneFailing' /\ DoneFailing \subseteq DoneFailing'
      BY Zenon, <1>6, <3>1
    <3>7. ASSUME NEW v \in DoneViews'
          PROVE  v[2] \in DoneFailing' /\ v[1] = FirstOf(Failing(v[2]))'
      <4>1. CASE v \in DoneViews BY Zenon, <2>3, <3>5, <3>6, <4>1
      <4>2. CASE v = x
        <5>1. v[1] = FirstOf(Failing(a)) /\ v[2] = a BY <4>2
        <5> QED BY Zenon, <3>5, <3>6, <5>1
      <4> QED BY Zenon, <3>2, <4>1, <4>2
    <3>8. Cardinality(DoneViews') = UpToLimit(agg'.count) BY Zenon, <2>3, <3>3, <3>4
    <3> QED BY Zenon, <3>3, <3>7, <3>8
  <2> QED BY Zenon, <2>7, <2>8
<1>9. agg'.todo \subseteq Sources(agg.snap)'
  BY SMTT(60), <1>1, <1>2 DEF Sources, Having
<1> QED BY <1>2, <1>7, <1>8, <1>9 DEF ViewsInv, UpToLimit

\* The views are right at every point of a round.
LEMMA ViewsStep ==
    ASSUME \A a, b \in Apps : Label[a] = Label[b] => a = b,
           ReportTypeOK, ViewsInv, [ReportNext]_reportVars
    PROVE  ViewsInv'
<1>1. ASSUME agg' = NoRound PROVE ViewsInv'
  BY <1>1 DEF ViewsInv, NoRound, Round
<1>2. CASE AggReady
  <2>1. CASE agg' = NoRound
    BY Zenon, <1>1, <2>1
  <2>2. CASE agg' = [agg EXCEPT !.pc = "views", !.todo = Sources(agg.snap)]
    <3>1. /\ agg'.pc = "views" /\ agg'.snap = agg.snap /\ agg'.todo = Sources(agg.snap)
          /\ agg'.count = 0
      BY <1>2, <2>2 DEF AggReady, ReportTypeOK, ViewsInv
    <3>2. Sources(agg.snap)' = Sources(agg.snap)
      BY ZenonT(60), <3>1 DEF Sources, Having
    <3>3. Finished' = {} /\ DoneFailing' = {} /\ DoneViews' = {}
      BY <3>1, <3>2 DEF Finished, DoneFailing, DoneViews
    <3>4. UpToLimit(0) = 0
      BY ReportAssumption DEF UpToLimit
    <3> QED BY <3>1, <3>2, <3>3, <3>4, FS_EmptySet DEF ViewsInv, UpToLimit
  <2> QED BY <1>2, <2>1, <2>2 DEF AggReady
<1>3. CASE AggList
  <2>1. agg'.pc = "reports" /\ agg'.count = 0
    BY <1>3 DEF AggList, Round
  <2> QED BY Zenon, <2>1 DEF ViewsInv
<1>4. CASE AggEnd
  BY Zenon, <1>1, <1>4 DEF AggEnd
<1>5. ASSUME NEW a \in Apps, AggReport(a) PROVE ViewsInv'
  <2>1. agg'.pc = "reports" /\ agg'.count = 0
    BY <1>5 DEF AggReport, ViewsInv, ReportTypeOK
  <2> QED BY <2>1 DEF ViewsInv
<1>6. ASSUME NEW a \in Apps, AggView(a) PROVE ViewsInv'
  BY <1>6, OneMore
<1>7. CASE UNCHANGED <<agg, views>>
  BY <1>7, ViewsElsewhere
<1>8. UNCHANGED <<agg, views>> \/ Aggregate
  BY ZenonT(60) DEF ReportNext, Agent, Hub, EditApp, EditDecision, AgentSubscribe, AgentReport, AgentWithdraw,
         HubCleanup, HubReport, HubWorks, HubCheck, aggVars, reportVars
<1> QED BY Zenon, <1>2, <1>3, <1>4, <1>5, <1>6, <1>7, <1>8 DEF Aggregate

\* A round of the aggregation that met no failure leaves the Subscriptions it listed with the
\* views they are to have, for any number of them and in any order, if labels tell them apart.
THEOREM ViewsAreRight ==
    ASSUME \A a, b \in Apps : Label[a] = Label[b] => a = b
    PROVE  ReportSpec => RoundLeavesViews
<1> DEFINE Leaves == agg.pc = "views" /\ agg'.pc = "idle" /\ agg.err = "no" =>
               LET listed == Sources(agg.snap)
                   failing == {a \in listed : Failing(a) # {}}
                   left == {v \in views : v[2] \in listed}
               IN /\ \A v \in left : v[2] \in failing /\ v[1] = FirstOf(Failing(v[2]))
                  /\ Cardinality(left) = IF Cardinality(failing) < Limit
                                         THEN Cardinality(failing) ELSE Limit
<1>1. ReportInit => ViewsInv
  BY DEF ReportInit, NoRound, Round, ViewsInv
<1>2. ReportTypeOK /\ ViewsInv /\ [ReportNext]_reportVars => ViewsInv'
  BY Zenon, ViewsStep
<1>3. ReportTypeOK /\ ViewsInv /\ [ReportNext]_reportVars => [Leaves]_reportVars
  <2> SUFFICES ASSUME ReportTypeOK, ViewsInv, [ReportNext]_reportVars, agg.pc = "views", agg'.pc = "idle",
                      agg.err = "no"
               PROVE  Leaves
    OBVIOUS
  <2>1. agg.todo = {}
    <3>1. UNCHANGED agg \/ Aggregate
      BY Zenon DEF ReportNext, Agent, Hub, EditApp, EditDecision, AgentSubscribe, AgentReport, AgentWithdraw,
             HubCleanup, HubReport, HubWorks, HubCheck, aggVars, reportVars
    <3>2. ASSUME NEW a \in Apps, AggView(a) PROVE FALSE
      BY <3>2 DEF AggView, ReportTypeOK
    <3>3. Aggregate
      BY Zenon, <3>1
    <3> QED BY <3>2, <3>3 DEF Aggregate, AggList, AggReady, AggReport, AggEnd
  <2>2. Finished = Sources(agg.snap)
    BY <2>1 DEF Finished
  <2> QED BY ZenonT(60), <2>2 DEF ViewsInv, DoneFailing, DoneViews, UpToLimit
<1> QED BY <1>1, <1>2, <1>3, ReportsAreTyped, PTL DEF ReportSpec, RoundLeavesViews

-----------------------------------------------------------------------------
(* The Git subscriber.                                                      *)


\* Whatever the collecting passes return is made of resources, and their
\* failures are counted by a number.
LEMMA CollectedType ==
    ASSUME NEW c \in Commits, NEW col \in Collected(c)
    PROVE  col.rs \in SUBSET Resources /\ col.errs \in Nat
<1> DEFINE F == OfKind(c, "file")
           K == OfKind(c, "kustomize")
           H == OfKind(c, "chart")
           files == {[rs |-> F, errs |-> 0]} \cup
                    (IF "read" \in Faults
                     THEN {[rs |-> S, errs |-> 1] : S \in SUBSET F \ {F}} ELSE {})
           kusts == {[rs |-> f.rs \cup K, errs |-> f.errs] : f \in files} \cup
                    (IF "kustomize" \in Faults /\ K # {}
                     THEN {BuildFailed(f) : f \in files} ELSE {})
<1>1. F \subseteq Resources /\ K \subseteq Resources /\ H \subseteq Resources
  BY ConstantsAssumption DEF OfKind
<1>2. \A f \in files : f.rs \in SUBSET Resources /\ f.errs \in Nat
  <2> HIDE DEF F
  <2> QED BY <1>1
<1>3. \A k \in kusts : k.rs \in SUBSET Resources /\ k.errs \in Nat
  <2> HIDE DEF files, K
  <2> QED BY <1>1, <1>2 DEF BuildFailed
<1>4. \/ \E k \in kusts : col = [rs |-> k.rs \cup H, errs |-> k.errs]
      \/ \E k \in kusts : \E S \in SUBSET H \ {H} :
            col = [rs |-> k.rs \cup S, errs |-> k.errs + 1]
  BY DEF Collected
<1> HIDE DEF kusts, H
<1> QED BY <1>1, <1>3, <1>4
-----------------------------------------------------------------------------
\* What a thread keeps through a step of an attempt.
LEMMA EndAttemptType ==
    ASSUME TypeOK, NEW t \in Threads, NEW it \in ItemType, NEW ok \in BOOLEAN,
           EndAttempt(t, it, ok)
    PROVE  /\ item' \in ItemType /\ th' \in [Threads -> ThType]
           /\ phase' \in {"none", "Subscribed", "Failed"}
           /\ lastRun' \in {"none", "ok", "failed"}
<1>1. th \in [Threads -> ThType] BY DEF TypeOK, ThType
<1>2. th[t].try + 1 \in Nat /\ Rest(t) \in Labels /\ "begin" \in Labels /\ th[t] \in ThType
  BY <1>1 DEF ThType, Rest, Labels, Attempting
<1>3. th' \in [Threads -> ThType]
  <2>1. CASE th' = [th EXCEPT ![t].pc = "begin", ![t].try = @ + 1]
    BY <1>1, <1>2, <2>1 DEF ThType
  <2>2. CASE th' = [th EXCEPT ![t].pc = Rest(t), ![t].try = 0, ![t].cid = 0]
    BY Zenon, <1>1, <1>2, <2>2 DEF ThType
  <2> QED BY <2>1, <2>2 DEF EndAttempt
<1>4. item' \in ItemType BY DEF EndAttempt
<1>5. phase' \in {"none", "Subscribed", "Failed"} /\ lastRun' \in {"none", "ok", "failed"}
  BY DEF EndAttempt, Reconciled
<1> QED BY <1>3, <1>4, <1>5

\* Start keeps the types of the item and of the threads.
LEMMA LaunchType ==
    ASSUME TypeOK, NEW it \in ItemType, Launch(it)
    PROVE  item' \in ItemType /\ th' \in [Threads -> ThType]
<1>1. th \in [Threads -> ThType] BY DEF TypeOK, ThType
<1>2. Idle \in ThType /\ [Idle EXCEPT !.pc = "begin"] \in ThType
  BY DEF Idle, ThType, Labels, Attempting
<1>3. CASE it.rate = "off"
  <2>1. item' \in ItemType
    <3>1. item' = [it EXCEPT !.count = 0, !.stopch = "off"] BY <1>3 DEF Launch
    <3> QED BY Zenon, <3>1 DEF ItemType
  <2>2. th' \in [Threads -> ThType] BY <1>1, <1>2, <1>3 DEF Launch, Threads
  <2> QED BY <2>1, <2>2
<1>4. CASE it.rate # "off"
  <2>1. PICK p \in Pollers :
          /\ item' = [it EXCEPT !.count = 0, !.stopch = p]
          /\ th' = [th EXCEPT ![Worker] = Idle,
                   ![p] = [Idle EXCEPT !.pc = IF LateEntry THEN "spawned" ELSE "loop",
                                       !.chan = IF LateEntry THEN NoChan ELSE p]]
    BY Zenon, <1>4 DEF Launch
  <2>2. [Idle EXCEPT !.pc = IF LateEntry THEN "spawned" ELSE "loop",
                     !.chan = IF LateEntry THEN NoChan ELSE p] \in ThType
    BY Zenon DEF Idle, ThType, Labels
  <2>3. item' \in ItemType BY Zenon, <2>1 DEF ItemType
  <2> QED BY <1>1, <1>2, <2>1, <2>2, <2>3 DEF Threads
<1> QED BY <1>3, <1>4
-----------------------------------------------------------------------------
\* The initial states are well typed.
LEMMA InitType == Init => TypeOK
<1>1. FreshItem \in ItemType BY DEF FreshItem, ItemType
<1>2. Idle \in ThType BY DEF Idle, ThType, Labels
<1> QED BY <1>1, <1>2 DEF Init, TypeOK

\* One step of an attempt keeps the types.
LEMMA AttemptType ==
    ASSUME TypeOK, NEW t \in Threads, DoSubscription(t)
    PROVE  TypeOK'
<1>a. failures \in Nat /\ failures + 1 \in Nat BY DEF TypeOK
<1> USE DEF TypeOK
<1>0. th[t] \in ThType /\ item \in ItemType /\ Wanted \in Commits
  BY DEF Wanted, ItemType
<1>1. CASE Begin(t)
  <2>1. item' \in ItemType BY Zenon, <1>1 DEF Begin, ItemType
  <2>2. th' \in [Threads -> ThType]
    BY <1>0, <1>1 DEF Begin, Goto, ThType, Labels, Attempting
  <2> QED BY <1>1, <2>1, <2>2 DEF Begin
<1>2. CASE Fetch(t)
  <2> DEFINE it == Counted(item)
  <2>0. it \in ItemType
    <3>1. item.count \in Nat BY <1>0 DEF ItemType
    <3> QED BY <3>1, ConstantsAssumption DEF Counted, ItemType
  <2> HIDE DEF it
  <2>1. CASE /\ failures' = failures + 1
             /\ EndAttempt(t, [item EXCEPT !.successful = FALSE], FALSE)
    <3>1. [item EXCEPT !.successful = FALSE] \in ItemType BY Zenon, <1>0 DEF ItemType
    <3>2. failures' = failures + 1 BY <2>1
    <3> QED BY Zenon, <1>2, <2>1, <3>1, <3>2, <1>a, EndAttemptType DEF Fetch
  <2>2. CASE EndAttempt(t, it, TRUE) /\ UNCHANGED failures
    BY Zenon, <1>2, <2>0, <2>2, EndAttemptType DEF Fetch
  <2>3. CASE /\ failures' = failures + 1
             /\ EndAttempt(t, [it EXCEPT !.successful = FALSE, !.resources = {}], FALSE)
    <3>1. [it EXCEPT !.successful = FALSE, !.resources = {}] \in ItemType
      BY ZenonT(30), <2>0 DEF ItemType
    <3>2. failures' = failures + 1 BY <2>3
    <3> QED BY Zenon, <1>2, <2>3, <3>1, <3>2, <1>a, EndAttemptType DEF Fetch
  <2>4. ASSUME NEW col \in Collected(Wanted), failures' = failures + col.errs,
               LET got == [it EXCEPT !.resources = col.rs,
                                     !.successful = IF col.errs > 0 THEN FALSE ELSE @]
               IN  IF got.resources = {} /\ ~got.successful
                   THEN EndAttempt(t, got, FALSE)
                   ELSE /\ item' = got
                        /\ th' = [th EXCEPT ![t].pc = "apply", ![t].cid = Wanted]
                        /\ UNCHANGED <<phase, lastRun>>
        PROVE  TypeOK'
    <3> DEFINE got == [it EXCEPT !.resources = col.rs,
                                 !.successful = IF col.errs > 0 THEN FALSE ELSE @]
    <3>1. col.rs \in SUBSET Resources /\ col.errs \in Nat
      BY <1>0, CollectedType
    <3>2. got \in ItemType
      <4>1. got = [it EXCEPT !.resources = col.rs, !.successful = FALSE]
            \/ got = [it EXCEPT !.resources = col.rs]
        BY Zenon, <2>0 DEF ItemType
      <4> HIDE DEF got
      <4> QED BY ZenonT(30), <2>0, <3>1, <4>1 DEF ItemType
    <3>3. failures' \in Nat
      <4>1. failures' = failures + col.errs BY <2>4
      <4> QED BY <3>1, <4>1, <1>a
    <3> HIDE DEF got
    <3>4. \/ EndAttempt(t, got, FALSE)
          \/ /\ item' = got
             /\ th' = [th EXCEPT ![t].pc = "apply", ![t].cid = Wanted]
             /\ UNCHANGED <<phase, lastRun>>
      BY Zenon, <2>4 DEF got
    <3>5. CASE EndAttempt(t, got, FALSE)
      BY Zenon, <1>2, <3>2, <3>3, <3>5, EndAttemptType DEF Fetch
    <3>6. CASE /\ item' = got
               /\ th' = [th EXCEPT ![t].pc = "apply", ![t].cid = Wanted]
               /\ UNCHANGED <<phase, lastRun>>
      <4>1. th' \in [Threads -> ThType]
        BY Zenon, <1>0, <3>6 DEF ThType, Labels, Attempting
      <4> QED BY Zenon, <1>2, <3>2, <3>3, <3>6, <4>1 DEF Fetch
    <3> QED BY Zenon, <3>4, <3>5, <3>6
  <2> QED BY Zenon, <1>2, <2>1, <2>2, <2>3, <2>4 DEF Fetch, it
<1>3. CASE Apply(t)
  <2>1. Recorded(t) \in ItemType BY Zenon, <1>0 DEF Recorded, ItemType, ThType
  <2>2. [item EXCEPT !.successful = FALSE] \in ItemType
    BY Zenon, <1>0 DEF ItemType
  <2>3. item.resources \in SUBSET Resources BY <1>0 DEF ItemType
  <2>4. deployed' \in SUBSET Resources
    BY Zenon, <1>3, <2>3 DEF Apply
  <2>5. failures' = failures \/ failures' = failures + 1
    BY Zenon, <1>3 DEF Apply
  <2> QED BY Zenon, <1>3, <2>1, <2>2, <2>4, <2>5, <1>a, EndAttemptType DEF Apply
<1> QED BY <1>1, <1>2, <1>3 DEF DoSubscription

\* What SubscribeItem copies into an item are values of the item's fields.
LEMMA CopiedType ==
    ASSUME NEW old \in ItemType, cr \in CRType
    PROVE  Copied(old) \in ItemType
<1> DEFINE id == IF cr.sync # old.sync /\ ~cr.webhook THEN 0 ELSE old.commitID
           ok == IF cr.webhook THEN FALSE ELSE old.successful
           new == Copied(old)
<1>1. id \in Commits \cup {0} BY DEF ItemType
<1>2. ok \in BOOLEAN BY Zenon DEF ItemType
<1>3. new = [old EXCEPT !.known = TRUE, !.rate = cr.rate, !.webhook = cr.webhook,
                        !.paused = cr.paused, !.target = cr.target,
                        !.sync = cr.sync, !.commitID = id, !.successful = ok]
  BY Zenon DEF Copied
<1> HIDE DEF id, ok, new
<1>4. new \in ItemType BY Zenon, <1>1, <1>2, <1>3 DEF ItemType, CRType
<1> QED BY <1>4 DEF new

\* Every step keeps the types.
LEMMA NextType == TypeOK /\ [Next]_vars => TypeOK'
<1> SUFFICES ASSUME TypeOK, [Next]_vars PROVE TypeOK'
  OBVIOUS
<1>1. CASE EditSubscription
  <2>1. updates + 1 \in Nat BY DEF TypeOK
  <2>2. phase' \in {"none", "Subscribed", "Failed"} BY <1>1 DEF EditSubscription, TypeOK
  <2> QED BY <1>1, <2>1, <2>2 DEF EditSubscription, TypeOK
<1>2. CASE PushCommit
  BY <1>2 DEF PushCommit, TypeOK
<1>3. CASE ClockTick
  BY <1>3 DEF ClockTick, TypeOK
<1>4. CASE SubscribeItem
  <2> DEFINE old == IF item.known THEN item ELSE FreshItem
             new == Copied(old)
  <2>1. old \in ItemType
    BY DEF TypeOK, FreshItem, ItemType
  <2>2. new \in ItemType
    <3>1. cr \in CRType BY <1>4, ConstantsAssumption DEF SubscribeItem, TypeOK
    <3> HIDE DEF old
    <3> QED BY <2>1, <3>1, CopiedType
  <2>3. /\ item' \in ItemType
        /\ th' \in [Threads -> ThType]
    <3> HIDE DEF old, new
    <3>1. \/ item' = new /\ th' = [th EXCEPT ![Worker] = [Idle EXCEPT !.pc = "begin"]]
          \/ Launch(new)
          \/ Stop(new, "restart")
          \/ item' = new /\ UNCHANGED th
      BY <1>4 DEF SubscribeItem, old, new
    <3>2. [Idle EXCEPT !.pc = "begin"] \in ThType
      BY DEF Idle, ThType, Labels, Attempting
    <3>3. CASE item' = new /\ th' = [th EXCEPT ![Worker] = [Idle EXCEPT !.pc = "begin"]]
      BY Zenon, <2>2, <3>2, <3>3 DEF TypeOK
    <3>4. CASE Launch(new)
      BY <2>2, <3>4, LaunchType
    <3>5. CASE Stop(new, "restart")
      <4>1. item' \in ItemType BY <2>2, <3>5 DEF Stop, ItemType
      <4>2. th' \in [Threads -> ThType]
        BY <3>5 DEF Stop, Goto, TypeOK, ThType, Labels, Threads
      <4> QED BY <4>1, <4>2
    <3> QED BY <2>2, <3>1, <3>3, <3>4, <3>5 DEF TypeOK
  <2> QED BY <1>4, <2>3 DEF SubscribeItem, TypeOK, Reconciled
<1>5. CASE UnsubscribeItem
  <2>1. CASE Stop(item, "purge")
    <3>1. item' \in ItemType BY <2>1 DEF Stop, TypeOK, ItemType
    <3>2. th' \in [Threads -> ThType]
      BY <2>1 DEF Stop, Goto, TypeOK, ThType, Labels, Threads
    <3> QED BY <1>5, <3>1, <3>2 DEF UnsubscribeItem, TypeOK
  <2> QED BY <1>5, <2>1 DEF UnsubscribeItem, TypeOK
<1>6. CASE StopReturns
  <2>1. CASE Launch(item) /\ UNCHANGED <<deployed, failures>>
             /\ phase' = IF th'[Worker].pc = "idle" THEN Reconciled(phase) ELSE phase
    <3>1. item' \in ItemType /\ th' \in [Threads -> ThType]
      BY <2>1, LaunchType DEF TypeOK
    <3> QED BY <1>6, <2>1, <3>1 DEF StopReturns, TypeOK, Reconciled
  <2>2. CASE /\ item' = FreshItem /\ Goto(Worker, "idle") /\ UNCHANGED phase
             /\ \/ deployed' = {} /\ UNCHANGED failures
                \/ failures' = failures + 1 /\ deployed' \in SUBSET deployed
    <3>1. item' \in ItemType BY <2>2 DEF FreshItem, ItemType
    <3>2. th' \in [Threads -> ThType]
      BY <2>2 DEF Goto, TypeOK, ThType, Labels, Threads
    <3>3. deployed' \in SUBSET Resources BY <2>2 DEF TypeOK
    <3>4. failures' \in Nat
      <4>1. failures' = failures \/ failures' = failures + 1 BY <2>2
      <4> QED BY <4>1 DEF TypeOK
    <3> QED BY <1>6, <2>2, <3>1, <3>2, <3>3, <3>4 DEF StopReturns, TypeOK
  <2> QED BY <1>6, <2>1, <2>2 DEF StopReturns
<1>7. ASSUME NEW p \in Pollers, Enter(p) \/ Poll(p) \/ Exit(p) PROVE TypeOK'
  <2>1. th' \in [Threads -> ThType]
    <3>0. th \in [Threads -> ThType] /\ p \in Threads /\ th[p] \in ThType
      BY DEF TypeOK, Threads
    <3>1. CASE Enter(p)
      <4>1. item.stopch \in Pollers \cup {NoChan, "off"} BY DEF TypeOK, ItemType
      <4> QED BY Zenon, <3>0, <3>1, <4>1 DEF Enter, ThType, Labels
    <3>2. CASE Poll(p)
      BY Zenon, <3>0, <3>2 DEF Poll, ThType, Labels, Attempting
    <3>3. CASE Exit(p)
      <4>1. Idle \in ThType BY DEF Idle, ThType, Labels
      <4> QED BY <3>0, <3>3, <4>1 DEF Exit
    <3> QED BY <1>7, <3>1, <3>2, <3>3
  <2> QED BY <1>7, <2>1 DEF Enter, Poll, Exit, TypeOK
<1>8. ASSUME NEW t \in Threads, DoSubscription(t) PROVE TypeOK'
  BY <1>8, AttemptType
<1>9. CASE UNCHANGED vars
  BY <1>9 DEF vars, TypeOK
<1> QED BY <1>1, <1>2, <1>3, <1>4, <1>5, <1>6, <1>7, <1>8, <1>9 DEF Next

\* Every step of the Git subscriber keeps the types of its item, its threads
\* and the cluster.
THEOREM TypeCorrect == Spec => []TypeOK
  BY InitType, NextType, PTL DEF Spec
-----------------------------------------------------------------------------
\* An attempt moves its own thread only, and neither starts nor stops anything.
LEMMA AttemptStep ==
    ASSUME TypeOK, NEW t \in Threads, DoSubscription(t)
    PROVE  /\ th[t].pc \in Attempting
           /\ th'[t].pc \in Attempting \cup {Rest(t)}
           /\ \A u \in Threads \ {t} : th'[u] = th[u]
           /\ item'.known = item.known /\ item'.stopch = item.stopch
<1>0. th \in [Threads -> ThType] /\ th[t] \in ThType /\ item \in ItemType
  BY DEF TypeOK
<1>1. ASSUME NEW it, NEW ok, EndAttempt(t, it, ok)
      PROVE  /\ item' = it /\ th'[t].pc \in {"begin", Rest(t)}
             /\ \A u \in Threads \ {t} : th'[u] = th[u]
  <2>1. \/ th' = [th EXCEPT ![t].pc = "begin", ![t].try = @ + 1]
        \/ th' = [th EXCEPT ![t].pc = Rest(t), ![t].try = 0, ![t].cid = 0]
    BY <1>1 DEF EndAttempt
  <2>2. item' = it BY <1>1 DEF EndAttempt
  <2> QED BY <1>0, <2>1, <2>2 DEF ThType
<1>2. CASE Begin(t)
  BY <1>0, <1>2 DEF Begin, Goto, Attempting, ThType, ItemType
<1>3. CASE Fetch(t)
  <2> DEFINE it == Counted(item)
  <2>0. it.known = item.known /\ it.stopch = item.stopch /\ it \in ItemType
    <3>1. item.count \in Nat BY <1>0 DEF ItemType
    <3> QED BY <1>0, <3>1, ConstantsAssumption DEF Counted, ItemType
  <2> HIDE DEF it
  <2>1. th[t].pc = "fetch" BY Zenon, <1>3 DEF Fetch
  <2>2. CASE EndAttempt(t, [item EXCEPT !.successful = FALSE], FALSE)
    <3>1. item' = [item EXCEPT !.successful = FALSE] BY Zenon, <1>1, <2>2
    <3> QED BY Zenon, <1>0, <1>1, <2>1, <2>2, <3>1 DEF Attempting, ItemType
  <2>3. CASE EndAttempt(t, it, TRUE)
    BY Zenon, <1>1, <2>0, <2>1, <2>3 DEF Attempting
  <2>4. CASE EndAttempt(t, [it EXCEPT !.successful = FALSE, !.resources = {}], FALSE)
    <3>1. item' = [it EXCEPT !.successful = FALSE, !.resources = {}] BY Zenon, <1>1, <2>4
    <3>2. item'.known = it.known /\ item'.stopch = it.stopch BY <2>0, <3>1 DEF ItemType
    <3> QED BY Zenon, <1>1, <2>0, <2>1, <2>4, <3>2 DEF Attempting
  <2>5. ASSUME NEW col \in Collected(Wanted),
               LET got == [it EXCEPT !.resources = col.rs,
                                     !.successful = IF col.errs > 0 THEN FALSE ELSE @]
               IN  IF got.resources = {} /\ ~got.successful
                   THEN EndAttempt(t, got, FALSE)
                   ELSE /\ item' = got
                        /\ th' = [th EXCEPT ![t].pc = "apply", ![t].cid = Wanted]
                        /\ UNCHANGED <<phase, lastRun>>
        PROVE  /\ th'[t].pc \in Attempting \cup {Rest(t)}
               /\ \A u \in Threads \ {t} : th'[u] = th[u]
               /\ item'.known = item.known /\ item'.stopch = item.stopch
    <3> DEFINE got == [it EXCEPT !.resources = col.rs,
                                 !.successful = IF col.errs > 0 THEN FALSE ELSE @]
    <3>1. got.known = it.known /\ got.stopch = it.stopch BY <2>0 DEF ItemType
    <3> HIDE DEF got
    <3>2. \/ EndAttempt(t, got, FALSE)
          \/ item' = got /\ th' = [th EXCEPT ![t].pc = "apply", ![t].cid = Wanted]
      BY Zenon, <2>5 DEF got
    <3>3. CASE EndAttempt(t, got, FALSE)
      BY Zenon, <1>1, <2>0, <3>1, <3>3 DEF Attempting
    <3>4. CASE item' = got /\ th' = [th EXCEPT ![t].pc = "apply", ![t].cid = Wanted]
      BY <1>0, <2>0, <3>1, <3>4 DEF Attempting, ThType
    <3> QED BY Zenon, <3>2, <3>3, <3>4
  <2> QED BY Zenon, <1>3, <2>1, <2>2, <2>3, <2>4, <2>5 DEF Fetch, it, Attempting
<1>4. CASE Apply(t)
  <2>1. th[t].pc = "apply" BY <1>4 DEF Apply
  <2>2. \/ EndAttempt(t, Recorded(t), TRUE)
        \/ EndAttempt(t, [item EXCEPT !.successful = FALSE], FALSE)
    BY Zenon, <1>4 DEF Apply
  <2>3. \/ item' = [item EXCEPT !.commitID = th[t].cid, !.resources = {}, !.successful = TRUE]
        \/ item' = [item EXCEPT !.successful = FALSE]
    BY Zenon, <1>1, <2>2 DEF Recorded
  <2>4. item'.known = item.known /\ item'.stopch = item.stopch
    BY Zenon, <1>0, <2>3 DEF ItemType
  <2> QED BY Zenon, <1>1, <2>1, <2>2, <2>4 DEF Attempting
<1> QED BY <1>2, <1>3, <1>4 DEF DoSubscription

\* A goroutine's own steps leave the item and the other threads alone.
LEMMA PollerStep ==
    ASSUME TypeOK, NEW p \in Pollers, Enter(p) \/ Poll(p) \/ Exit(p)
    PROVE  /\ Live(p) /\ th'[p].pc \in {"idle", "loop", "begin"}
           /\ \A u \in Threads \ {p} : th'[u] = th[u]
           /\ item' = item
  BY DEF Enter, Poll, Exit, Live, Idle, TypeOK, ThType, Threads

\* Start launches one goroutine, or has the worker run the subscription.
LEMMA LaunchStep ==
    ASSUME TypeOK, NEW it \in ItemType, Launch(it)
    PROVE  /\ item'.known = it.known
           /\ \/ /\ th'[Worker].pc = "begin"
                 /\ \A p \in Pollers : th'[p] = th[p]
              \/ \E p \in Pollers :
                    /\ th'[Worker].pc = "idle" /\ item'.stopch = p
                    /\ th'[p].pc \in {"spawned", "loop"}
                    /\ \A q \in Pollers \ {p} : th'[q] = th[q]
<1>1. th \in [Threads -> ThType] /\ Worker \in Threads /\ Worker \notin Pollers
      /\ Pollers \subseteq Threads
  BY ConstantsAssumption DEF TypeOK, Threads
<1>2. CASE it.rate = "off"
  <2>1. item' = [it EXCEPT !.count = 0, !.stopch = "off"] BY <1>2 DEF Launch
  <2>2. th' = [th EXCEPT ![Worker] = [Idle EXCEPT !.pc = "begin"]] BY <1>2 DEF Launch
  <2>3. item'.known = it.known BY <2>1 DEF ItemType
  <2> QED BY <1>1, <2>2, <2>3 DEF Idle
<1>3. CASE it.rate # "off"
  <2>1. PICK p \in Pollers :
          /\ item' = [it EXCEPT !.count = 0, !.stopch = p]
          /\ th' = [th EXCEPT ![Worker] = Idle,
                   ![p] = [Idle EXCEPT !.pc = IF LateEntry THEN "spawned" ELSE "loop",
                                       !.chan = IF LateEntry THEN NoChan ELSE p]]
    BY Zenon, <1>3 DEF Launch
  <2>2. item'.known = it.known /\ item'.stopch = p BY <2>1 DEF ItemType
  <2>3. /\ th'[Worker].pc = "idle" /\ th'[p].pc \in {"spawned", "loop"}
        /\ \A q \in Pollers \ {p} : th'[q] = th[q]
    BY <1>1, <2>1 DEF Idle
  <2> QED BY <2>2, <2>3
<1> QED BY <1>2, <1>3
-----------------------------------------------------------------------------
\* The three ways SubscribeItem hands the copied item on.
LEMMA SubscribeStep ==
    ASSUME TypeOK, SubscribeItem,
           item.known \/ item.stopch = NoChan
    PROVE  \E new \in ItemType :
              /\ new.known /\ new.stopch = item.stopch
              /\ \/ /\ cr.webhook /\ item' = new
                    /\ th' = [th EXCEPT ![Worker] = [Idle EXCEPT !.pc = "begin"]]
                 \/ item.stopch = NoChan /\ Launch(new)
                 \/ Stop(new, "restart")
                 \/ item' = new /\ UNCHANGED th
<1> DEFINE old == IF item.known THEN item ELSE FreshItem
           new == Copied(old)
<1>1. old \in ItemType /\ old.stopch = item.stopch
  BY DEF TypeOK, FreshItem, ItemType
<1>2. cr \in CRType BY ConstantsAssumption DEF SubscribeItem, TypeOK
<1>3. new \in ItemType /\ new.known /\ new.stopch = item.stopch
  <2> HIDE DEF old
  <2>1. new \in ItemType BY <1>1, <1>2, CopiedType
  <2>2. new.known = TRUE BY <1>1 DEF Copied, ItemType
  <2>3. new.stopch = old.stopch BY <1>1 DEF Copied, ItemType
  <2> QED BY <1>1, <2>1, <2>2, <2>3
<1>4. \/ /\ cr.webhook /\ item' = new
         /\ th' = [th EXCEPT ![Worker] = [Idle EXCEPT !.pc = "begin"]]
      \/ old.stopch = NoChan /\ Launch(new)
      \/ Stop(new, "restart")
      \/ item' = new /\ UNCHANGED th
  <2> HIDE DEF old, new
  <2> QED BY Zenon DEF SubscribeItem, old, new
<1> HIDE DEF old, new
<1> QED BY <1>1, <1>3, <1>4

\* Only StopReturns takes an item out of itemmap, and only when every
\* goroutine has returned.
LEMMA NextUnknown ==
    ASSUME TypeOK, Unknown, [Next]_vars
    PROVE  Unknown'
<1> USE DEF Unknown, Live
<1>0. th \in [Threads -> ThType] /\ Worker \in Threads /\ Pollers \subseteq Threads
      /\ Worker \notin Pollers /\ item \in ItemType
  BY ConstantsAssumption DEF TypeOK, Threads
<1>1. CASE EditSubscription \/ PushCommit \/ ClockTick \/ UNCHANGED vars
  BY <1>1 DEF EditSubscription, PushCommit, ClockTick, vars
<1>2. CASE SubscribeItem
  <2>1. PICK new \in ItemType :
              /\ new.known
              /\ \/ item' = new
                 \/ Launch(new)
                 \/ Stop(new, "restart")
    BY <1>2, SubscribeStep
  <2>2. item'.known
    <3>1. CASE Launch(new) BY <2>1, <3>1, LaunchStep
    <3>2. CASE Stop(new, "restart") BY <2>1, <3>2 DEF Stop, ItemType
    <3> QED BY <2>1, <3>1, <3>2
  <2> QED BY <2>2
<1>3. CASE UnsubscribeItem
  <2>1. CASE item.known
    <3>1. item' = [item EXCEPT !.stopch = NoChan] BY <1>3, <2>1 DEF UnsubscribeItem, Stop
    <3>2. item'.known BY <1>0, <2>1, <3>1 DEF ItemType
    <3> QED BY <3>2
  <2> QED BY <1>3, <2>1 DEF UnsubscribeItem
<1>4. CASE StopReturns
  <2>1. CASE th[Worker].pc = "restart" /\ Launch(item)
    BY <1>0, <2>1, LaunchStep
  <2>2. CASE item' = FreshItem /\ Goto(Worker, "idle")
    BY <1>0, <1>4, <2>2 DEF StopReturns, Joined, Goto, FreshItem, ThType
  <2> QED BY Zenon, <1>4, <2>1, <2>2 DEF StopReturns
<1>5. ASSUME NEW p \in Pollers, Enter(p) \/ Poll(p) \/ Exit(p) PROVE Unknown'
  BY <1>5, PollerStep
<1>6. ASSUME NEW t \in Threads, DoSubscription(t) PROVE Unknown'
  <2>1. t = Worker \/ t \in Pollers BY DEF Threads
  <2> QED BY <1>6, <2>1, AttemptStep DEF Attempting
<1> QED BY Zenon, <1>1, <1>2, <1>3, <1>4, <1>5, <1>6 DEF Next

\* What UnsubscribeItem promises holds whatever the settings, the schedule and
\* the faults, as long as the synchronizer's purge does not itself fail: after
\* the item has left itemmap no goroutine is left to put anything back.
THEOREM UnsubscribedStaysGone ==
    ASSUME "purge" \notin Faults
    PROVE  Spec => []GoneStaysGone
<1> DEFINE Inv == TypeOK /\ Unknown /\ GoneStaysGone
<1>1. Init => Inv
  <2>1. Init => Unknown /\ GoneStaysGone
    BY ConstantsAssumption DEF Init, Unknown, GoneStaysGone, Live, Idle, FreshItem, Threads
  <2> QED BY <2>1, InitType
<1>2. Inv /\ [Next]_vars => Inv'
  <2> SUFFICES ASSUME TypeOK, Unknown, GoneStaysGone, [Next]_vars
               PROVE  Inv'
    OBVIOUS
  <2>1. TypeOK' /\ Unknown' BY NextType, NextUnknown
  <2>2. GoneStaysGone'
    <3>1. CASE EditSubscription \/ PushCommit \/ ClockTick \/ UNCHANGED vars
      BY <3>1 DEF EditSubscription, PushCommit, ClockTick, vars, GoneStaysGone
    <3>2. CASE SubscribeItem
      <4>1. PICK new \in ItemType :
              /\ new.known
              /\ item' = new \/ Launch(new) \/ Stop(new, "restart")
        BY <3>2, SubscribeStep DEF Unknown
      <4>2. item'.known
        <5>1. CASE Launch(new) BY <4>1, <5>1, LaunchStep
        <5>2. CASE Stop(new, "restart") BY <4>1, <5>2 DEF Stop, ItemType
        <5> QED BY Zenon, <4>1, <5>1, <5>2
      <4> QED BY <4>2 DEF GoneStaysGone
    <3>3. CASE UnsubscribeItem
      <4>1. item \in ItemType BY DEF TypeOK
      <4>2. item'.known = item.known /\ deployed' = deployed
        BY <3>3, <4>1 DEF UnsubscribeItem, Stop, ItemType
      <4> QED BY <4>2 DEF GoneStaysGone
    <3>4. CASE StopReturns
      <4>1. item \in ItemType BY DEF TypeOK
      <4>2. CASE Launch(item) /\ UNCHANGED deployed
        <5>1. item'.known = item.known BY <4>1, <4>2, LaunchStep
        <5> QED BY <4>2, <5>1 DEF GoneStaysGone
      <4>3. CASE th[Worker].pc = "purge" /\ deployed' = {}
        BY <4>3 DEF GoneStaysGone
      <4> QED BY <3>4, <4>2, <4>3 DEF StopReturns, May
    <3>5. ASSUME NEW p \in Pollers, Enter(p) \/ Poll(p) \/ Exit(p) PROVE GoneStaysGone'
      BY <3>5 DEF Enter, Poll, Exit, GoneStaysGone
    <3>6. ASSUME NEW t \in Threads, DoSubscription(t) PROVE GoneStaysGone'
      <4>1. th[t].pc \in Attempting /\ item'.known = item.known BY <3>6, AttemptStep
      <4>2. item.known BY <4>1 DEF Unknown, Live, Threads, Attempting
      <4> QED BY <4>1, <4>2 DEF GoneStaysGone
    <3> QED BY Zenon, <3>1, <3>2, <3>3, <3>4, <3>5, <3>6 DEF Next
  <2> QED BY <2>1, <2>2
<1>3. Inv => GoneStaysGone
  OBVIOUS
<1> QED BY <1>1, <1>2, <1>3, PTL DEF Spec
-----------------------------------------------------------------------------
\* SubscriberInv is inductive while no channel uses webhooks.
LEMMA NextSubscriberInv ==
    ASSUME \A c \in CRs : ~c.webhook, TypeOK, SubscriberInv, [Next]_vars
    PROVE  SubscriberInv'
<1> USE DEF SubscriberInv, WorkerOK, PollerOK, OnePoller, WorkerAlone, ChannelHeld, Live
<1>0. th \in [Threads -> ThType] /\ Worker \in Threads /\ Pollers \subseteq Threads
      /\ Worker \notin Pollers /\ item \in ItemType
  BY ConstantsAssumption DEF TypeOK, Threads
<1>u. Unknown' BY Zenon, NextUnknown
<1>j. ASSUME Joined, NEW it \in ItemType, Launch(it)
      PROVE  SubscriberInv'
  BY SMTT(60), <1>0, <1>u, <1>j, LaunchStep DEF Joined, Attempting
<1>1. CASE EditSubscription \/ PushCommit \/ ClockTick \/ UNCHANGED vars
  BY Zenon, <1>1, <1>u DEF EditSubscription, PushCommit, ClockTick, vars
<1>2. CASE SubscribeItem
  <2>1. PICK new \in ItemType :
          /\ new.stopch = item.stopch
          /\ \/ item.stopch = NoChan /\ Launch(new)
             \/ Stop(new, "restart")
             \/ item' = new /\ UNCHANGED th
    <3>1. ~cr.webhook BY Zenon, <1>2 DEF SubscribeItem, TypeOK
    <3> QED BY <1>2, <3>1, SubscribeStep DEF Unknown
  <2>2. CASE item.stopch = NoChan /\ Launch(new)
    <3>1. Joined BY <1>2, <2>2, ConstantsAssumption DEF SubscribeItem, Joined
    <3> QED BY <1>j, <2>2, <3>1
  <2>3. CASE Stop(new, "restart")
    <3>1. th' = [th EXCEPT ![Worker].pc = "restart"] BY <2>3 DEF Stop, Goto
    <3> QED BY <1>0, <1>u, <3>1 DEF Attempting, ThType
  <2>4. CASE item' = new /\ UNCHANGED th
    BY Zenon, <1>0, <1>u, <2>1, <2>4
  <2> QED BY <2>1, <2>2, <2>3, <2>4
<1>3. CASE UnsubscribeItem
  <2>1. CASE Stop(item, "purge")
    <3>1. th' = [th EXCEPT ![Worker].pc = "purge"] BY Zenon, <2>1 DEF Stop, Goto
    <3> QED BY <1>0, <1>u, <3>1 DEF Attempting, ThType
  <2> QED BY <1>3, <1>u, <2>1 DEF UnsubscribeItem
<1>4. CASE StopReturns
  <2>1. CASE Launch(item)
    BY Zenon, <1>0, <1>4, <1>j, <2>1 DEF StopReturns
  <2>2. CASE item' = FreshItem /\ Goto(Worker, "idle")
    BY SMTT(60), <1>0, <1>4, <1>u, <2>2 DEF StopReturns, Joined, Goto, Attempting, ThType
  <2> QED BY Zenon, <1>4, <2>1, <2>2 DEF StopReturns
<1>5. ASSUME NEW p \in Pollers, Enter(p) \/ Poll(p) \/ Exit(p) PROVE SubscriberInv'
  <2>1. /\ Live(p) /\ th'[p].pc \in {"idle", "loop", "begin"}
        /\ \A u \in Threads \ {p} : th'[u] = th[u]
        /\ item' = item
    BY ZenonT(60), <1>5, PollerStep
  <2> QED BY <1>0, <1>u, <2>1 DEF Attempting
<1>6. ASSUME NEW t \in Threads, DoSubscription(t) PROVE SubscriberInv'
  <2>1. /\ th[t].pc \in Attempting
        /\ th'[t].pc \in Attempting \cup {Rest(t)}
        /\ \A u \in Threads \ {t} : th'[u] = th[u]
        /\ item'.stopch = item.stopch
    BY Zenon, <1>6, AttemptStep
  <2>2. CASE t = Worker
    BY Zenon, <1>0, <1>u, <2>1, <2>2 DEF Attempting, Rest
  <2>3. CASE t \in Pollers
    BY <1>0, <1>u, <2>1, <2>3 DEF Attempting, Rest
  <2> QED BY Zenon, <2>2, <2>3 DEF Threads
<1> QED BY Zenon, <1>1, <1>2, <1>3, <1>4, <1>5, <1>6 DEF Next

\* The invariant that keeps the goroutines of an item apart holds in every
\* behaviour without webhooks: Stop waits for the goroutine whose channel it
\* closes before Start or the purge goes on.
THEOREM GoroutinesAreHeld ==
    ASSUME \A c \in CRs : ~c.webhook
    PROVE  Spec => []SubscriberInv
<1>1. Init => SubscriberInv
  BY ConstantsAssumption DEF Init, SubscriberInv, WorkerOK, PollerOK, OnePoller, WorkerAlone,
     ChannelHeld, Unknown, Live, Idle, FreshItem, Threads, Attempting
<1>2. TypeOK /\ SubscriberInv /\ [Next]_vars => SubscriberInv'
  BY NextSubscriberInv
<1> QED BY <1>1, <1>2, InitType, NextType, PTL DEF Spec

\* Start and Stop do keep two goroutines from racing on the item, for every
\* schedule and every fault, as long as no channel is switched to webhooks.
THEOREM PollingIsExclusive ==
    ASSUME \A c \in CRs : ~c.webhook
    PROVE  Spec => []OneSubscriber
<1>1. SubscriberInv => OneSubscriber
  BY DEF SubscriberInv, OnePoller, WorkerAlone, Live, OneSubscriber, Threads, Attempting
<1> QED BY <1>1, GoroutinesAreHeld, PTL
-----------------------------------------------------------------------------
(* What is deployed.  No part of a commit is left out unnoticed: files and   *)
(* charts can be read, and where a kustomize build may fail there are no     *)
(* charts, so that the failure leaves the list empty and ends the attempt.   *)
Complete ==
    /\ "read" \notin Faults /\ "chart" \notin Faults
    /\ "kustomize" \in Faults => \A r \in Resources : Kind[r] # "chart"

\* An attempt has fetched all that its commit describes when it comes to the
\* cluster, and it is not successful before that.
AttemptOK(t) ==
    /\ th[t].pc = "fetch" => ~item.successful
    /\ th[t].pc = "apply" => th[t].cid \in Commits /\ item.resources = Content[th[t].cid]
FetchInv == \A t \in Threads : AttemptOK(t)

\* The three passes collect the whole commit, or nothing with an error.
LEMMA CollectedAll ==
    ASSUME Complete, NEW c \in Commits, NEW col \in Collected(c)
    PROVE  col.rs = Content[c] \/ (col.rs = {} /\ col.errs > 0)
<1> DEFINE F == OfKind(c, "file")
           K == OfKind(c, "kustomize")
           H == OfKind(c, "chart")
           files == {[rs |-> F, errs |-> 0]} \cup
                    (IF "read" \in Faults
                     THEN {[rs |-> S, errs |-> 1] : S \in SUBSET F \ {F}} ELSE {})
           kusts == {[rs |-> f.rs \cup K, errs |-> f.errs] : f \in files} \cup
                    (IF "kustomize" \in Faults /\ K # {}
                     THEN {BuildFailed(f) : f \in files} ELSE {})
<1>1. Content[c] = F \cup K \cup H BY ConstantsAssumption DEF OfKind
<1>2. "kustomize" \in Faults => H = {} BY ConstantsAssumption DEF OfKind, Complete
<1>3. \A f \in files : f.rs = F /\ f.errs = 0
  <2> HIDE DEF F
  <2> QED BY DEF Complete
<1>4. \A k \in kusts : \/ k.rs = F \cup K
                       \/ "kustomize" \in Faults /\ k.rs = {} /\ k.errs = 1
  <2> HIDE DEF files, K, F
  <2> QED BY SMTT(60), <1>3 DEF BuildFailed
<1>5. \E k \in kusts : col = [rs |-> k.rs \cup H, errs |-> k.errs]
  BY DEF Collected, Complete
<1> HIDE DEF kusts, H, F, K
<1> QED BY <1>1, <1>2, <1>4, <1>5

\* How an attempt may leave the cluster and the record of the commit: without
\* deciding anything, as failed, or with its commit deployed and recorded.
Undecided == deployed' = deployed /\ item'.commitID = item.commitID /\ lastRun' = lastRun
Done(t) ==
    /\ th[t].pc = "apply" /\ item'.commitID = th[t].cid
    /\ "prune" \notin Faults => deployed' = Content[th[t].cid]
KeptWanted(t) == th[t].pc = "apply" => \A r \in deployed \ deployed' : r \notin Content[th[t].cid]

\* An attempt keeps its invariant, fails or deploys what it fetched, and takes
\* nothing from the cluster that its commit describes.
LEMMA AttemptOutcome ==
    ASSUME TypeOK, Complete, NEW t \in Threads, AttemptOK(t), DoSubscription(t)
    PROVE  /\ AttemptOK(t)'
           /\ Undecided \/ lastRun' = "failed" \/ Done(t)
           /\ KeptWanted(t)
<1>0. th \in [Threads -> ThType] /\ th[t] \in ThType /\ item \in ItemType /\ Wanted \in Commits
  BY DEF TypeOK, Wanted, ItemType
<1>1. ASSUME NEW it, NEW ok, EndAttempt(t, it, ok)
      PROVE  /\ item' = it /\ th'[t].pc \notin {"fetch", "apply"}
             /\ lastRun' = IF ok THEN "ok" ELSE "failed"
  <2>1. \/ th' = [th EXCEPT ![t].pc = "begin", ![t].try = @ + 1]
        \/ th' = [th EXCEPT ![t].pc = Rest(t), ![t].try = 0, ![t].cid = 0]
    BY <1>1 DEF EndAttempt
  <2>2. item' = it /\ lastRun' = IF ok THEN "ok" ELSE "failed" BY <1>1 DEF EndAttempt
  <2> QED BY <1>0, <2>1, <2>2 DEF ThType, Rest
<1>2. CASE Begin(t)
  <2>1. /\ item' = [item EXCEPT !.successful = FALSE] /\ th' = [th EXCEPT ![t].pc = "fetch"]
        /\ deployed' = deployed /\ lastRun' = lastRun /\ th[t].pc = "begin"
    BY <1>2 DEF Begin, Goto
  <2>2. ~item'.successful /\ item'.commitID = item.commitID /\ th'[t].pc = "fetch"
    BY <1>0, <2>1 DEF ItemType, ThType
  <2> QED BY <2>1, <2>2 DEF AttemptOK, Undecided, KeptWanted
<1>3. CASE Fetch(t)
  <2> DEFINE it == Counted(item)
  <2>0. it.successful = item.successful /\ it.commitID = item.commitID /\ it \in ItemType
    <3>1. item.count \in Nat BY <1>0 DEF ItemType
    <3> QED BY <1>0, <3>1, ConstantsAssumption DEF Counted, ItemType
  <2> HIDE DEF it
  <2>1. th[t].pc = "fetch" /\ ~item.successful /\ deployed' = deployed
    BY Zenon, <1>3 DEF Fetch, AttemptOK
  <2>2. ~Unchanged([item EXCEPT !.count = @ + 1], Wanted)
    BY <1>0, <2>1 DEF Unchanged, ItemType
  <2>3. ASSUME NEW i, EndAttempt(t, i, FALSE)
        PROVE  AttemptOK(t)' /\ lastRun' = "failed"
    BY Zenon, <1>1, <2>3 DEF AttemptOK
  <2>4. ASSUME NEW col \in Collected(Wanted),
               LET got == [it EXCEPT !.resources = col.rs,
                                     !.successful = IF col.errs > 0 THEN FALSE ELSE @]
               IN  IF got.resources = {} /\ ~got.successful
                   THEN EndAttempt(t, got, FALSE)
                   ELSE /\ item' = got
                        /\ th' = [th EXCEPT ![t].pc = "apply", ![t].cid = Wanted]
                        /\ UNCHANGED <<phase, lastRun>>
        PROVE  AttemptOK(t)' /\ (Undecided \/ lastRun' = "failed")
    <3> DEFINE got == [it EXCEPT !.resources = col.rs,
                                 !.successful = IF col.errs > 0 THEN FALSE ELSE @]
    <3>1. /\ got.resources = col.rs /\ ~got.successful /\ got.commitID = item.commitID
      BY <2>0, <2>1 DEF ItemType
    <3> HIDE DEF got
    <3>2. IF col.rs = {} THEN EndAttempt(t, got, FALSE)
          ELSE /\ item' = got
               /\ th' = [th EXCEPT ![t].pc = "apply", ![t].cid = Wanted]
               /\ UNCHANGED <<phase, lastRun>>
      BY Zenon, <2>4, <3>1 DEF got
    <3>3. CASE col.rs = {} BY Zenon, <2>3, <3>2, <3>3
    <3>4. CASE col.rs # {}
      <4>1. col.rs = Content[Wanted] BY <1>0, <3>4, CollectedAll
      <4>2. th'[t].pc = "apply" /\ th'[t].cid = Wanted
        <5>1. th' = [th EXCEPT ![t].pc = "apply", ![t].cid = Wanted] BY Zenon, <3>2, <3>4
        <5> QED BY <1>0, <5>1 DEF ThType
      <4> QED BY Zenon, <1>0, <2>1, <3>1, <3>2, <3>4, <4>1, <4>2 DEF AttemptOK, Undecided
    <3> QED BY <3>3, <3>4
  <2>5. AttemptOK(t)' /\ (Undecided \/ lastRun' = "failed")
    BY Zenon, <1>3, <2>2, <2>3, <2>4 DEF Fetch, it
  <2> QED BY <2>1, <2>5 DEF KeptWanted
<1>4. CASE Apply(t)
  <2>1. /\ th[t].pc = "apply" /\ th[t].cid \in Commits
        /\ item.resources = Content[th[t].cid]
    BY Zenon, <1>4 DEF Apply, AttemptOK
  <2>2. CASE /\ EndAttempt(t, Recorded(t), TRUE) /\ item.resources \subseteq deployed'
             /\ "prune" \notin Faults => deployed' = item.resources
    <3>1. item' = Recorded(t) /\ th'[t].pc \notin {"fetch", "apply"} BY Zenon, <1>1, <2>2
    <3>2. item'.commitID = th[t].cid BY <1>0, <3>1 DEF Recorded, ItemType
    <3> QED BY <2>1, <2>2, <3>1, <3>2 DEF AttemptOK, Done, KeptWanted
  <2>3. CASE /\ EndAttempt(t, [item EXCEPT !.successful = FALSE], FALSE)
             /\ \A r \in deployed \ deployed' : r \notin item.resources
    BY ZenonT(60), <1>1, <2>1, <2>3 DEF AttemptOK, KeptWanted
  <2> QED BY Zenon, <1>4, <2>2, <2>3 DEF Apply, May
<1> QED BY <1>2, <1>3, <1>4 DEF DoSubscription

\* Steps that only start, stop or schedule a thread leave the attempts of the
\* others, the cluster and its record alone.
LEMMA FetchStep ==
    ASSUME \A c \in CRs : ~c.webhook, Complete, TypeOK, SubscriberInv, FetchInv, [Next]_vars
    PROVE  /\ FetchInv'
           /\ \A t \in Threads : th[t].pc = "apply" /\ th'[t].pc # "apply" => KeptWanted(t)
           /\ DeployedIsCommit /\ "prune" \notin Faults => DeployedIsCommit'
<1>0. th \in [Threads -> ThType] /\ Worker \in Threads /\ Pollers \subseteq Threads
      /\ Worker \notin Pollers /\ item \in ItemType
  BY ConstantsAssumption DEF TypeOK, Threads
<1>u. Unknown /\ WorkerOK BY Zenon DEF SubscriberInv
<1> DEFINE Frame ==
      /\ \A t \in Threads : \/ th'[t].pc \notin {"fetch", "apply"} /\ th[t].pc # "apply"
                            \/ th'[t].pc = th[t].pc /\ th'[t].cid = th[t].cid
      /\ \/ \A t \in Threads : th'[t].pc \notin {"fetch", "apply"}
         \/ item'.resources = item.resources /\ (item'.successful => item.successful)
      /\ lastRun' = lastRun
      /\ \/ ~item'.known \/ item'.commitID = 0
         \/ deployed' = deployed /\ item.known /\ item'.commitID = item.commitID
<1>f. Frame => /\ FetchInv'
               /\ \A t \in Threads : th[t].pc = "apply" => th'[t].pc = "apply"
               /\ DeployedIsCommit => DeployedIsCommit'
  BY ZenonT(60) DEF FetchInv, AttemptOK, DeployedIsCommit
<1>1. CASE EditSubscription \/ PushCommit \/ ClockTick \/ UNCHANGED vars
  BY Zenon, <1>1 DEF EditSubscription, PushCommit, ClockTick, vars, FetchInv, AttemptOK, DeployedIsCommit
<1>l. ASSUME NEW it \in ItemType, Launch(it)
      PROVE  /\ item'.known = it.known /\ item'.commitID = it.commitID
             /\ item'.resources = it.resources /\ item'.successful = it.successful
             /\ th'[Worker].pc \notin {"fetch", "apply"}
             /\ \A p \in Pollers : \/ th'[p] = th[p]
                                   \/ th[p].pc = "idle" /\ th'[p].pc \notin {"fetch", "apply"}
  <2>1. CASE it.rate = "off"
    <3>1. /\ item' = [it EXCEPT !.count = 0, !.stopch = "off"]
          /\ th' = [th EXCEPT ![Worker] = [Idle EXCEPT !.pc = "begin"]]
      BY <1>l, <2>1 DEF Launch
    <3>2. /\ item'.known = it.known /\ item'.commitID = it.commitID
          /\ item'.resources = it.resources /\ item'.successful = it.successful
      BY <3>1 DEF ItemType
    <3> QED BY <1>0, <3>1, <3>2 DEF Idle
  <2>2. CASE it.rate # "off"
    <3>1. PICK p \in Pollers :
          /\ th[p].pc = "idle"
          /\ item' = [it EXCEPT !.count = 0, !.stopch = p]
          /\ th' = [th EXCEPT ![Worker] = Idle,
                   ![p] = [Idle EXCEPT !.pc = IF LateEntry THEN "spawned" ELSE "loop",
                                       !.chan = IF LateEntry THEN NoChan ELSE p]]
      BY Zenon, <1>l, <2>2 DEF Launch
    <3>2. /\ item'.known = it.known /\ item'.commitID = it.commitID
          /\ item'.resources = it.resources /\ item'.successful = it.successful
      BY ZenonT(60), <3>1 DEF ItemType
    <3> QED BY <1>0, <3>1, <3>2 DEF Idle
  <2> QED BY Zenon, <2>1, <2>2
<1>2. CASE SubscribeItem
  <2> DEFINE old == IF item.known THEN item ELSE FreshItem
             new == Copied(old)
  <2>1. cr \in CRType /\ ~cr.webhook /\ th[Worker].pc = "idle" /\ deployed' = deployed
        /\ lastRun' = lastRun
    BY <1>2, ConstantsAssumption DEF SubscribeItem, TypeOK
  <2>2. old \in ItemType BY ZenonT(60), <1>0 DEF FreshItem, ItemType
  <2>3. Launch(new) \/ Stop(new, "restart") \/ (item' = new /\ UNCHANGED th)
    <3> HIDE DEF old, new
    <3>1. \/ cr.webhook
          \/ old.stopch = NoChan /\ Launch(new)
          \/ Stop(new, "restart")
          \/ item' = new /\ UNCHANGED th
      BY <1>2 DEF SubscribeItem, old, new
    <3> QED BY Zenon, <2>1, <3>1
  <2>4. /\ new \in ItemType /\ new.resources = old.resources
        /\ new.successful = old.successful
        /\ new.commitID = 0 \/ new.commitID = old.commitID
    <3> HIDE DEF old
    <3>1. new \in ItemType BY <2>1, <2>2, CopiedType
    <3>2. new.resources = old.resources /\ new.successful = old.successful
      BY <2>1, <2>2 DEF Copied, ItemType
    <3>3. new.commitID = 0 \/ new.commitID = old.commitID
      BY Zenon, <2>1, <2>2 DEF Copied, ItemType
    <3> QED BY <3>1, <3>2, <3>3
  <2>5. ~item.known => old.commitID = 0 BY DEF FreshItem
  <2>6. item.known => old = item OBVIOUS
  <2> HIDE DEF old, new
  <2>7. /\ item'.commitID = new.commitID /\ item'.resources = new.resources
        /\ item'.successful = new.successful
    BY Zenon, <1>l, <2>3, <2>4 DEF Stop, ItemType
  <2>8. th'[Worker].pc \notin {"fetch", "apply"}
        /\ \A p \in Pollers : \/ th'[p] = th[p]
                              \/ th[p].pc = "idle" /\ th'[p].pc \notin {"fetch", "apply"}
    <3>1. CASE Stop(new, "restart") BY <1>0, <3>1 DEF Stop, Goto, ThType
    <3> QED BY <1>l, <2>1, <2>3, <2>4, <3>1
  <2>9. ~item.known => \A p \in Pollers : th'[p].pc \notin {"fetch", "apply"}
    BY Zenon, <1>u, <2>8 DEF Unknown, Live
  <2>10. Frame
    BY ZenonT(60), <1>0, <2>1, <2>4, <2>5, <2>6, <2>7, <2>8, <2>9 DEF Threads
  <2> QED BY Zenon, <1>f, <2>10
<1>3. CASE UnsubscribeItem
  <2>1. CASE Stop(item, "purge")
    <3>1. th' = [th EXCEPT ![Worker].pc = "purge"] /\ item' = [item EXCEPT !.stopch = NoChan]
      BY <2>1 DEF Stop, Goto
    <3>2. /\ item'.known = item.known /\ item'.commitID = item.commitID
          /\ item'.resources = item.resources /\ item'.successful = item.successful
      BY Zenon, <1>0, <3>1 DEF ItemType
    <3>3. th[Worker].pc = "idle" /\ deployed' = deployed /\ lastRun' = lastRun
      BY Zenon, <1>3 DEF UnsubscribeItem
    <3>4. Frame BY <1>0, <3>1, <3>2, <3>3 DEF ThType
    <3> QED BY Zenon, <1>f, <3>4
  <2> QED BY <1>3, <2>1 DEF UnsubscribeItem, FetchInv, AttemptOK, DeployedIsCommit
<1>4. CASE StopReturns
  <2>1. lastRun' = lastRun /\ \A p \in Pollers : th[p].pc = "idle"
    BY Zenon, <1>4 DEF StopReturns, Joined
  <2>2. CASE th[Worker].pc = "restart" /\ Launch(item) /\ deployed' = deployed
    <3>1. Frame BY Zenon, <1>0, <1>l, <2>1, <2>2 DEF Threads
    <3> QED BY <1>f, <3>1
  <2>3. CASE th[Worker].pc = "purge" /\ item' = FreshItem /\ Goto(Worker, "idle")
    <3>1. ~item'.known BY Zenon, <2>3 DEF FreshItem
    <3>2. Frame BY Zenon, <1>0, <2>1, <2>3, <3>1 DEF Goto, ThType, Threads
    <3> QED BY <1>f, <3>2
  <2> QED BY ZenonT(60), <1>4, <2>2, <2>3 DEF StopReturns
<1>5. ASSUME NEW p \in Pollers, Enter(p) \/ Poll(p) \/ Exit(p)
      PROVE  FetchInv' /\ (\A t \in Threads : th[t].pc = "apply" => th'[t].pc = "apply")
             /\ (DeployedIsCommit => DeployedIsCommit')
  <2>1. /\ Live(p) /\ th'[p].pc \in {"idle", "loop", "begin"}
        /\ \A u \in Threads \ {p} : th'[u] = th[u]
        /\ item' = item
    BY <1>5, PollerStep
  <2>2. th[p].pc \in {"spawned", "loop"} /\ deployed' = deployed /\ lastRun' = lastRun
    BY Zenon, <1>5 DEF Enter, Poll, Exit
  <2> QED BY Zenon, <2>1, <2>2 DEF FetchInv, AttemptOK, DeployedIsCommit
<1>6. ASSUME NEW t \in Threads, DoSubscription(t)
      PROVE  /\ FetchInv'
             /\ \A u \in Threads : th[u].pc = "apply" /\ th'[u].pc # "apply" => KeptWanted(u)
             /\ DeployedIsCommit /\ "prune" \notin Faults => DeployedIsCommit'
  <2>1. AttemptOK(t) BY DEF FetchInv
  <2>2. AttemptOK(t)' /\ (Undecided \/ lastRun' = "failed" \/ Done(t)) /\ KeptWanted(t)
    BY Zenon, <1>6, <2>1, AttemptOutcome
  <2>3. /\ th[t].pc \in Attempting /\ item'.known = item.known
        /\ \A u \in Threads \ {t} : th'[u] = th[u]
    BY Zenon, <1>6, AttemptStep
  <2>4. \A u \in Threads \ {t} : th[u].pc \notin Attempting
    BY Zenon, <2>3 DEF SubscriberInv, OnePoller, WorkerAlone, Live, Threads, Attempting
  <2>5. FetchInv' BY Zenon, <2>2, <2>3, <2>4 DEF FetchInv, AttemptOK, Attempting
  <2>6. DeployedIsCommit /\ "prune" \notin Faults => DeployedIsCommit'
    BY <2>2, <2>3 DEF DeployedIsCommit, Undecided, Done
  <2> QED BY <2>2, <2>3, <2>5, <2>6
<1> QED BY ZenonT(60), <1>1, <1>2, <1>3, <1>4, <1>5, <1>6 DEF Next

\* Without webhooks and with complete reads, a success that is reported is
\* one: the cluster has what the recorded commit describes, whatever clone,
\* sort or apply fails and whoever restarts the goroutine meanwhile.
THEOREM SuccessIsDeployed ==
    ASSUME \A c \in CRs : ~c.webhook, Complete, "prune" \notin Faults
    PROVE  Spec => []DeployedIsCommit
<1>1. Init => FetchInv /\ DeployedIsCommit
  BY DEF Init, FetchInv, AttemptOK, DeployedIsCommit, Idle
<1>2. TypeOK /\ SubscriberInv /\ FetchInv /\ DeployedIsCommit /\ [Next]_vars
        => (FetchInv /\ DeployedIsCommit)'
  BY FetchStep
<1> QED BY <1>1, <1>2, TypeCorrect, GoroutinesAreHeld, PTL DEF Spec

\* And no attempt takes a resource off the cluster that its commit describes,
\* where the three passes of sortClonedGitRepo cannot leave one out.
THEOREM WantedIsKept ==
    ASSUME \A c \in CRs : ~c.webhook, Complete
    PROVE  Spec => KeepsWanted
<1>1. Init => FetchInv
  BY SMTT(60) DEF Init, FetchInv, AttemptOK, Idle
<1>2. TypeOK /\ SubscriberInv /\ FetchInv /\ [Next]_vars => FetchInv'
  BY FetchStep
<1>3. TypeOK /\ SubscriberInv /\ FetchInv /\ [Next]_vars
        => [\A t \in Threads : th[t].pc = "apply" /\ th'[t].pc # "apply"
              => \A r \in deployed \ deployed' : r \notin Content[th[t].cid]]_vars
  BY FetchStep DEF KeptWanted
<1> QED BY <1>1, <1>2, <1>3, TypeCorrect, GoroutinesAreHeld, PTL DEF Spec, KeepsWanted
=============================================================================
