------------------------ MODULE PlacementRulesProofs ------------------------
(***************************************************************************)
(* Proofs about PlacementRules, for any clusters, specs, bounds, changes    *)
(* and faults.                                                              *)
(***************************************************************************)
EXTENDS PlacementRules, FiniteSetTheorems, SequenceTheorems, WellFoundedInduction, TLAPS

----------------------------------------------------------------------------
(* Lists of clusters.                                                       *)

\* The number of clusters is a number.
LEMMA LimitType == Limit \in Nat
  BY FS_CardinalityType, PlacementAssumption DEF Limit

\* A list that is picked from some clusters has none of them twice, and as
\* many as it is long.
LEMMA PermutationFacts ==
    ASSUME NEW S \in SUBSET Clusters, NEW s \in SetToAllKPermutations(S)
    PROVE  /\ s \in Seq(Clusters) /\ Len(s) \in Nat
           /\ ToSet(s) \subseteq S /\ IsFiniteSet(ToSet(s))
           /\ Cardinality(ToSet(s)) = Len(s)
           /\ IsInjective(s)
<1>1. PICK T \in SUBSET S : s \in SetToSeqs(T)
  BY DEF SetToAllKPermutations
<1>2. IsFiniteSet(T) /\ Cardinality(T) \in Nat
  BY Zenon, FS_Subset, FS_CardinalityType, PlacementAssumption
<1> DEFINE n == Cardinality(T)
<1>3. s \in [1..n -> T] /\ \A i, j \in 1..n : i # j => s[i] # s[j]
  BY <1>1 DEF SetToSeqs
<1> HIDE DEF n
<1>4. n \in Nat
  BY <1>2 DEF n
<1>5. s \in Seq(Clusters) /\ Len(s) = n
  BY <1>3, <1>4
<1>6. ToSet(s) = {s[i] : i \in 1..n}
  BY <1>3 DEF ToSet
<1>7. s \in Bijection(1..n, ToSet(s))
  BY Zenon, <1>3, <1>6 DEF Bijection, Injection, Surjection, IsInjective
<1>8. IsFiniteSet(1..n) /\ Cardinality(1..n) = n
  BY <1>4, FS_Interval
<1>9. IsFiniteSet(ToSet(s)) /\ Cardinality(ToSet(s)) = n
  BY Zenon, <1>7, <1>8, FS_Bijection DEF ExistsBijection
<1> QED BY Zenon, <1>3, <1>4, <1>5, <1>6, <1>9 DEF IsInjective

\* Whichever way clusters are picked, the list is one of theirs, without
\* repetition, and as long as Total says.
LEMMA PickedList ==
    ASSUME NEW spec, NEW old, NEW clmap, DOMAIN clmap \subseteq Clusters,
           NEW s \in PickClustersByReplicas(spec, old, clmap)
    PROVE  s \in SetToAllKPermutations(DOMAIN clmap) /\ Len(s) = Total(spec, clmap)
  BY DEF PickClustersByReplicas, PickUnsorted, PickSorted

\* A slice is a list of clusters within the bound.
LEMMA SliceType ==
    ASSUME NEW list \in Seq(Clusters), NEW i \in Slices(list)
    PROVE  Slice(list, i) \in Seq(Clusters) /\ Len(Slice(list, i)) <= MaxDecisions
<1> DEFINE m == (i - 1) * MaxDecisions + 1
           n == IF i * MaxDecisions < Len(list) THEN i * MaxDecisions ELSE Len(list)
<1>1. i \in Nat /\ i >= 1 /\ MaxDecisions \in Nat /\ MaxDecisions >= 1 /\ Len(list) \in Nat
  BY PlacementAssumption, LimitType DEF Slices, Indices
<1>2. (i - 1) * MaxDecisions \in Nat /\ i * MaxDecisions = (i - 1) * MaxDecisions + MaxDecisions
  BY <1>1
<1>3. m \in Nat /\ m >= 1 /\ n \in Nat /\ n <= Len(list) /\ n <= m + MaxDecisions - 1
  BY <1>1, <1>2
<1> HIDE DEF m, n
<1>4. \A k \in m..n : list[k] \in Clusters
  BY <1>1, <1>3
<1>5. /\ SubSeq(list, m, n) \in Seq(Clusters)
      /\ Len(SubSeq(list, m, n)) = IF m <= n THEN n - m + 1 ELSE 0
  BY <1>3, <1>4, SubSeqProperties
<1>6. Slice(list, i) = SubSeq(list, m, n)
  BY DEF Slice, m, n
<1> QED BY <1>1, <1>3, <1>5, <1>6

\* The slices of a list are numbered without gaps: beyond the first number
\* that is none of them there is none.
LEMMA SlicesBelow ==
    ASSUME NEW list \in Seq(Clusters), NEW k \in 1..Limit + 1, k \notin Slices(list),
           NEW i \in Slices(list)
    PROVE  i < k
<1>1. /\ i \in Nat /\ i >= 1 /\ i <= Limit /\ MaxDecisions \in Nat /\ Len(list) \in Nat
      /\ k \in Nat /\ k >= 1 /\ Limit \in Nat
  BY PlacementAssumption, LimitType DEF Slices, Indices
<1> SUFFICES ASSUME k <= i PROVE FALSE
  BY <1>1
<1>2. (i - 1) * MaxDecisions = (k - 1) * MaxDecisions + (i - k) * MaxDecisions
      /\ (i - k) * MaxDecisions >= 0
  BY <1>1
<1>3. (k - 1) * MaxDecisions \in Int /\ (i - 1) * MaxDecisions < Len(list)
  BY <1>1 DEF Slices
<1>4. (k - 1) * MaxDecisions < Len(list)
  BY <1>1, <1>2, <1>3
<1>5. k \in Indices
  BY <1>1 DEF Indices
<1> QED BY <1>4, <1>5 DEF Slices

----------------------------------------------------------------------------
(* Types.                                                                   *)

CtlOK(c) == c \in [pc : {"idle", "place", "user", "update"}, fresh : {"no", "yes"}, rule : Rule,
                   clmap : {c.clmap}] /\ DOMAIN c.clmap \subseteq Clusters
SctlType == [pc : {"idle", "sync"}, uid : 0..MaxRules, decisions : Seq(Clusters),
             next : 1..Limit + 1, error : {"no", "yes"}]
BoundedPDs == {p \in [Indices -> PD] : \A i \in Indices : Len(p[i].list) <= MaxDecisions}

Parts == /\ rule \in Rule /\ clusters \in [Clusters -> ClusterType]
         /\ granted \in SUBSET Clusters
         /\ registry \in {"no", "yes"} /\ watch \in {"no", "yes"}
         /\ detect \in {"no", "yes"} /\ unseen \in {"no", "yes"}
         /\ boot \in {"add", "detect", "up"} /\ queue \in SUBSET {"decide", "publish"}
         /\ CtlOK(ctl) /\ sctl \in SctlType /\ pds \in BoundedPDs
         /\ collected \in SUBSET Indices
         /\ changes \in 0..MaxChanges /\ faults \in 0..MaxFaults

\* TypeOK, part by part, in a state and in the next one.
LEMMA TypeParts == (TypeOK <=> Parts) /\ (TypeOK' <=> Parts')
  BY DEF TypeOK, Parts, CtlOK, SctlType, BoundedPDs

\* The values that things begin with.
LEMMA Beginnings ==
    /\ NoSpec \in SpecType /\ NoRule \in Rule /\ NoCluster \in ClusterType
    /\ NoPD \in PD /\ Len(NoPD.list) = 0
    /\ CtlOK(Idle) /\ Idle.pc = "idle" /\ StatusIdle \in SctlType
<1>1. MaxRules \in Nat /\ Limit \in Nat
  BY PlacementAssumption, LimitType
<1>2. NoSpec \in SpecType
  BY DEF NoSpec, SpecType
<1>3. NoRule \in Rule
  BY <1>1, <1>2 DEF NoRule, Rule
<1>4. NoCluster \in ClusterType
  BY DEF NoCluster, ClusterType
<1>5. NoPD \in PD /\ Len(NoPD.list) = 0
  BY <1>1 DEF NoPD, PD
<1>6. CtlOK(Idle) /\ Idle.pc = "idle"
  BY <1>3 DEF Idle, CtlOK
<1>7. StatusIdle \in SctlType
  BY <1>1 DEF StatusIdle, SctlType
<1> QED BY Zenon, <1>2, <1>3, <1>4, <1>5, <1>6, <1>7

\* A write of the rule.
LEMMA WriteRuleType ==
    ASSUME TypeOK, NEW new \in Rule, NEW who \in SUBSET {"decide", "publish"}, WriteRule(new, who)
    PROVE  rule' \in Rule /\ queue' \in SUBSET {"decide", "publish"} /\ CtlOK(ctl')
<1>1. CtlOK(ctl) /\ queue \in SUBSET {"decide", "publish"}
  BY TypeParts DEF Parts
<1>2. ctl' = [ctl EXCEPT !.fresh = "no"]
  BY DEF WriteRule
<1>3. CtlOK(ctl')
  BY <1>1, <1>2 DEF CtlOK
<1> QED BY Zenon, <1>1, <1>3 DEF WriteRule, Enqueue

\* Counters of changes and faults stay within their bounds.
LEMMA CounterType ==
    ASSUME TypeOK
    PROVE  /\ \A k : Change(k) => changes' \in 0..MaxChanges
           /\ Fail => faults' \in 0..MaxFaults
           /\ Ok => faults' \in 0..MaxFaults
  BY SMTT(60), PlacementAssumption DEF TypeOK, Change, Fail, Ok

\* What happens around the controllers keeps the types.
LEMMA SurroundingsType ==
    ASSUME TypeOK, Surroundings \/ Process \/ Collect
    PROVE  TypeOK'
<1> USE Beginnings
<1>0. Parts
  BY TypeParts
<1>1. CASE EditRule
  <2>1. PICK x \in Specs : WriteRule([rule EXCEPT !.spec = x], {"decide"})
    BY <1>1 DEF EditRule
  <2>2. [rule EXCEPT !.spec = x] \in Rule
    BY Zenon, <1>0, PlacementAssumption DEF Parts, Rule
  <2>3. rule' \in Rule /\ queue' \in SUBSET {"decide", "publish"} /\ CtlOK(ctl')
    BY <2>1, <2>2, WriteRuleType
  <2> QED BY Zenon, <1>0, <1>1, <2>3, TypeParts, CounterType DEF Parts, EditRule, world, process, history
<1>2. CASE DeleteRule
  <2>1. [NoRule EXCEPT !.uid = rule.uid] \in Rule
    BY <1>0 DEF Parts, Rule
  <2>2. rule' \in Rule /\ queue' \in SUBSET {"decide", "publish"} /\ CtlOK(ctl')
    BY Zenon, <1>2, <2>1, WriteRuleType DEF DeleteRule
  <2> QED BY Zenon, <1>0, <1>2, <2>2, TypeParts, CounterType DEF Parts, DeleteRule, world, process, history
<1>3. CASE CreateRule
  <2>1. PICK x \in Specs :
          WriteRule([there |-> "yes", uid |-> rule.uid + 1, spec |-> x, decisions |-> <<>>],
                    {"decide", "publish"})
    BY <1>3 DEF CreateRule
  <2>2. rule.uid + 1 \in 0..MaxRules
    BY <1>0, <1>3, PlacementAssumption DEF Parts, CreateRule, Rule
  <2>3. [there |-> "yes", uid |-> rule.uid + 1, spec |-> x, decisions |-> <<>>] \in Rule
    BY <2>2, PlacementAssumption DEF Rule
  <2>4. rule' \in Rule /\ queue' \in SUBSET {"decide", "publish"} /\ CtlOK(ctl')
    BY Zenon, <2>1, <2>3, WriteRuleType
  <2> QED BY Zenon, <1>0, <1>3, <2>4, TypeParts DEF Parts, CreateRule, world, process
<1>4. ASSUME NEW c \in Clusters, ChangeCluster(c) PROVE TypeOK'
  <2>1. PICK new \in ClusterStates : clusters' = [clusters EXCEPT ![c] = new]
    BY Zenon, <1>4 DEF ChangeCluster
  <2>2. clusters' \in [Clusters -> ClusterType]
    BY Zenon, <1>0, <2>1, PlacementAssumption DEF Parts
  <2>3. queue' \in SUBSET {"decide", "publish"} /\ unseen' \in {"no", "yes"}
    BY Zenon, <1>0, <1>4 DEF Parts, ChangeCluster, Enqueue
  <2> QED BY ZenonT(60), <1>0, <1>4, <2>2, <2>3, TypeParts, CounterType DEF Parts, ChangeCluster, process
<1>5. CASE Grant
  BY Zenon, <1>0, <1>5, TypeParts, CounterType DEF Parts, Grant, process
<1>6. CASE InstallRegistry
  BY Zenon, <1>0, <1>6, TypeParts DEF Parts, InstallRegistry, process, history
<1>7. CASE Collect
  <2>1. PICK i \in Indices :
          /\ pds' = [pds EXCEPT ![i] = NoPD]
          /\ collected' = IF rule.there = "no" THEN collected ELSE collected \cup {i}
    BY Zenon, <1>7 DEF Collect
  <2>2. pds' \in BoundedPDs
    <3>1. MaxDecisions \in Nat BY Zenon, PlacementAssumption
    <3> QED BY <1>0, <2>1, <3>1 DEF Parts, BoundedPDs
  <2> QED BY Zenon, <1>0, <1>7, <2>1, <2>2, TypeParts DEF Parts, Collect, world, process
<1>8. CASE Add \/ DetectClusterRegistry
  <2>1. /\ watch' \in {"no", "yes"} /\ detect' \in {"no", "yes"}
        /\ boot' \in {"add", "detect", "up"} /\ queue' \in SUBSET {"decide", "publish"}
    BY Zenon, <1>0, <1>8 DEF Parts, Add, DetectClusterRegistry
  <2> QED BY Zenon, <1>0, <1>8, <2>1, TypeParts DEF Parts, Add, DetectClusterRegistry, world, history
<1>9. CASE Exit \/ Crash
  BY Zenon, <1>0, <1>9, TypeParts, CounterType DEF Parts, Exit, Crash, Stop, world, history
<1> QED BY Zenon, <1>1, <1>2, <1>3, <1>4, <1>5, <1>6, <1>7, <1>8, <1>9 DEF Surroundings, Process

\* The controller of the rule keeps the types.
LEMMA DecideType ==
    ASSUME TypeOK, Decide
    PROVE  TypeOK'
<1> USE Beginnings
<1>0. Parts
  BY TypeParts
<1>1. CASE Reconcile
  <2>1. CtlOK(ctl')
    <3>1. CASE rule.there = "no" \/ rule.spec.scheduler # "mcm"
      BY <1>1, <3>1 DEF Reconcile
    <3>2. CASE ~(rule.there = "no" \/ rule.spec.scheduler # "mcm")
      BY Zenon, <1>0, <1>1, <3>2 DEF Parts, Reconcile, Idle, CtlOK
    <3> QED BY <3>1, <3>2
  <2> QED BY Zenon, <1>0, <1>1, <2>1, TypeParts DEF Parts, Reconcile, world, process
<1>2. CASE PlaceByGenericPlacementFields
  <2>1. CtlOK(ctl') /\ queue' \in SUBSET {"decide", "publish"}
    <3>1. CASE Again
      BY <1>0, <3>1 DEF Parts, Again
    <3>2. CASE /\ UNCHANGED queue
               /\ ctl' = [ctl EXCEPT !.pc = IF Limited(ctl.rule.spec) THEN "user" ELSE "update",
                    !.clmap = [c \in Eligible(ctl.rule.spec) |-> clusters[c].metric]]
      BY Zenon, <1>0, <3>2 DEF Parts, CtlOK, Eligible, Named
    <3> QED BY Zenon, <1>2, <3>1, <3>2 DEF PlaceByGenericPlacementFields
  <2>2. faults' \in 0..MaxFaults
    BY Zenon, <1>2, CounterType DEF PlaceByGenericPlacementFields
  <2> QED BY Zenon, <1>0, <1>2, <2>1, <2>2, TypeParts
          DEF Parts, PlaceByGenericPlacementFields, world, process, history
<1>3. CASE FilterClustersByUser
  <2>1. PICK cs \in SUBSET Clusters :
          ctl' = [ctl EXCEPT !.pc = "update",
                    !.clmap = [c \in DOMAIN ctl.clmap \cap cs |-> ctl.clmap[c]]]
    BY Zenon, <1>3 DEF FilterClustersByUser
  <2>2. CtlOK(ctl')
    BY Zenon, <1>0, <2>1 DEF Parts, CtlOK
  <2>3. faults' \in 0..MaxFaults /\ unseen' \in {"no", "yes"}
    BY <1>0, <1>3, CounterType DEF Parts, FilterClustersByUser
  <2> QED BY Zenon, <1>0, <1>3, <2>2, <2>3, TypeParts DEF Parts, FilterClustersByUser, world, process
<1>4. CASE UpdateStatus
  <2>0. PICK new \in PickClustersByReplicas(ctl.rule.spec, ctl.rule.decisions, ctl.clmap) :
         \/ /\ new = ctl.rule.decisions /\ Ok
            /\ ctl' = Idle /\ UNCHANGED <<rule, queue>>
         \/ /\ new # ctl.rule.decisions
            /\ Fail \/ (Ok /\ ctl.fresh = "no")
            /\ Again /\ UNCHANGED rule
         \/ /\ new # ctl.rule.decisions /\ Ok /\ ctl.fresh = "yes"
            /\ rule' = [rule EXCEPT !.decisions = new]
            /\ queue' = queue \cup {"decide"} \cup
                   (IF DecisionsDiffer(rule.decisions, new) THEN {"publish"} ELSE {})
            /\ ctl' = Idle
    BY <1>4 DEF UpdateStatus
  <2>1. new \in Seq(Clusters)
    <3>1. DOMAIN ctl.clmap \in SUBSET Clusters
      BY <1>0 DEF Parts, CtlOK
    <3>2. new \in SetToAllKPermutations(DOMAIN ctl.clmap)
      BY <3>1, PickedList
    <3> QED BY Zenon, <3>1, <3>2, PermutationFacts
  <2>2. rule' \in Rule
    BY Zenon, <1>0, <2>0, <2>1 DEF Parts, Rule
  <2>3. ctl' = Idle /\ queue' \in SUBSET {"decide", "publish"}
    BY Zenon, <1>0, <2>0 DEF Parts, Again
  <2>4. faults' \in 0..MaxFaults
    BY <2>0, CounterType
  <2> QED BY ZenonT(60), <1>0, <1>4, <2>2, <2>3, <2>4, TypeParts DEF Parts, UpdateStatus, world, process, history
<1> QED BY Zenon, <1>1, <1>2, <1>3, <1>4 DEF Decide

\* The controller of the status keeps the types.
LEMMA PublishType ==
    ASSUME TypeOK, Publish
    PROVE  TypeOK'
<1> USE Beginnings
<1>0. Parts
  BY TypeParts
<1>a. Limit \in Nat /\ MaxDecisions \in Nat
  BY PlacementAssumption, LimitType
<1>1. CASE ReconcileStatus
  <2>1. sctl' \in SctlType
    <3>1. CASE rule.there = "no"
      BY <1>1, <3>1 DEF ReconcileStatus
    <3>2. CASE rule.there # "no"
      BY Zenon, <1>0, <1>1, <1>a, <3>2 DEF Parts, ReconcileStatus, StatusIdle, SctlType, Rule
    <3> QED BY <3>1, <3>2
  <2> QED BY Zenon, <1>0, <1>1, <2>1, TypeParts DEF Parts, ReconcileStatus, world, process, history
<1>2. CASE CreateOrUpdatePlacementDecision
  <2> DEFINE i == sctl.next
             owned == [pds[i] EXCEPT !.owner = IF @ = 0 THEN sctl.uid ELSE @]
             full == [owned EXCEPT !.list = Slice(sctl.decisions, i)]
  <2>1. i \in Indices /\ sctl.decisions \in Seq(Clusters) /\ sctl.uid \in 0..MaxRules
    BY Zenon, <1>0, <1>2 DEF Parts, SctlType, CreateOrUpdatePlacementDecision, Slices
  <2>2. pds[i] \in PD /\ Len(pds[i].list) <= MaxDecisions
    BY <1>0, <2>1 DEF Parts, BoundedPDs
  <2>3. Slice(sctl.decisions, i) \in Seq(Clusters) /\ Len(Slice(sctl.decisions, i)) <= MaxDecisions
    BY Zenon, <1>2, <2>1, SliceType DEF CreateOrUpdatePlacementDecision
  <2>4. owned \in PD /\ Len(owned.list) <= MaxDecisions
    BY Zenon, <2>1, <2>2 DEF PD
  <2>5. full \in PD /\ Len(full.list) <= MaxDecisions
    BY Zenon, <2>3, <2>4 DEF PD
  <2>6. pds' = pds \/ pds' = [pds EXCEPT ![i] = owned] \/ pds' = [pds EXCEPT ![i] = full]
    BY <1>2 DEF CreateOrUpdatePlacementDecision
  <2> HIDE DEF i, owned, full
  <2>7. pds' \in BoundedPDs
    BY Zenon, <1>0, <2>1, <2>4, <2>5, <2>6 DEF Parts, BoundedPDs
  <2>8. collected' \in SUBSET Indices
    BY <1>0, <1>2 DEF Parts, CreateOrUpdatePlacementDecision
  <2>9. sctl' = [sctl EXCEPT !.next = i + 1] \/ sctl' = [sctl EXCEPT !.next = i + 1, !.error = "yes"]
    BY <1>2 DEF CreateOrUpdatePlacementDecision, i
  <2>10. i + 1 \in 1..Limit + 1
    BY <1>a, <2>1 DEF Indices
  <2>11. sctl' \in SctlType
    BY Zenon, <1>0, <2>9, <2>10 DEF Parts, SctlType
  <2>12. faults' \in 0..MaxFaults
    BY <1>2, CounterType DEF CreateOrUpdatePlacementDecision
  <2> QED BY ZenonT(60), <1>0, <1>2, <2>7, <2>8, <2>11, <2>12, TypeParts
          DEF Parts, CreateOrUpdatePlacementDecision, world, process
<1>3. CASE DeleteRedundant
  <2>1. PICK S \in SUBSET Indices :
          pds' = pds \/ pds' = [i \in Indices |-> IF i \in S THEN pds[i] ELSE NoPD]
    <3>1. CASE pds' = [i \in Indices |-> IF i \in Slices(sctl.decisions) THEN pds[i] ELSE NoPD]
      BY Zenon, <3>1 DEF Slices
    <3>2. ASSUME NEW left \in SUBSET (Indices \ Slices(sctl.decisions)),
                 pds' = [i \in Indices |-> IF i \in Slices(sctl.decisions) \cup left
                                           THEN pds[i] ELSE NoPD]
          PROVE  \E S \in SUBSET Indices :
                    pds' = pds \/ pds' = [i \in Indices |-> IF i \in S THEN pds[i] ELSE NoPD]
      <4>1. Slices(sctl.decisions) \cup left \in SUBSET Indices
        BY DEF Slices
      <4> QED BY Zenon, <3>2, <4>1
    <3> QED BY Zenon, <1>3, <3>1, <3>2 DEF DeleteRedundant
  <2>2. pds' \in BoundedPDs
    BY <1>0, <1>a, <2>1 DEF Parts, BoundedPDs
  <2>3. sctl' = StatusIdle /\ queue' \in SUBSET {"decide", "publish"}
    BY <1>0, <1>3 DEF Parts, DeleteRedundant
  <2>4. faults' \in 0..MaxFaults
    BY <1>3, CounterType DEF DeleteRedundant
  <2> QED BY ZenonT(60), <1>0, <1>3, <2>2, <2>3, <2>4, TypeParts DEF Parts, DeleteRedundant, world, process, history
<1> QED BY Zenon, <1>1, <1>2, <1>3 DEF Publish

\* The state is well formed, and no PlacementDecision is ever longer than
\* maxNumOfClusterDecisions, for any clusters, specs, bounds and faults
\* (createOrUpdatePlacementDecision).
THEOREM TypeCorrect == Spec => []TypeOK
<1>1. Init => TypeOK
  <2> SUFFICES ASSUME Init PROVE Parts
    BY TypeParts
  <2>1. MaxDecisions \in Nat /\ MaxChanges \in Nat /\ MaxFaults \in Nat
    BY PlacementAssumption
  <2>2. pds \in BoundedPDs
    BY <2>1, Beginnings DEF Init, BoundedPDs
  <2>3. clusters \in [Clusters -> ClusterType]
    BY PlacementAssumption DEF Init
  <2> QED BY <2>1, <2>2, <2>3, Beginnings DEF Init, Parts
<1>2. TypeOK /\ [Next]_vars => TypeOK'
  <2> SUFFICES ASSUME TypeOK, [Next]_vars PROVE TypeOK'
    OBVIOUS
  <2>1. CASE UNCHANGED vars
    BY Zenon, <2>1 DEF TypeOK, vars
  <2> QED BY Zenon, <2>1, SurroundingsType, DecideType, PublishType DEF Next
<1> QED BY <1>1, <1>2, PTL DEF Spec

----------------------------------------------------------------------------
(* The PlacementDecisions follow the status of the rule.                    *)

Written(list, i) == pds[i].owner # 0 /\ pds[i].list = Slice(list, i)

\* While no change of the status waits, a reconcile of it works from the
\* decisions as they are, and has written the slices before the next one.
SyncInv ==
    /\ sctl.pc = "sync" => boot = "up" /\ sctl.uid # 0
    /\ rule.there = "yes" => rule.uid # 0
    /\ boot = "up" /\ rule.there = "yes" /\ "publish" \notin queue /\ sctl.pc = "idle" =>
         Published(rule.decisions)
    /\ boot = "up" /\ rule.there = "yes" /\ "publish" \notin queue /\ sctl.pc = "sync" =>
         /\ sctl.decisions = rule.decisions
         /\ sctl.error = "no" => \A i \in Slices(sctl.decisions) \ collected :
                                   i < sctl.next => Written(sctl.decisions, i)

\* A step that leaves the reconcile, the decisions and the objects alone.
LEMMA SyncKept ==
    ASSUME SyncInv, sctl' = sctl, pds' = pds, collected' = collected, boot' = boot,
           queue \ {"decide"} \subseteq queue',
           rule'.there = "yes" => /\ rule.there = "yes" /\ rule'.uid = rule.uid
                                  /\ rule'.decisions = rule.decisions \/ "publish" \in queue'
    PROVE  SyncInv'
<1>1. "publish" \notin queue' => "publish" \notin queue
  OBVIOUS
<1>2. /\ (sctl.pc = "sync" => boot = "up" /\ sctl.uid # 0)'
      /\ (rule.there = "yes" => rule.uid # 0)'
  BY DEF SyncInv
<1>3. ASSUME boot' = "up", rule'.there = "yes", "publish" \notin queue'
      PROVE  /\ rule'.decisions = rule.decisions
             /\ sctl.pc = "idle" => Published(rule.decisions)
             /\ sctl.pc = "sync" =>
                  /\ sctl.decisions = rule.decisions
                  /\ sctl.error = "no" => \A i \in Slices(sctl.decisions) \ collected :
                                            i < sctl.next => Written(sctl.decisions, i)
  BY <1>1, <1>3 DEF SyncInv
<1> QED BY Zenon, <1>2, <1>3 DEF SyncInv, Published, Written

\* What happens around the controllers keeps them in step.
LEMMA SurroundingsSync ==
    ASSUME TypeOK, SyncInv, Surroundings \/ Process \/ Collect \/ Decide
    PROVE  SyncInv'
<1>0. Parts
  BY TypeParts
<1>1. CASE EditRule
  <2>1. PICK x \in Specs : WriteRule([rule EXCEPT !.spec = x], {"decide"})
    BY <1>1 DEF EditRule
  <2>2. rule' = [rule EXCEPT !.spec = x] /\ queue \subseteq queue'
    BY <2>1 DEF WriteRule, Enqueue
  <2>3. rule'.there = rule.there /\ rule'.uid = rule.uid /\ rule'.decisions = rule.decisions
    BY <1>0, <2>2 DEF Parts, Rule
  <2> QED BY Zenon, <1>1, <2>2, <2>3, SyncKept DEF EditRule, process, history
<1>2. CASE DeleteRule
  <2>1. rule'.there = "no" /\ queue \subseteq queue'
    BY <1>2 DEF DeleteRule, WriteRule, Enqueue, NoRule
  <2> QED BY Zenon, <1>2, <2>1, SyncKept DEF DeleteRule, process, history
<1>3. CASE CreateRule
  <2>1. rule'.uid = rule.uid + 1 /\ queue' = Enqueue({"decide", "publish"})
    BY <1>3 DEF CreateRule, WriteRule
  <2>2. rule'.uid # 0
    BY <1>0, <2>1, PlacementAssumption DEF Parts, Rule
  <2>3. boot' = boot /\ sctl' = sctl
    BY <1>3 DEF CreateRule, process
  <2>4. boot' = "up" => "publish" \in queue'
    BY <2>1, <2>3 DEF Enqueue
  <2> QED BY Zenon, <2>2, <2>3, <2>4 DEF SyncInv
<1>4. ASSUME NEW c \in Clusters, ChangeCluster(c) PROVE SyncInv'
  <2>1. queue \subseteq queue' /\ rule' = rule
    BY <1>4 DEF ChangeCluster, Enqueue
  <2> QED BY Zenon, <1>4, <2>1, SyncKept DEF ChangeCluster, process
<1>5. CASE Grant \/ InstallRegistry
  BY Zenon, <1>5, SyncKept DEF Grant, InstallRegistry, process, history
<1>6. CASE Collect
  <2>1. PICK i \in Indices :
          /\ pds' = [pds EXCEPT ![i] = NoPD]
          /\ collected' = IF rule.there = "no" THEN collected ELSE collected \cup {i}
    BY Zenon, <1>6 DEF Collect
  <2>2. UNCHANGED <<rule, boot, queue, sctl>>
    BY Zenon, <1>6 DEF Collect, process
  <2>3. CASE rule.there = "no"
    BY Zenon, <2>2, <2>3 DEF SyncInv
  <2>4. CASE rule.there # "no"
    <3>1. /\ collected' = collected \cup {i}
          /\ \A k \in Indices \ collected' : k \in Indices \ collected /\ pds'[k] = pds[k]
      BY Zenon, <1>0, <2>1, <2>4 DEF Parts, BoundedPDs
    <3>2. \A list : Slices(list) \subseteq Indices
      BY DEF Slices
    <3>3. Published(rule.decisions) => Published(rule.decisions)'
      BY Zenon, <2>2, <3>1 DEF Published
    <3>4. \A k \in Slices(sctl.decisions) \ collected' :
            Written(sctl.decisions, k) => Written(sctl.decisions, k)'
      BY Zenon, <2>2, <3>1, <3>2 DEF Written
    <3> QED BY Zenon, <2>2, <3>1, <3>3, <3>4 DEF SyncInv
  <2> QED BY Zenon, <2>3, <2>4
<1>7. CASE Add
  BY Zenon, <1>0, <1>7 DEF Parts, Add, SyncInv, SctlType
<1>8. CASE DetectClusterRegistry
  <2>1. rule' = rule /\ sctl' = sctl /\ boot = "detect" /\ sctl.pc # "sync"
    BY <1>8 DEF DetectClusterRegistry, SyncInv
  <2>2. rule.there = "yes" => "publish" \in queue'
    BY Zenon, <1>8 DEF DetectClusterRegistry
  <2> QED BY Zenon, <2>1, <2>2 DEF SyncInv
<1>9. CASE Exit \/ Crash
  <2>1. boot' = "add" /\ sctl' = StatusIdle /\ rule' = rule
    BY <1>9 DEF Exit, Crash, Stop
  <2> QED BY <2>1 DEF SyncInv, StatusIdle
<1>10. CASE Reconcile \/ PlaceByGenericPlacementFields \/ FilterClustersByUser
  <2>1. UNCHANGED <<rule, boot, sctl, pds, collected>> /\ queue \ {"decide"} \subseteq queue'
    BY Zenon, <1>10 DEF Reconcile, PlaceByGenericPlacementFields, FilterClustersByUser, Again,
                 process, history
  <2> QED BY <2>1, SyncKept
<1>11. CASE UpdateStatus
  <2>1. UNCHANGED <<boot, sctl, pds, collected>>
    BY <1>11 DEF UpdateStatus, process, history
  <2>2. PICK new \in PickClustersByReplicas(ctl.rule.spec, ctl.rule.decisions, ctl.clmap) :
          \/ UNCHANGED rule /\ queue \subseteq queue'
          \/ /\ rule' = [rule EXCEPT !.decisions = new]
             /\ queue' = queue \cup {"decide"} \cup
                    (IF DecisionsDiffer(rule.decisions, new) THEN {"publish"} ELSE {})
    BY Zenon, <1>11 DEF UpdateStatus, Again
  <2>3. CASE UNCHANGED rule /\ queue \subseteq queue'
    BY Zenon, <2>1, <2>3, SyncKept
  <2>4. CASE /\ rule' = [rule EXCEPT !.decisions = new]
             /\ queue' = queue \cup {"decide"} \cup
                    (IF DecisionsDiffer(rule.decisions, new) THEN {"publish"} ELSE {})
    <3>1. rule'.there = rule.there /\ rule'.uid = rule.uid /\ rule'.decisions = new
      BY Zenon, <1>0, <2>4 DEF Parts, Rule
    <3>2. queue \subseteq queue' /\ (new = rule.decisions \/ "publish" \in queue')
      BY Zenon, <2>4 DEF DecisionsDiffer
    <3> QED BY Zenon, <2>1, <3>1, <3>2, SyncKept
  <2> QED BY Zenon, <2>2, <2>3, <2>4
<1> QED BY ZenonT(60), <1>1, <1>2, <1>3, <1>4, <1>5, <1>6, <1>7, <1>8, <1>9, <1>10, <1>11
        DEF Surroundings, Process, Decide

\* The controller of the status keeps in step.
LEMMA PublishSync ==
    ASSUME TypeOK, SyncInv, Publish
    PROVE  SyncInv'
<1>0. Parts
  BY Zenon, TypeParts
<1>a. Limit \in Nat /\ sctl.next \in 1..Limit + 1 /\ sctl.decisions \in Seq(Clusters)
  BY Zenon, <1>0, LimitType DEF Parts, SctlType
<1>1. CASE ReconcileStatus
  <2>1. UNCHANGED <<rule, boot, pds, collected>> /\ boot = "up"
    BY Zenon, <1>1 DEF ReconcileStatus, process, history
  <2>2. CASE rule.there = "no"
    <3>1. sctl' = StatusIdle
      BY Zenon, <1>1, <2>2 DEF ReconcileStatus
    <3> QED BY Zenon, <2>1, <2>2, <3>1 DEF SyncInv, StatusIdle
  <2>3. CASE rule.there # "no"
    <3>1. /\ sctl'.pc = "sync" /\ sctl'.uid = rule.uid /\ sctl'.decisions = rule.decisions
          /\ sctl'.next = 1
      BY Zenon, <1>1, <2>3 DEF ReconcileStatus, StatusIdle
    <3>2. rule.there = "yes"
      BY Zenon, <1>0, <2>3 DEF Parts, Rule
    <3>3. \A i \in Slices(sctl.decisions)' : ~(i < sctl'.next)
      BY <1>a, <3>1 DEF Slices, Indices
    <3> QED BY Zenon, <2>1, <3>1, <3>2, <3>3 DEF SyncInv
  <2> QED BY Zenon, <2>2, <2>3
<1>2. CASE CreateOrUpdatePlacementDecision
  <2> DEFINE n == sctl.next
             owned == [pds[n] EXCEPT !.owner = IF @ = 0 THEN sctl.uid ELSE @]
             full == [owned EXCEPT !.list = Slice(sctl.decisions, n)]
  <2>1. UNCHANGED <<rule, boot, queue>> /\ sctl.pc = "sync" /\ n \in Slices(sctl.decisions)
    BY Zenon, <1>2 DEF CreateOrUpdatePlacementDecision, process
  <2>2. n \in Indices /\ pds[n] \in PD /\ sctl.uid # 0 /\ n \in Int
    BY <1>0, <1>a, <2>1 DEF Parts, BoundedPDs, Slices, SyncInv, Indices
  <2>3. full.owner # 0 /\ full.list = Slice(sctl.decisions, n)
    BY <2>2 DEF PD
  <2>4. CASE /\ pds' = [pds EXCEPT ![n] = full] /\ collected' = collected \ {n}
             /\ sctl' = [sctl EXCEPT !.next = n + 1]
    <3>1. /\ sctl'.pc = "sync" /\ sctl'.uid = sctl.uid /\ sctl'.decisions = sctl.decisions
          /\ sctl'.error = sctl.error /\ sctl'.next = n + 1
      BY Zenon, <1>0, <2>1, <2>4 DEF Parts, SctlType
    <3> HIDE DEF n, full
    <3>2. \A i \in Indices : pds'[i] = IF i = n THEN full ELSE pds[i]
      BY Zenon, <1>0, <2>4 DEF Parts, BoundedPDs
    <3>3. ASSUME NEW i \in Slices(sctl'.decisions) \ collected', i < sctl'.next,
                 i < n /\ i \notin collected => Written(sctl.decisions, i)
          PROVE  Written(sctl.decisions, i)'
      <4>1. i \in Indices /\ i \in Int
        BY <1>a DEF Slices, Indices
      <4>2. CASE i = n
        BY ZenonT(60), <2>3, <3>1, <3>2, <4>1, <4>2 DEF Written
      <4>3. CASE i # n
        <5>1. i < n /\ i \notin collected
          BY SMTT(60), <2>2, <2>4, <3>1, <3>3, <4>1, <4>3
        <5> QED BY ZenonT(60), <3>1, <3>2, <3>3, <4>1, <4>3, <5>1 DEF Written
      <4> QED BY Zenon, <4>2, <4>3
    <3>4. ASSUME boot = "up", rule.there = "yes", "publish" \notin queue
          PROVE  /\ sctl.decisions = rule.decisions
                 /\ sctl.error = "no" => \A i \in Slices(sctl.decisions) \ collected :
                                           i < n => Written(sctl.decisions, i)
      BY Zenon, <2>1, <3>4 DEF SyncInv, n
    <3>5. ASSUME boot = "up", rule.there = "yes", "publish" \notin queue, sctl.error = "no",
                 NEW i \in Slices(sctl'.decisions) \ collected', i < sctl'.next
          PROVE  Written(sctl.decisions, i)'
      <4>1. i < n /\ i \notin collected => Written(sctl.decisions, i)
        BY Zenon, <3>1, <3>4, <3>5
      <4> QED BY Zenon, <3>3, <3>5, <4>1
    <3>6. boot = "up"
      BY <2>1 DEF SyncInv
    <3>7. ASSUME boot' = "up", rule'.there = "yes", "publish" \notin queue'
          PROVE  /\ sctl'.decisions = rule'.decisions
                 /\ sctl'.error = "no" => \A i \in Slices(sctl'.decisions) \ collected' :
                                            i < sctl'.next => Written(sctl.decisions, i)'
      BY ZenonT(60), <2>1, <3>1, <3>4, <3>5, <3>7
    <3>8. (\A i \in Slices(sctl.decisions) \ collected :
             i < sctl.next => Written(sctl.decisions, i))'
          <=> \A i \in Slices(sctl'.decisions) \ collected' :
                i < sctl'.next => Written(sctl.decisions, i)'
      BY DEF Slices, Indices, Limit
    <3> QED BY ZenonT(60), <2>1, <2>2, <3>1, <3>6, <3>7, <3>8 DEF SyncInv
  <2>5. CASE sctl' = [sctl EXCEPT !.next = n + 1, !.error = "yes"]
    <3>1. /\ sctl'.pc = "sync" /\ sctl'.uid = sctl.uid /\ sctl'.decisions = sctl.decisions
          /\ sctl'.error = "yes"
      BY Zenon, <1>0, <2>1, <2>5 DEF Parts, SctlType
    <3> QED BY Zenon, <2>1, <3>1 DEF SyncInv
  <2> QED BY Zenon, <1>2, <2>4, <2>5 DEF CreateOrUpdatePlacementDecision
<1>3. CASE DeleteRedundant
  <2>1. /\ UNCHANGED <<rule, boot, collected>> /\ sctl' = StatusIdle /\ sctl.pc = "sync"
        /\ sctl.next \notin Slices(sctl.decisions)
    BY Zenon, <1>3 DEF DeleteRedundant, process, history
  <2>2. CASE "publish" \in queue'
    BY Zenon, <2>1, <2>2 DEF SyncInv, StatusIdle
  <2>3. CASE /\ sctl.error = "no" /\ queue' = queue
             /\ pds' = [i \in Indices |-> IF i \in Slices(sctl.decisions) THEN pds[i] ELSE NoPD]
    <3>1. ASSUME boot = "up", rule.there = "yes", "publish" \notin queue
          PROVE  Published(rule.decisions)'
      <4>1. /\ sctl.decisions = rule.decisions
            /\ \A i \in Slices(sctl.decisions) \ collected :
                  i < sctl.next => Written(sctl.decisions, i)
        BY Zenon, <2>1, <2>3, <3>1 DEF SyncInv
      <4>2. \A i \in Slices(sctl.decisions) : i < sctl.next
        BY Zenon, <1>a, <2>1, SlicesBelow
      <4> QED BY ZenonT(60), <2>1, <2>3, <4>1, <4>2 DEF Published, Written
    <3> QED BY Zenon, <2>1, <2>3, <3>1 DEF SyncInv, StatusIdle
  <2> QED BY Zenon, <1>3, <2>2, <2>3 DEF DeleteRedundant
<1> QED BY Zenon, <1>1, <1>2, <1>3 DEF Publish

\* The PlacementDecisions are exactly the decisions of the rule whenever the
\* controller of the status has nothing to do, for any number of clusters and
\* any bound of a decision (syncPlacementDecisions, placementRuleStatusPredicateFunctions).
THEOREM DecisionsArePublished == Spec => []InSync
<1>1. Init => SyncInv
  BY DEF Init, SyncInv, StatusIdle, NoRule
<1>2. TypeOK /\ SyncInv /\ [Next]_vars => SyncInv'
  <2> SUFFICES ASSUME TypeOK, SyncInv, [Next]_vars PROVE SyncInv'
    OBVIOUS
  <2>1. CASE UNCHANGED vars
    BY Zenon, <2>1 DEF SyncInv, Published, Written, vars
  <2> QED BY Zenon, <2>1, SurroundingsSync, PublishSync DEF Next
<1>3. SyncInv => InSync
  BY DEF SyncInv, InSync
<1> QED BY <1>1, <1>2, <1>3, TypeCorrect, PTL DEF Spec

----------------------------------------------------------------------------
(* A cluster that was chosen is not given up for another one.               *)

\* The clusters that stay are all that are still eligible, or they fill the
\* list by themselves.
LEMMA KeptFills ==
    ASSUME NEW old \in Seq(Clusters), IsInjective(old), NEW clmap, NEW total \in Nat
    PROVE  /\ IsFiniteSet(Kept(old, clmap, total)) /\ Kept(old, clmap, total) \subseteq ToSet(old)
           /\ \/ ToSet(old) \cap DOMAIN clmap \subseteq Kept(old, clmap, total)
              \/ Cardinality(Kept(old, clmap, total)) >= total
<1> DEFINE still == {i \in DOMAIN old : old[i] \in DOMAIN clmap}
           first(k) == {j \in still : j < k}
           over == {k \in still : ~(Cardinality(first(k)) < total)}
           kept == Kept(old, clmap, total)
<1>1. DOMAIN old = 1..Len(old) /\ Len(old) \in Nat
  OBVIOUS
<1>2. IsFiniteSet(still)
  <2>1. IsFiniteSet(1..Len(old))
    BY <1>1, FS_Interval
  <2>2. still \in SUBSET (1..Len(old))
    BY Zenon, <1>1
  <2> QED BY Zenon, <2>1, <2>2, FS_Subset
<1>3. \A k \in still : IsFiniteSet(first(k)) /\ Cardinality(first(k)) \in Nat
  BY Zenon, <1>2, FS_Subset, FS_CardinalityType
<1>4. kept = {old[i] : i \in still \ over}
  BY Zenon DEF Kept
<1>5. kept \subseteq ToSet(old) /\ ToSet(old) \subseteq Clusters
  <2>1. still \ over \subseteq DOMAIN old
    BY Zenon
  <2> HIDE DEF still, over
  <2>2. kept \subseteq ToSet(old)
    BY Zenon, <1>4, <2>1 DEF ToSet
  <2>3. ToSet(old) \subseteq Clusters
    BY <1>1 DEF ToSet
  <2> QED BY Zenon, <2>2, <2>3
<1>6. IsFiniteSet(kept)
  BY Zenon, <1>5, FS_Subset, PlacementAssumption
<1>7. CASE over = {}
  <2>1. ToSet(old) \cap DOMAIN clmap \subseteq kept
    BY Zenon, <1>1, <1>4, <1>7 DEF ToSet
  <2> QED BY Zenon, <1>5, <1>6, <2>1
<1>8. CASE over # {}
  <2>1. over \subseteq Nat
    BY <1>1
  <2> DEFINE R == {ss \in Nat \X Nat : ss[1] < ss[2]}
  <2>2. IsWellFoundedOn(R, Nat)
    BY NatLessThanWellFounded DEF OpToRel
  <2> HIDE DEF R
  <2>3. PICK m \in over : \A k \in over : ~(<<k, m>> \in R)
    <3> HIDE DEF over
    <3> QED BY ZenonT(60), <1>8, <2>1, <2>2, WFMin
  <2>4. first(m) \cap over = {}
    <3>1. ASSUME NEW k \in over, k < m PROVE FALSE
      <4>1. <<k, m>> \in R
        BY Zenon, <2>1, <3>1 DEF R
      <4> QED BY Zenon, <2>3, <4>1
    <3> QED BY Zenon, <3>1
  <2>5. m \in still /\ ~(Cardinality(first(m)) < total) /\ IsFiniteSet(first(m))
        /\ Cardinality(first(m)) \in Nat
    BY Zenon, <1>3
  <2>6. first(m) \subseteq DOMAIN old /\ \A j \in first(m) : old[j] \in kept
    BY Zenon, <1>4, <2>4
  <2> HIDE DEF first, kept, over, still
  <2> DEFINE f == [j \in first(m) |-> old[j]]
  <2>7. f \in Injection(first(m), kept)
    BY Zenon, <2>6 DEF Injection, IsInjective
  <2>8. Cardinality(first(m)) <= Cardinality(kept)
    BY Zenon, <1>6, <2>7, FS_Injection
  <2>9. Cardinality(kept) \in Nat
    BY Zenon, <1>6, FS_CardinalityType
  <2>10. Cardinality(kept) >= total
    BY <2>5, <2>8, <2>9
  <2> QED BY Zenon, <1>5, <1>6, <2>10 DEF kept
<1> QED BY Zenon, <1>7, <1>8

\* What pickClustersByReplicas promises of the list that it picks.
LEMMA PickedIsRight ==
    ASSUME NEW spec \in SpecType, NEW old \in Seq(Clusters), IsInjective(old), NEW clmap,
           DOMAIN clmap \in SUBSET Clusters, NEW new \in PickClustersByReplicas(spec, old, clmap)
    PROVE  /\ IsInjective(new)
           /\ Cardinality(ToSet(new)) = Len(new)
           /\ spec.replicas # -1 => Cardinality(ToSet(new)) <= spec.replicas
           /\ spec.hint = "none" => \/ ToSet(old) \cap DOMAIN clmap \subseteq ToSet(new)
                                    \/ ToSet(new) \subseteq ToSet(old)
<1>1. new \in SetToAllKPermutations(DOMAIN clmap) /\ Len(new) = Total(spec, clmap)
  BY PickedList
<1>2. /\ IsInjective(new) /\ Cardinality(ToSet(new)) = Len(new) /\ Len(new) \in Nat
      /\ IsFiniteSet(ToSet(new))
  BY Zenon, <1>1, PermutationFacts
<1>3. Cardinality(DOMAIN clmap) \in Nat
  BY Zenon, FS_Subset, FS_CardinalityType, PlacementAssumption
<1>4. spec.replicas # -1 => Len(new) <= spec.replicas
  BY <1>1, <1>3 DEF Total, SpecType
<1>5. ASSUME spec.hint = "none"
      PROVE  \/ ToSet(old) \cap DOMAIN clmap \subseteq ToSet(new)
             \/ ToSet(new) \subseteq ToSet(old)
  <2> DEFINE total == Len(new)
             kept == Kept(old, clmap, total)
  <2>1. kept \subseteq ToSet(new)
    BY Zenon, <1>1, <1>5 DEF PickClustersByReplicas, PickUnsorted
  <2>2. /\ IsFiniteSet(kept) /\ kept \subseteq ToSet(old)
        /\ ToSet(old) \cap DOMAIN clmap \subseteq kept \/ Cardinality(kept) >= total
    BY Zenon, <1>2, KeptFills
  <2> HIDE DEF kept
  <2>3. CASE Cardinality(kept) >= total
    <3>1. Cardinality(kept) \in Nat
      BY Zenon, <2>2, FS_CardinalityType
    <3>2. Cardinality(kept) <= Cardinality(ToSet(new))
      BY Zenon, <1>2, <2>1, FS_Subset
    <3>3. Cardinality(ToSet(new)) = Cardinality(kept)
      BY <1>2, <2>3, <3>1, <3>2
    <3>4. ToSet(new) = kept
      BY ZenonT(60), <1>2, <2>1, <3>3, FS_Subset
    <3> QED BY Zenon, <2>2, <3>4
  <2> QED BY Zenon, <2>1, <2>2, <2>3
<1> QED BY Zenon, <1>2, <1>4, <1>5

\* No cluster is in the status twice, and a copy of the rule that is not
\* stale is the rule.
ChosenInv ==
    /\ IsInjective(rule.decisions)
    /\ ctl.pc # "idle" /\ ctl.fresh = "yes" => ctl.rule = rule

Chooses ==
    rule'.there = "yes" /\ rule'.uid = rule.uid /\ rule'.decisions # rule.decisions =>
        LET old == ToSet(rule.decisions)
            new == ToSet(rule'.decisions)
        IN  /\ Cardinality(new) = Len(rule'.decisions)
            /\ rule.spec.replicas # -1 => Cardinality(new) <= rule.spec.replicas
            /\ rule.spec.hint = "none" =>
                 \/ old \cap DOMAIN ctl.clmap \subseteq new
                 \/ new \subseteq old

\* Every step keeps ChosenInv, and chooses as it should.
LEMMA ChosenStep ==
    ASSUME TypeOK, ChosenInv, [Next]_vars
    PROVE  ChosenInv' /\ Chooses
<1>0. Parts
  BY Zenon, TypeParts
<1>a. ASSUME UNCHANGED rule,
             \/ ctl' = ctl
             \/ ctl' = Idle
             \/ ctl.pc # "idle" /\ ctl'.fresh = ctl.fresh /\ ctl'.rule = ctl.rule
      PROVE  ChosenInv' /\ Chooses
  <2>1. ctl'.pc # "idle" /\ ctl'.fresh = "yes" => ctl'.rule = rule
    BY <1>a DEF ChosenInv, Idle
  <2> QED BY Zenon, <1>a, <2>1 DEF ChosenInv, Chooses
<1>b. ASSUME NEW new, NEW who, WriteRule(new, who), IsInjective(new.decisions),
             new.there = "yes" /\ new.uid = rule.uid => new.decisions = rule.decisions
      PROVE  ChosenInv' /\ Chooses
  <2>1. rule' = new /\ ctl'.fresh = "no"
    BY Zenon, <1>0, <1>b DEF WriteRule, Parts, CtlOK
  <2> QED BY Zenon, <1>b, <2>1 DEF ChosenInv, Chooses
<1>1. CASE EditRule
  <2>1. PICK x \in Specs : WriteRule([rule EXCEPT !.spec = x], {"decide"})
    BY Zenon, <1>1 DEF EditRule
  <2>2. [rule EXCEPT !.spec = x].decisions = rule.decisions
    BY <1>0 DEF Parts, Rule
  <2> QED BY Zenon, <1>b, <2>1, <2>2 DEF ChosenInv
<1>2. CASE DeleteRule
  <2>1. /\ [NoRule EXCEPT !.uid = rule.uid].there = "no"
        /\ [NoRule EXCEPT !.uid = rule.uid].decisions = <<>>
    BY DEF NoRule
  <2>2. IsInjective(<<>>)
    BY DEF IsInjective
  <2> QED BY Zenon, <1>2, <1>b, <2>1, <2>2 DEF DeleteRule
<1>3. CASE CreateRule
  <2>1. PICK x \in Specs :
          WriteRule([there |-> "yes", uid |-> rule.uid + 1, spec |-> x, decisions |-> <<>>],
                    {"decide", "publish"})
    BY Zenon, <1>3 DEF CreateRule
  <2>2. rule.uid + 1 # rule.uid
    BY <1>0 DEF Parts, Rule
  <2>3. IsInjective(<<>>)
    BY DEF IsInjective
  <2> QED BY SMTT(60), <1>b, <2>1, <2>2, <2>3
<1>4. CASE (\E c \in Clusters : ChangeCluster(c)) \/ Grant \/ InstallRegistry \/ Collect
           \/ Add \/ DetectClusterRegistry \/ Publish \/ UNCHANGED vars
  <2>1. UNCHANGED <<rule, ctl>>
    BY Zenon, <1>4 DEF ChangeCluster, Grant, InstallRegistry, Collect, Add, DetectClusterRegistry, Publish,
                ReconcileStatus, CreateOrUpdatePlacementDecision, DeleteRedundant, vars
  <2> QED BY Zenon, <1>a, <2>1
<1>5. CASE Exit \/ Crash
  <2>1. UNCHANGED rule /\ ctl' = Idle
    BY Zenon, <1>5 DEF Exit, Crash, Stop
  <2> QED BY Zenon, <1>a, <2>1
<1>6. CASE Reconcile
  <2>1. UNCHANGED rule /\ (ctl' = Idle \/ ctl'.rule = rule)
    BY Zenon, <1>6 DEF Reconcile, Idle
  <2> QED BY <2>1 DEF ChosenInv, Chooses, Idle
<1>7. CASE PlaceByGenericPlacementFields \/ FilterClustersByUser
  <2>1. /\ UNCHANGED rule /\ ctl.pc # "idle"
        /\ ctl' = Idle \/ (ctl'.fresh = ctl.fresh /\ ctl'.rule = ctl.rule)
    BY Zenon, <1>0, <1>7 DEF PlaceByGenericPlacementFields, FilterClustersByUser, Again, Parts, CtlOK
  <2> QED BY Zenon, <1>a, <2>1
<1>8. CASE UpdateStatus
  <2>1. PICK new \in PickClustersByReplicas(ctl.rule.spec, ctl.rule.decisions, ctl.clmap) :
          \/ UNCHANGED rule /\ ctl' = Idle
          \/ /\ ctl.fresh = "yes" /\ rule' = [rule EXCEPT !.decisions = new]
             /\ ctl' = Idle
    BY Zenon, <1>8 DEF UpdateStatus, Again
  <2>2. CASE UNCHANGED rule /\ ctl' = Idle
    BY Zenon, <1>a, <2>2
  <2>3. CASE ctl.fresh = "yes" /\ rule' = [rule EXCEPT !.decisions = new] /\ ctl' = Idle
    <3>1. ctl.rule = rule
      BY Zenon, <1>8, <2>3 DEF ChosenInv, UpdateStatus
    <3>2. /\ rule.spec \in SpecType /\ rule.decisions \in Seq(Clusters)
          /\ DOMAIN ctl.clmap \in SUBSET Clusters /\ rule'.decisions = new
          /\ IsInjective(rule.decisions)
      BY Zenon, <1>0, <2>3 DEF Parts, Rule, CtlOK, ChosenInv
    <3>3. new \in PickClustersByReplicas(rule.spec, rule.decisions, ctl.clmap)
      BY <3>1
    <3>4. /\ IsInjective(new)
          /\ Cardinality(ToSet(new)) = Len(new)
          /\ rule.spec.replicas # -1 => Cardinality(ToSet(new)) <= rule.spec.replicas
          /\ rule.spec.hint = "none" =>
               \/ ToSet(rule.decisions) \cap DOMAIN ctl.clmap \subseteq ToSet(new)
               \/ ToSet(new) \subseteq ToSet(rule.decisions)
      BY Zenon, <3>2, <3>3, PickedIsRight
    <3> QED BY Zenon, <2>3, <3>2, <3>4 DEF ChosenInv, Chooses, Idle
  <2> QED BY Zenon, <2>1, <2>2, <2>3
<1> QED BY ZenonT(60), <1>1, <1>2, <1>3, <1>4, <1>5, <1>6, <1>7, <1>8
        DEF Next, Surroundings, Process, Decide

\* A write of the status never has more clusters than the rule asks for at
\* that moment, none twice, and gives up no chosen cluster for another one,
\* for any number of clusters and any replicas (pickClustersByReplicas).
THEOREM ChosenAreKept == Spec => KeepsChosen
<1>1. Init => ChosenInv
  BY DEF Init, ChosenInv, Idle, NoRule, IsInjective
<1>2. TypeOK /\ ChosenInv /\ [Next]_vars => ChosenInv' /\ Chooses
  BY ChosenStep
<1>3. TypeOK /\ ChosenInv /\ [Next]_vars => [Chooses]_vars
  BY <1>2
<1>4. Spec => [][Chooses]_vars
  BY <1>1, <1>2, <1>3, TypeCorrect, PTL DEF Spec
<1> QED BY Zenon, <1>4 DEF KeepsChosen, Chooses
=============================================================================
