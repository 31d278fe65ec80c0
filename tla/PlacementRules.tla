---------------------------- MODULE PlacementRules ----------------------------
(* A PlacementRule on the hub: one controller chooses clusters and writes    *)
(* them to the status of the rule, a second one publishes the status as      *)
(* PlacementDecisions of a bounded size.  The managed clusters, the roles of *)
(* the users and the registry of the clusters change meanwhile, the process  *)
(* restarts, and calls fail.                                                 *)
(*   src/pkg/placementrule/controller/placementrule/                         *)
(*   src/pkg/placementrule/utils/{placement,cluster,auth}.go                 *)
(*   src/cmd/placementrule/exec/manager.go                                   *)
EXTENDS Integers, FiniteSets, Sequences, SequencesExt

CONSTANTS
    Clusters,          \* the names of the clusters, numbers: names are sorted
    ClusterStates,     \* the states a managed cluster may be in
    Specs,             \* the specs the rule is given
    MaxDecisions,      \* maxNumOfClusterDecisions, 100 in the code
    MaxRules,          \* how often the rule is created
    Changes,           \* the kinds of changes that are made
    MaxChanges, MaxFaults

\* A managed cluster, its resource that a hint may ask for included, and what
\* a rule asks for; -1 replicas are all clusters.
ClusterType == [life : {"none", "ready", "leaving"}, labels : {"no", "yes"},
                condition : {"none", "true", "false"}, metric : Int]
SpecType == [scheduler : {"mcm", "other"}, names : SUBSET Clusters, conditions : {"no", "yes"},
             user : {"none", "limited"}, replicas : Nat \cup {-1}, hint : {"none", "asc", "desc"}]

\* Lists are cut into slices of at least one decision, of finitely many clusters.
ASSUME PlacementAssumption ==
    /\ IsFiniteSet(Clusters) /\ Clusters \subseteq Nat
    /\ ClusterStates \subseteq ClusterType /\ Specs \subseteq SpecType
    /\ MaxDecisions \in Nat \ {0} /\ MaxRules \in Nat
    /\ MaxChanges \in Nat /\ MaxFaults \in Nat

VARIABLES
    rule,        \* the PlacementRule and its status.decisions
    clusters,    \* the ManagedClusters
    granted,     \* the clusters that the roles of the limited user name
    registry,    \* whether the ManagedCluster API is there
    boot,        \* how far the process has started
    watch,       \* whether the ManagedClusters are watched
    detect,      \* whether the registry is polled
    queue,       \* the controllers that have the rule in their work queue
    ctl,         \* the reconcile of the rule
    sctl,        \* the reconcile of its status
    pds,         \* the PlacementDecisions, by the number in their name
    unseen,      \* a change that no reconcile was told of
    collected,   \* decisions collected with the rule before this one
    changes, faults

vars == <<rule, clusters, granted, registry, boot, watch, detect, queue, ctl, sctl, pds,
          unseen, collected, changes, faults>>
world == <<clusters, granted, registry>>
process == <<boot, watch, detect>>
history == <<unseen, collected>>

NoSpec == [scheduler |-> "mcm", names |-> {}, conditions |-> "no", user |-> "none",
           replicas |-> -1, hint |-> "none"]
NoRule == [there |-> "no", uid |-> 0, spec |-> NoSpec, decisions |-> <<>>]
NoCluster == [life |-> "none", labels |-> "no", condition |-> "none", metric |-> 0]
NoPD == [owner |-> 0, list |-> <<>>]
Idle == [pc |-> "idle", fresh |-> "yes", rule |-> NoRule, clmap |-> <<>>]
StatusIdle == [pc |-> "idle", uid |-> 0, decisions |-> <<>>, next |-> 1, error |-> "no"]

Limit == Cardinality(Clusters)
Indices == 1..Limit

Change(kind) == kind \in Changes /\ changes < MaxChanges /\ changes' = changes + 1
Fail == faults < MaxFaults /\ faults' = faults + 1
Ok == UNCHANGED faults

----------------------------------------------------------------------------
(* What the watches report.                                                  *)

\* The rule is watched by the first controller whatever changes of it.
Enqueue(controllers) == IF boot = "up" THEN queue \cup controllers ELSE queue

\* Mutant: only a longer or a shorter list is a change.
LengthDiffers(old, new) == Len(old) # Len(new)

\* placementRuleStatusPredicateFunctions
DecisionsDiffer(old, new) == old # new

\* Mutant: the conditions of a cluster are not looked at.
LabelsDiffer(old, new) == old.life # new.life \/ old.labels # new.labels

\* ClusterPredicateFunc: deletion, labels and conditions, but no resources;
\* creations and deletions always pass.
ClusterDiffers(old, new) ==
    old.life # new.life \/ old.labels # new.labels \/ old.condition # new.condition

----------------------------------------------------------------------------
(* The surroundings.                                                         *)

\* A write of the rule makes the copy that a reconcile has read stale.
WriteRule(new, controllers) ==
    /\ rule' = new
    /\ queue' = Enqueue(controllers)
    /\ ctl' = [ctl EXCEPT !.fresh = "no"]

EditRule ==
    /\ rule.there = "yes" /\ Change("spec")
    /\ \E s \in Specs \ {rule.spec} : WriteRule([rule EXCEPT !.spec = s], {"decide"})
    /\ UNCHANGED <<world, process, sctl, pds, history, faults>>

DeleteRule ==
    /\ rule.there = "yes" /\ Change("delete")
    /\ WriteRule([NoRule EXCEPT !.uid = rule.uid], {"decide", "publish"})
    /\ UNCHANGED <<world, process, sctl, pds, history, faults>>

\* Created again, with a uid of its own.
CreateRule ==
    /\ rule.there = "no" /\ rule.uid < MaxRules
    /\ \E s \in Specs :
         WriteRule([there |-> "yes", uid |-> rule.uid + 1, spec |-> s, decisions |-> <<>>],
                   {"decide", "publish"})
    /\ collected' = {}
    /\ UNCHANGED <<world, process, sctl, pds, unseen, changes, faults>>

\* A managed cluster comes, changes, or goes; the mapper enqueues every rule.
ChangeCluster(c) ==
    /\ registry = "yes" /\ Change("cluster")
    /\ \E new \in ClusterStates \ {clusters[c]} :
         /\ clusters' = [clusters EXCEPT ![c] = new]
         /\ queue' = IF ClusterDiffers(clusters[c], new) /\ watch = "yes" /\ rule.there = "yes"
                     THEN Enqueue({"decide"}) ELSE queue
         /\ unseen' = IF watch = "no" \/ new = [clusters[c] EXCEPT !.metric = new.metric]
                      THEN "yes" ELSE unseen
    /\ UNCHANGED <<rule, granted, registry, process, ctl, sctl, pds, collected, faults>>

\* Roles and bindings are not watched.
Grant ==
    /\ Change("roles")
    /\ \E cs \in SUBSET Clusters \ {granted} : granted' = cs
    /\ unseen' = "yes"
    /\ UNCHANGED <<rule, clusters, registry, process, queue, ctl, sctl, pds, collected, faults>>

InstallRegistry ==
    /\ registry = "no" /\ registry' = "yes"
    /\ UNCHANGED <<rule, clusters, granted, process, queue, ctl, sctl, pds, history, changes, faults>>

\* The garbage collector removes what a deleted rule owned.
Collect ==
    /\ \E i \in Indices :
         /\ pds[i].owner # 0 /\ (pds[i].owner # rule.uid \/ rule.there = "no")
         /\ pds' = [pds EXCEPT ![i] = NoPD]
         /\ collected' = IF rule.there = "no" THEN collected ELSE collected \cup {i}
    /\ UNCHANGED <<rule, world, process, queue, ctl, sctl, unseen, changes, faults>>

----------------------------------------------------------------------------
(* The process.                                                              *)

\* Adding the controllers watches the clusters if their API is there.
Add ==
    /\ boot = "add"
    /\ watch' = registry /\ boot' = "detect"
    /\ UNCHANGED <<rule, world, detect, queue, ctl, sctl, pds, history, changes, faults>>

\* Then the API is polled unless it is there by now, and the manager starts:
\* the first lists report the rule to both controllers.
DetectClusterRegistry ==
    /\ boot = "detect" /\ boot' = "up"
    /\ detect' = IF registry = "yes" THEN "no" ELSE "yes"
    /\ queue' = IF rule.there = "no" THEN {} ELSE {"decide", "publish"}
    /\ UNCHANGED <<rule, world, watch, ctl, sctl, pds, history, changes, faults>>

Stop ==
    /\ boot' = "add" /\ watch' = "no" /\ detect' = "no"
    /\ queue' = {} /\ ctl' = Idle /\ sctl' = StatusIdle
    /\ UNCHANGED <<rule, world, pds, history, changes>>

\* The poll ends the process once the API is there.
Exit == boot = "up" /\ detect = "yes" /\ registry = "yes" /\ Stop /\ Ok
Crash == boot = "up" /\ Fail /\ Stop

----------------------------------------------------------------------------
(* Choosing clusters.                                                        *)

\* PlaceByGenericPlacmentFields: names before labels.
Named(spec) == {c \in Clusters :
    IF spec.names # {} THEN c \in spec.names ELSE clusters[c].labels = "yes"}

\* filteClustersByStatus: none that is leaving, none that has the condition
\* otherwise than asked for; one without the condition passes.
Eligible(spec) == {c \in Named(spec) :
    /\ clusters[c].life = "ready"
    /\ spec.conditions = "yes" => clusters[c].condition # "false"}

Total(spec, clmap) ==
    LET n == Cardinality(DOMAIN clmap)
    IN  IF spec.replicas = -1 \/ n <= spec.replicas THEN n ELSE spec.replicas

\* Mutant: the clusters that were chosen before are nothing special.
KeptNone(old, clmap, total) == {}

\* The clusters that stay: the first of those chosen before and still eligible.
Kept(old, clmap, total) ==
    LET still == {i \in DOMAIN old : old[i] \in DOMAIN clmap}
    IN  {old[i] : i \in {k \in still : Cardinality({j \in still : j < k}) < total}}

\* Without a hint the clusters that stay and any others, sorted by name.
PickUnsorted(old, clmap, total) ==
    {s \in SetToAllKPermutations(DOMAIN clmap) :
        /\ Len(s) = total /\ Kept(old, clmap, total) \subseteq ToSet(s)
        /\ \A i, j \in 1..total : i < j => s[i] < s[j]}

\* With a hint by the resource; equals come in the order of a Go map.
Before(hint, a, b) == IF hint = "asc" THEN a <= b ELSE a >= b
PickSorted(hint, clmap, total) ==
    {s \in SetToAllKPermutations(DOMAIN clmap) :
        /\ Len(s) = total
        /\ \A i, j \in 1..total : i < j => Before(hint, clmap[s[i]], clmap[s[j]])
        /\ \A i \in 1..total, c \in DOMAIN clmap \ ToSet(s) : Before(hint, clmap[s[i]], clmap[c])}

PickClustersByReplicas(spec, old, clmap) ==
    LET total == Total(spec, clmap)
    IN  IF spec.hint = "none" THEN PickUnsorted(old, clmap, total)
        ELSE PickSorted(spec.hint, clmap, total)

----------------------------------------------------------------------------
(* The controller of the rule.                                               *)

\* No clusters are looked at when none is wanted, and nothing is done for
\* another scheduler.
Reconcile ==
    /\ boot = "up" /\ ctl.pc = "idle" /\ "decide" \in queue
    /\ queue' = queue \ {"decide"}
    /\ ctl' = IF rule.there = "no" \/ rule.spec.scheduler # "mcm" THEN Idle
              ELSE [Idle EXCEPT !.pc = IF rule.spec.replicas = 0 THEN "update" ELSE "place",
                                !.rule = rule]
    /\ unseen' = "no"
    /\ UNCHANGED <<rule, world, process, sctl, pds, collected, changes, faults>>

\* filteClustersByUser: the rule names a user who is no cluster administrator.
Limited(spec) == spec.user = "limited"

Again == ctl' = Idle /\ queue' = queue \cup {"decide"}

\* The clusters are listed, with the resource that the hint asks for.
PlaceByGenericPlacementFields ==
    /\ ctl.pc = "place"
    /\ \/ (Fail \/ (Ok /\ registry = "no")) /\ Again
       \/ /\ Ok /\ registry = "yes"
          /\ ctl' = [ctl EXCEPT !.pc = IF Limited(ctl.rule.spec) THEN "user" ELSE "update",
                       !.clmap = [c \in Eligible(ctl.rule.spec) |-> clusters[c].metric]]
          /\ UNCHANGED queue
    /\ UNCHANGED <<rule, world, process, sctl, pds, history, changes>>

\* The clusters that the roles of the user name.  A role that cannot be read
\* names none; when the bindings cannot be listed nothing is filtered.
FilterClustersByUser ==
    /\ ctl.pc = "user"
    /\ \E cs \in SUBSET Clusters :
         /\ \/ Ok /\ cs = granted /\ UNCHANGED unseen
            \/ Fail /\ (cs \subseteq granted \/ cs = Clusters) /\ unseen' = "yes"
         /\ ctl' = [ctl EXCEPT !.pc = "update",
                      !.clmap = [c \in DOMAIN ctl.clmap \cap cs |-> ctl.clmap[c]]]
    /\ UNCHANGED <<rule, world, process, queue, sctl, pds, collected, changes>>

\* The status is written when the list has changed; a retry on a conflict
\* writes the same copy again.
UpdateStatus ==
    /\ ctl.pc = "update"
    /\ \E new \in PickClustersByReplicas(ctl.rule.spec, ctl.rule.decisions, ctl.clmap) :
         \/ /\ new = ctl.rule.decisions /\ Ok
            /\ ctl' = Idle /\ UNCHANGED <<rule, queue>>
         \/ /\ new # ctl.rule.decisions
            /\ Fail \/ (Ok /\ ctl.fresh = "no")
            /\ Again /\ UNCHANGED rule
         \/ /\ new # ctl.rule.decisions /\ Ok /\ ctl.fresh = "yes"
            /\ rule' = [rule EXCEPT !.decisions = new]
            /\ queue' = queue \cup {"decide"} \cup
                   (IF DecisionsDiffer(rule.decisions, new) THEN {"publish"} ELSE {})
            /\ ctl' = Idle
    /\ UNCHANGED <<world, process, sctl, pds, history, changes>>

----------------------------------------------------------------------------
(* The controller of the status.                                             *)

\* The decisions of the i-th object, and the objects that a list needs.
Slice(list, i) ==
    SubSeq(list, (i - 1) * MaxDecisions + 1,
           IF i * MaxDecisions < Len(list) THEN i * MaxDecisions ELSE Len(list))
Slices(list) == {i \in Indices : (i - 1) * MaxDecisions < Len(list)}

ReconcileStatus ==
    /\ boot = "up" /\ sctl.pc = "idle" /\ "publish" \in queue
    /\ queue' = queue \ {"publish"}
    /\ sctl' = IF rule.there = "no" THEN StatusIdle
               ELSE [StatusIdle EXCEPT !.pc = "sync", !.uid = rule.uid, !.decisions = rule.decisions]
    /\ UNCHANGED <<rule, world, process, ctl, pds, history, changes, faults>>

\* createOrUpdatePlacementDecision, slice after slice: an error is noted, and
\* the next slice is tried.  A decision is created empty, then filled.
CreateOrUpdatePlacementDecision ==
    LET i == sctl.next
        owned == [pds[i] EXCEPT !.owner = IF @ = 0 THEN sctl.uid ELSE @]
    IN
    /\ sctl.pc = "sync" /\ i \in Slices(sctl.decisions)
    /\ \/ /\ Ok
          /\ pds' = [pds EXCEPT ![i] = [owned EXCEPT !.list = Slice(sctl.decisions, i)]]
          /\ collected' = collected \ {i}
          /\ sctl' = [sctl EXCEPT !.next = i + 1]
       \/ /\ Fail
          /\ \/ UNCHANGED <<pds, collected>>
             \/ pds' = [pds EXCEPT ![i] = owned] /\ collected' = collected \ {i}
          /\ sctl' = [sctl EXCEPT !.next = i + 1, !.error = "yes"]
    /\ UNCHANGED <<rule, world, process, queue, ctl, unseen, changes>>

\* Only when all slices are written the decisions beyond them are deleted.
DeleteRedundant ==
    LET n == Slices(sctl.decisions)
        again == queue' = queue \cup {"publish"}
    IN
    /\ sctl.pc = "sync" /\ sctl.next \notin n
    /\ sctl' = StatusIdle
    /\ \/ sctl.error = "yes" /\ Ok /\ again /\ UNCHANGED pds
       \/ /\ sctl.error = "no"
          /\ \/ /\ Ok /\ UNCHANGED queue
                /\ pds' = [i \in Indices |-> IF i \in n THEN pds[i] ELSE NoPD]
             \/ /\ Fail /\ again
                /\ \E left \in SUBSET (Indices \ n) :
                     pds' = [i \in Indices |-> IF i \in n \cup left THEN pds[i] ELSE NoPD]
    /\ UNCHANGED <<rule, world, process, ctl, history, changes>>

----------------------------------------------------------------------------
Init ==
    /\ rule = NoRule
    /\ registry \in {"no", "yes"}
    /\ clusters \in [Clusters -> ClusterStates]
    /\ registry = "no" => \A c \in Clusters : clusters[c] = NoCluster
    /\ granted = Clusters
    /\ boot = "add" /\ watch = "no" /\ detect = "no"
    /\ queue = {} /\ ctl = Idle /\ sctl = StatusIdle
    /\ pds = [i \in Indices |-> NoPD]
    /\ unseen = "no" /\ collected = {}
    /\ changes = 0 /\ faults = 0

Surroundings ==
    EditRule \/ DeleteRule \/ CreateRule \/ (\E c \in Clusters : ChangeCluster(c)) \/ Grant
    \/ InstallRegistry \/ Crash
Process == Add \/ DetectClusterRegistry \/ Exit
Decide == Reconcile \/ PlaceByGenericPlacementFields \/ FilterClustersByUser \/ UpdateStatus
Publish == ReconcileStatus \/ CreateOrUpdatePlacementDecision \/ DeleteRedundant

Next == Surroundings \/ Process \/ Decide \/ Publish \/ Collect

Spec == Init /\ [][Next]_vars

\* The process is started again, its poll and its two workers run, and the
\* garbage collector comes by in the end.
FairSpec == Spec /\ WF_vars(Process) /\ WF_vars(Decide) /\ WF_vars(Publish) /\ WF_vars(Collect)

----------------------------------------------------------------------------
(* Properties.                                                               *)

Rule == [there : {"no", "yes"}, uid : 0..MaxRules, spec : SpecType, decisions : Seq(Clusters)]
PD == [owner : 0..MaxRules, list : Seq(Clusters)]

\* The state is well formed; in particular no PlacementDecision is longer
\* than the bound (createOrUpdatePlacementDecision refuses one that is).
TypeOK ==
    /\ rule \in Rule
    /\ clusters \in [Clusters -> ClusterType]
    /\ granted \in SUBSET Clusters
    /\ {registry, watch, detect, unseen} \subseteq {"no", "yes"}
    /\ boot \in {"add", "detect", "up"}
    /\ queue \in SUBSET {"decide", "publish"}
    /\ ctl \in [pc : {"idle", "place", "user", "update"}, fresh : {"no", "yes"}, rule : Rule,
                clmap : {ctl.clmap}]
    /\ DOMAIN ctl.clmap \subseteq Clusters
    /\ sctl \in [pc : {"idle", "sync"}, uid : 0..MaxRules, decisions : Seq(Clusters),
                 next : 1..Limit + 1, error : {"no", "yes"}]
    /\ pds \in [Indices -> PD]
    /\ \A i \in Indices : Len(pds[i].list) <= MaxDecisions
    /\ collected \in SUBSET Indices
    /\ changes \in 0..MaxChanges /\ faults \in 0..MaxFaults

\* What the PlacementDecisions of the rule say: list, cut into slices, in
\* objects numbered from 1, and nothing beyond them.
Published(list) == \A i \in Indices \ collected :
    IF i \in Slices(list) THEN pds[i].owner # 0 /\ pds[i].list = Slice(list, i)
    ELSE pds[i] = NoPD

\* Whenever the status controller has nothing to do, the PlacementDecisions
\* are exactly the decisions of the rule: no change of the status goes by
\* unpublished and no failed call is forgotten, whatever slices were written
\* before it.  The exception is a decision taken over from the rule of the
\* same name before this one and then collected with it, which is not created
\* again (syncPlacementDecisions).
InSync ==
    boot = "up" /\ rule.there = "yes" /\ sctl.pc = "idle" /\ "publish" \notin queue
    => Published(rule.decisions)

\* A write of the status fits the rule as it is at that moment, though it was
\* computed from an older copy: not more clusters than it asks for, and no
\* cluster twice; without a hint, none that was chosen and is still eligible
\* gives way to one that was not (pickClustersByReplicas, UpdateStatus).
KeepsChosen ==
    [][rule'.there = "yes" /\ rule'.uid = rule.uid /\ rule'.decisions # rule.decisions =>
        LET old == ToSet(rule.decisions)
            new == ToSet(rule'.decisions)
        IN  /\ Cardinality(new) = Len(rule'.decisions)
            /\ rule.spec.replicas # -1 => Cardinality(new) <= rule.spec.replicas
            /\ rule.spec.hint = "none" =>
                 \/ old \cap DOMAIN ctl.clmap \subseteq new
                 \/ new \subseteq old]_vars

\* The clusters that the hint cannot tell apart.
Ties == rule.spec.hint # "none" /\ \E c, d \in Clusters :
          c # d /\ clusters[c].metric = clusters[d].metric
Admitted(spec) == Eligible(spec) \cap (IF Limited(spec) THEN granted ELSE Clusters)

\* Nothing is left to be told to the controller of the rule.
Told ==
    /\ rule.there = "yes" /\ rule.spec.scheduler = "mcm" /\ registry = "yes"
    /\ unseen = "no" /\ ~Ties

\* Once the clusters, the roles and the rule have come to rest, the rule
\* settles on clusters that it admits, as many as it asks for, and they are
\* published, through failed calls, conflicts, restarts, and a registry that
\* comes late.  Not when the last change was one that is not watched, nor
\* when the hint leaves a tie: then each round may choose another order, and
\* the write of it starts the next round (Reconcile, sortClustersByResourceHint).
Settles ==
    <>[]Told => <>[](/\ Published(rule.decisions)
                     /\ rule.decisions \in PickClustersByReplicas(rule.spec, rule.decisions,
                          [c \in (IF rule.spec.replicas = 0 THEN {} ELSE Admitted(rule.spec))
                              |-> clusters[c].metric]))
=============================================================================
