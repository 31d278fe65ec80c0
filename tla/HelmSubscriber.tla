--------------------------- MODULE HelmSubscriber ---------------------------
(***************************************************************************)
(* The Helm repository subscriber of a managed cluster                      *)
(* (pkg/subscriber/helmrepo) and the HelmRelease controller: the item of    *)
(* one Subscription reads the index of the repository, selects a version    *)
(* of each package and has the synchronizer write the HelmReleases, which   *)
(* the controller of HelmRelease deploys; what was written before and is no *)
(* longer offered is deleted by the record in the SubscriptionStatus, which *)
(* both write.  ReleaseLifecycle says what the two promise together.        *)
(***************************************************************************)
EXTENDS HelmRelease

CONSTANTS
    PreReleases, \* the versions that semver's ">=0.0.0" does not match
    Retries      \* the retries of a failed attempt

ASSUME SubscriberAssumption ==
    /\ PreReleases \subseteq Versions /\ Retries \in Nat
    /\ \A w \in Worlds :
         /\ w.indexes \subseteq [Pkgs -> SUBSET Versions]  \* what the repository may offer
         \* spec.package and spec.packageFilter.version
         /\ w.filters \subseteq [name : Pkgs \cup {"any"}, versions : SUBSET Versions]
         \* what the user may do
         /\ w.edits \subseteq {"index", "filter", "rate", "sync", "pause", "delete"}
         /\ w.maxEdits \in Nat

VARIABLES
    index,   \* the index of the repository
    sub,     \* the Subscription: filter, rate and pause label
    item,    \* the subscriber item
    edits

vars == <<world, crs, rel, objs, orphans, ctl, queue, broken, record, parent, lost,
          faults, index, sub, item, edits>>

NoList == [p \in Pkgs |-> 0]
NoTemplate == [p \in Pkgs |-> "none"]
Resting == [pc |-> "idle", left |-> 0, list |-> NoList, tpl |-> NoTemplate, todo |-> {},
            named |-> {}, failed |-> {}, error |-> "no", restart |-> "no"]

----------------------------------------------------------------------------
(* The Subscription and the repository.                                      *)

Edit(e) == e \in world.edits /\ edits < world.maxEdits /\ edits' = edits + 1

PublishIndex ==
    /\ Edit("index")
    /\ index' \in world.indexes \ {index}
    /\ UNCHANGED <<crs, rel, objs, orphans, ctl, queue, record, parent, lost, faults, sub, item>>

\* A new rate or manual sync time restarts the item; another edit only takes
\* the place of the Subscription it holds.
SubscribeItem ==
    /\ parent = "yes"
    /\ \/ /\ Edit("filter") /\ \E f \in world.filters \ {sub.filter} : sub' = [sub EXCEPT !.filter = f]
          /\ UNCHANGED item
       \/ /\ Edit("pause") /\ sub' = [sub EXCEPT !.paused = IF @ = "yes" THEN "no" ELSE "yes"]
          /\ UNCHANGED item
       \/ /\ Edit("rate") /\ sub' = [sub EXCEPT !.rate = IF @ = "on" THEN "off" ELSE "on"]
          /\ item' = [item EXCEPT !.restart = "yes"]
       \/ /\ Edit("sync") /\ UNCHANGED sub
          /\ item' = [item EXCEPT !.restart = "yes"]
    /\ UNCHANGED <<crs, rel, objs, orphans, ctl, queue, record, parent, lost, faults, index>>

DeleteSubscription ==
    /\ parent = "yes" /\ Edit("delete")
    /\ parent' = "no"
    /\ UNCHANGED <<crs, rel, objs, orphans, ctl, queue, record, lost, faults, index, sub, item>>

----------------------------------------------------------------------------
(* Writes of the HelmReleases by others than the controller.                 *)

\* The watch passes creations, deletions and new generations; the finalizers
\* alone make no new generation.
Notifies(a, b) == a # b /\ (a.v # b.v \/ "none" \in {a.st, b.st} \/ b.st = "leaving")

Write(new) ==
    LET gone == {p \in Pkgs : crs[p].st # "none" /\ new[p].st = "none"}
    IN
    /\ crs' = new
    /\ orphans' = [p \in Pkgs |-> IF p \in gone THEN Ownable(Names(objs[p])) ELSE orphans[p]]
    /\ queue' = queue \cup {p \in Pkgs : Notifies(crs[p], new[p])}
    /\ ctl' = IF ctl.pc # "idle" /\ new[ctl.p] # crs[ctl.p]
              THEN [ctl EXCEPT !.fresh = "no", !.owner = IF ctl.p \in gone THEN "gone" ELSE @]
              ELSE ctl

\* A deletion waits for the finalizer.
Deleted(ps) == [p \in Pkgs |->
    IF p \notin ps THEN crs[p]
    ELSE IF crs[p].st = "open" THEN NoCR
    ELSE IF crs[p].st = "held" THEN [crs[p] EXCEPT !.st = "leaving"]
    ELSE crs[p]]

----------------------------------------------------------------------------
(* The round of the item.                                                    *)

\* FilterCharts: the name, the version, then the latest version if several
\* remain; none of several can be chosen when all are pre-releases.
Named(p) == sub.filter.name \in {"any", p}
Matching(p) == IF Named(p) THEN index[p] \cap sub.filter.versions ELSE {}
Newest(vs) == CHOOSE v \in vs \cup {0} : \A w \in vs : w <= v
Selected(vs) == Newest(IF Cardinality(vs) = 1 THEN vs ELSE vs \ PreReleases)
Selectable == \A p \in Pkgs : Cardinality(Matching(p)) > 1 => Matching(p) \ PreReleases # {}
FilterCharts == [p \in Pkgs |-> Selected(Matching(p))]
Listed(list) == {p \in Pkgs : list[p] # 0}

\* The loop of Start, unless the rate is off, and a restart, which waits for
\* the round in progress.
Start ==
    /\ item.pc = "idle"
    /\ \/ item.restart = "yes" /\ (sub.rate = "off" \/ sub.paused = "no")
       \/ item.restart = "no" /\ sub.rate = "on" /\ sub.paused = "no"
    /\ item' = [Resting EXCEPT !.pc = "fetch", !.left = Retries]
    /\ UNCHANGED <<crs, rel, objs, orphans, ctl, queue, record, parent, lost, faults, index, sub, edits>>

\* An attempt has ended; a failed one is repeated after a while.
Ended(ok) ==
    item' = IF ok \/ item.left = 0
            THEN [Resting EXCEPT !.restart = item.restart]
            ELSE [Resting EXCEPT !.restart = item.restart, !.pc = "fetch", !.left = item.left - 1]

\* PurgeAllSubscribedResources deletes the HelmReleases of the record and the
\* record, whether or not all the deletions succeed.
Purge ==
    /\ \/ Ok /\ Write(Deleted(record.hrs))
       \/ Fail("purge") /\ \E ps \in SUBSET record.hrs \ {record.hrs} : Write(Deleted(ps))
    /\ record' = NoRecord

\* No client, no answer or no index, neither from the primary channel nor from
\* the secondary.
GetHelmRepoIndexFails == Fail("index")

\* The name, the chart and the overrides of one package; any of them may fail.
CreateHelmCRManifestFails == Fail("manifest")

\* A template is a copy of the HelmRelease that is there, finalizers included.
CreateOrUpdateHelmChart(p) == crs[p].st

\* The templates of the packages, without the one that failed.
ManageHelmCR(list, failed) ==
    item' = [item EXCEPT !.pc = "apply", !.list = list,
               !.tpl = [p \in Pkgs |-> CreateOrUpdateHelmChart(p)],
               !.todo = Listed(list) \ failed,
               !.named = {}, !.failed = {},
               !.error = IF failed = {} THEN "no" ELSE "yes"]

\* doSubscription up to the templates: the index, the selection, the HelmReleases.
\* Nothing to apply is a purge, but not for a MultiClusterHub.
DoSubscription ==
    LET list == FilterCharts
        keep == UNCHANGED <<crs, orphans, queue, ctl, record>>
    IN
    /\ item.pc = "fetch"
    /\ \/ (GetHelmRepoIndexFails \/ (Ok /\ ~Selectable)) /\ Ended(FALSE) /\ keep
       \/ /\ Selectable /\ Listed(list) = {}
          /\ IF world.mch = "yes" THEN Ok /\ Ended(FALSE) /\ keep
             ELSE Purge /\ Ended(TRUE)
       \/ /\ Selectable /\ Ok /\ Listed(list) # {} /\ ManageHelmCR(list, {}) /\ keep
       \/ /\ Selectable /\ CreateHelmCRManifestFails
          /\ \E p \in Listed(list) :
               IF Listed(list) = {p} THEN Ended(FALSE) ELSE ManageHelmCR(list, {p})
          /\ keep
    /\ UNCHANGED <<rel, objs, parent, lost, index, sub, edits>>

\* The template has the finalizers of the HelmRelease it was made from.
HasFinalizer(st) == st \in {"held", "leaving"}
Updated(cr, p) ==
    IF cr.st = "leaving" /\ ~HasFinalizer(item.tpl[p]) THEN NoCR
    ELSE [cr EXCEPT !.v = item.list[p],
            !.st = IF cr.st = "leaving" THEN @
                   ELSE IF HasFinalizer(item.tpl[p]) THEN "held" ELSE "open"]

\* applyTemplate of one HelmRelease; it has no name when its Subscription
\* cannot be read.
ApplyTemplate(p) ==
    LET done == [item EXCEPT !.todo = @ \ {p}]
    IN
    /\ item.pc = "apply" /\ p \in item.todo
    /\ \/ /\ Fail("lookup") \/ (Ok /\ parent = "no")
          /\ item' = [done EXCEPT !.failed = @ \cup {p}]
          /\ UNCHANGED <<crs, orphans, queue, ctl, lost>>
       \/ /\ Fail("write") /\ parent = "yes"
          /\ item' = [done EXCEPT !.failed = @ \cup {p}, !.named = @ \cup {p}]
          /\ UNCHANGED <<crs, orphans, queue, ctl, lost>>
       \/ /\ Ok /\ parent = "yes"
          /\ item' = [done EXCEPT !.named = @ \cup {p}]
          /\ Write([crs EXCEPT ![p] = Updated(@, p)])
          /\ lost' = IF HasFinalizer(crs[p].st) /\ ~HasFinalizer(item.tpl[p])
                     THEN lost \cup {<<p, "finalizer">>} ELSE lost
    /\ UNCHANGED <<rel, objs, record, parent, index, sub, edits>>

\* A single HelmRelease that was applied is left to the controller to record,
\* if the record has its name first.
ShouldSkip == /\ record # NoRecord /\ item.failed = {}
              /\ item.named = {record.first}

\* SyncAppsubClusterStatus: what the record had and the list has not is
\* deleted, and the list, in the order of a map, is the new record.
SyncRecord ==
    LET dropped == record.hrs \ item.named
    IN
    /\ item.pc = "apply" /\ item.todo = {}
    /\ \/ Fail("record") /\ Ended(FALSE) /\ UNCHANGED <<crs, orphans, queue, ctl, record>>
       \/ Ok /\ ShouldSkip /\ Ended(item.error = "no")
          /\ UNCHANGED <<crs, orphans, queue, ctl, record>>
       \/ /\ ~ShouldSkip
          /\ Ended(item.error = "no")
          /\ \E undeleted \in SUBSET dropped :
               /\ IF undeleted = {} THEN Ok ELSE Fail("prune")
               /\ Write(Deleted(dropped \ undeleted))
               /\ \E first \in item.named \cup item.failed :
                    record' = [hrs |-> item.named \cup undeleted,
                               first |-> IF first \in item.named THEN first ELSE "object"]
    /\ UNCHANGED <<rel, objs, parent, lost, index, sub, edits>>

\* The subscription controller finds the Subscription gone; Stop waits for the
\* round in progress.
UnsubscribeItem ==
    /\ parent = "no" /\ item.pc = "idle"
    /\ item' = [Resting EXCEPT !.pc = "gone"]
    /\ Purge
    /\ UNCHANGED <<rel, objs, parent, lost, index, sub, edits>>

----------------------------------------------------------------------------
(* The cluster.                                                              *)

\* The Subscription owns the HelmReleases.
CollectRelease(p) ==
    /\ parent = "no" /\ crs[p].st \in {"open", "held"}
    /\ Write(Deleted({p}))
    /\ UNCHANGED <<rel, objs, record, parent, lost, faults, index, sub, item, edits>>

\* The process restarts: the items are subscribed again, and every HelmRelease
\* is reconciled; an item that was to be unsubscribed is not known any more, and
\* the disk may be a new one.
Restart ==
    /\ Fail("restart")
    /\ ctl' = Idle
    /\ queue' = {p \in Pkgs : crs[p].st # "none"}
    /\ item' = IF parent = "yes" THEN [Resting EXCEPT !.restart = "yes"]
               ELSE [Resting EXCEPT !.pc = "gone"]
    /\ broken' \in {broken, {}}
    /\ UNCHANGED <<crs, rel, objs, orphans, record, parent, lost, index, sub, edits>>

Subscriber ==
    \/ Start \/ DoSubscription \/ SyncRecord \/ UnsubscribeItem
    \/ \E p \in Pkgs : ApplyTemplate(p)

Init ==
    /\ world \in Worlds
    /\ crs = [p \in Pkgs |-> NoCR] /\ rel = [p \in Pkgs |-> NoRelease]
    /\ objs = [p \in Pkgs |-> {}] /\ orphans = [p \in Pkgs |-> {}]
    /\ ctl = Idle /\ queue = {} /\ broken = {} /\ record = NoRecord /\ parent = "yes" /\ lost = {}
    /\ faults = 0 /\ edits = 0
    /\ index \in world.indexes
    /\ sub \in [filter : world.filters, rate : {"on"}, paused : {"no"}]
    /\ item = [Resting EXCEPT !.restart = "yes"]

Controlled == Controller /\ UNCHANGED <<world, index, sub, item, edits>>
Subscribed == Subscriber /\ UNCHANGED <<world, broken>>
Cleaned(p) == \/ CollectRelease(p) /\ UNCHANGED <<world, broken>>
              \/ Collect(p) /\ UNCHANGED <<world, broken, index, sub, item, edits>>

Next ==
    \/ Controlled \/ Subscribed
    \/ \E p \in Pkgs : Cleaned(p)
    \/ (PublishIndex \/ SubscribeItem \/ DeleteSubscription) /\ UNCHANGED <<world, broken>>
    \/ Restart /\ UNCHANGED world

Spec == Init /\ [][Next]_vars

\* The queue hands every HelmRelease out in turn.
FairSpec ==
    /\ Spec
    /\ WF_vars(Controlled) /\ WF_vars(Subscribed)
    /\ \A p \in Pkgs : /\ WF_vars(Cleaned(p))
                       /\ SF_vars(Reconcile(p) /\ UNCHANGED <<world, broken, index, sub, item, edits>>)

----------------------------------------------------------------------------
(* Properties.                                                               *)

\* The objects of the versions, what a release record may hold of one, and the
\* records of the state.
Rendering == UNION Manifests
Recorded == {{}} \cup Manifests \cup {StripCRDs(m) : m \in Manifests}
Installing == {"install", "installfailed", "installed", "installstatus"}
Upgrading == {"upgrade", "upgradefailed", "upgraded", "superseded", "upgradestatus"}
Uninstalling == {"uninstall", "check", "letgo"}
Labels == {"idle", "manager", "sync", "ensure"} \cup Installing \cup Upgrading \cup Uninstalling
Flags == {"yes", "no"}
Phases == {"none", "open", "held", "leaving"}
HelmReleases == [st : Phases, v : Versions \cup {0}, dep : SUBSET Rendering]
Releases == [cur : Recorded, new : Recorded]
Reconciles == [pc : Labels, p : Pkgs \cup {"none"}, cr : HelmReleases, chart : Flags,
               fresh : Flags, owner : {"live", "gone"}]
Records == [hrs : SUBSET Pkgs, first : Pkgs \cup {"object", "none"}]
Items == [pc : {"idle", "fetch", "apply", "gone"}, left : Nat,
          list : [Pkgs -> Versions \cup {0}], tpl : [Pkgs -> Phases],
          todo : SUBSET Pkgs, named : SUBSET Pkgs, failed : SUBSET Pkgs,
          error : Flags, restart : Flags]
Versioned(cr) == cr.st = "none" <=> cr.v = 0
Unique(O) == \A x, y \in O : x[1] = y[1] => x = y

\* The types of the state: a HelmRelease that is there has a version, an object
\* of a name is there once, a reconcile works on a copy of a HelmRelease, and the
\* item applies what it has selected.
TypeOK ==
    /\ world \in Worlds /\ index \in world.indexes
    /\ sub \in [filter : world.filters, rate : {"on", "off"}, paused : Flags]
    /\ crs \in [Pkgs -> HelmReleases] /\ \A p \in Pkgs : Versioned(crs[p])
    /\ rel \in [Pkgs -> Releases]
    /\ objs \in [Pkgs -> SUBSET Rendering] /\ \A p \in Pkgs : Unique(objs[p])
    /\ orphans \in [Pkgs -> SUBSET Ownable(Objects)]
    /\ ctl \in Reconciles
    /\ ctl.pc # "idle" => ctl.p \in Pkgs /\ ctl.cr.st # "none" /\ ctl.cr.v # 0
    /\ queue \subseteq Pkgs /\ broken \subseteq Pkgs \X Versions
    /\ record \in Records /\ parent \in Flags
    /\ lost \subseteq Pkgs \X {"finalizer", "upgrade"}
    /\ item \in Items /\ item.todo \subseteq Listed(item.list)
    /\ faults \in Nat /\ edits \in Nat

L == INSTANCE ReleaseLifecycle WITH
        phase <- [p \in Pkgs |-> crs[p].st],
        dep <- [p \in Pkgs |-> crs[p].dep]

\* The subscriber, the controller and the garbage collector, with failures and
\* restarts anywhere, implement the life of a HelmRelease: what its status says
\* is deployed is in the cluster, is replaced only by a complete version, and is
\* gone before the HelmRelease is.
Lifecycle == L!Spec

\* What FilterCharts selects is what the HelmRelease asks for, what Helm has
\* recorded as deployed and what the status says, but for the CRDs that are
\* stripped.
Wanted(p) == FilterCharts[p]
Delivered(p) ==
    /\ crs[p].v = Wanted(p)
    /\ StripCRDs(rel[p].cur) = StripCRDs(Manifest(Wanted(p)))
    /\ StripCRDs(crs[p].dep) = StripCRDs(Manifest(Wanted(p)))
Steady == parent = "yes" /\ sub.rate = "on" /\ sub.paused = "no" /\ Selectable

\* The rounds are minutes apart and a template is applied at once: not every one
\* of them falls into the moment in which the finalizer is added.
FinalizersStay == <>[][\A p \in Pkgs : ~(crs[p].st = "held" /\ crs'[p].st = "open")]_crs

\* Every version that is offered and not blocked is eventually deployed, whatever
\* calls fail and wherever a restart falls, unless the Subscription is paused,
\* turned off or deleted.
Delivers == FinalizersStay =>
    (Steady ~> \/ ~Steady
               \/ \A p \in Pkgs : Wanted(p) # 0 => Blocked(Wanted(p)) \/ Delivered(p))

\* When the Subscription is gone its HelmReleases go, and of what they deployed
\* only the objects to keep and those the garbage collector cannot own stay.
Leaves ==
    parent = "no" ~> \A p \in Pkgs :
                       crs[p].st = "none" /\ Names(objs[p]) \subseteq Keep \cup Cluster
=============================================================================
