---------------------------- MODULE HelmRelease ----------------------------
(***************************************************************************)
(* The HelmRelease controller of a managed cluster                          *)
(* (pkg/helmrelease): one worker reads a HelmRelease, downloads its chart,  *)
(* and installs, upgrades or uninstalls it through Helm, which keeps its    *)
(* release records in Secrets.  Every step is a call to Helm or to the API  *)
(* server; the HelmRelease may be rewritten or deleted between any two, and *)
(* the process may restart.  HelmSubscriber has the other writer of the     *)
(* HelmReleases and the next-state relation.                                *)
(***************************************************************************)
EXTENDS Naturals, FiniteSets

CONSTANTS
    Pkgs,        \* the packages of the Helm repository, one HelmRelease each
    Versions,    \* the versions of their charts, numbered 1, 2, ...
    Chart,       \* Chart[v]: the names of the objects version v renders
    Cluster,     \* the cluster-scoped objects among them
    Crds,        \* the CustomResourceDefinitions among them
    Keep,        \* the ones with the resource policy "keep"
    Worlds       \* the Subscriptions and surroundings, one of which world is

FaultKinds == {"download", "cut", "manager", "sync", "render", "apply", "install", "upgrade",
               "rollback", "uninstall", "linger", "status",
               "index", "manifest", "lookup", "write", "prune", "record", "purge", "restart"}
Objects == UNION {Chart[v] : v \in Versions}

ASSUME ChartAssumption ==
    /\ Versions \subseteq Nat \ {0}
    /\ \A vs \in SUBSET Versions \ {{}} : \E v \in vs : \A w \in vs : w <= v  \* one is the latest
    /\ \A v \in Versions : Chart[v] \ Crds # {}
    /\ \A w \in Worlds :
         /\ w.admin \in {"yes", "no"}         \* the cluster-admin annotation
         /\ w.mch \in {"yes", "no"}           \* owned by a MultiClusterHub
         /\ w.watch \in {"yes", "no"}         \* watchHelmNamespaceScopedResources
         /\ w.first \in {"release", "object"} \* whose name a chart's first object has
         /\ w.faults \subseteq FaultKinds     \* the calls that may fail
         /\ w.maxFaults \in Nat

VARIABLES
    world,    \* the Subscription and its surroundings; never changes
    crs,      \* crs[p]: the HelmRelease of p
    rel,      \* rel[p]: the manifests of its deployed and of its unfinished release record
    objs,     \* objs[p]: the objects of p in the cluster, <<name, version>>
    orphans,  \* orphans[p]: the names of those whose owner is gone
    ctl,      \* the reconcile in progress
    queue,    \* the HelmReleases to reconcile, the delayed requeues included
    broken,   \* the chart archives on disk that were cut short, <<package, version>>
    record,   \* the package list of the SubscriptionStatus
    parent,   \* is the Subscription there?
    lost,     \* history: the packages whose "finalizer" an update has removed, and
              \* those with an "upgrade" that was interrupted and given up
    faults

Manifest(v) == Chart[v] \X {v}
Manifests == {Manifest(v) : v \in Versions}
Names(m) == {x[1] : x \in m}
Apply(O, m) == {x \in O : x[1] \notin Names(m)} \cup m
Without(O, ns) == {x \in O : x[1] \notin ns}

\* A HelmRelease is open until it has its finalizer, then held, and leaving
\* once it is deleted; dep is Status.DeployedRelease.Manifest.
NoCR == [st |-> "none", v |-> 0, dep |-> {}]
NoRelease == [cur |-> {}, new |-> {}]
NoRecord == [hrs |-> {}, first |-> "none"]
\* fresh: is the resourceVersion of the copy cr still the current one?
\* owner: "gone" when the HelmRelease the manager was made for is deleted.
Idle == [pc |-> "idle", p |-> "none", cr |-> NoCR, chart |-> "yes",
         fresh |-> "yes", owner |-> "live"]

\* Every object of a version is in place.
Whole(p) == lost \ {<<p, "upgrade">>}

Fail(f) == f \in world.faults /\ faults < world.maxFaults /\ faults' = faults + 1
Ok == UNCHANGED faults

\* Mutant: a reconcile that failed is not repeated.
RequeueNever == ctl' = Idle /\ UNCHANGED queue

Goto(label) == ctl' = [ctl EXCEPT !.pc = label] /\ UNCHANGED queue
Requeue == ctl' = Idle /\ queue' = queue \cup {ctl.p}
Done == ctl' = Idle /\ UNCHANGED queue

\* Mutant: no owner references.
OwnableNone(ns) == {}

\* ownerRefInjectingClient: every object is owned by the HelmRelease, except
\* the cluster-scoped ones and the ones to keep.
Ownable(ns) == ns \ (Cluster \cup Keep)
Owned(p, m) == [orphans EXCEPT ![p] =
    IF ctl.owner = "gone" THEN @ \cup Ownable(Names(m)) ELSE @ \ Names(m)]

----------------------------------------------------------------------------
(* The SubscriptionStatus, which the controller and the synchronizer share.  *)

\* populateAppSubStatus and populateErrorAppSubStatus replace the list.
Populated(p) == [hrs |-> {p}, first |-> IF world.first = "release" THEN p ELSE "object"]
PopulatedError(p) == [hrs |-> {p}, first |-> p]

----------------------------------------------------------------------------
(* Reconcile.                                                                *)

Reconcile(p) ==
    /\ ctl.pc = "idle" /\ p \in queue
    /\ queue' = queue \ {p}
    /\ ctl' = IF crs[p].st = "none" THEN ctl
              ELSE [Idle EXCEPT !.pc = "manager", !.p = p, !.cr = crs[p]]
    /\ UNCHANGED <<crs, rel, objs, orphans, record, parent, lost, faults>>

\* hackMultiClusterHubRemoveCRDReferences strips the CRDs from the release
\* records and the status, while the Subscription can be found.
IsMultiClusterHubOwned == world.mch = "yes" /\ parent = "yes"
StripCRDs(m) == Without(m, Crds)
Stripped(m) == IF IsMultiClusterHubOwned THEN StripCRDs(m) ELSE m
StrippedRel(r) == [cur |-> Stripped(r.cur), new |-> Stripped(r.new)]

\* An archive that is on disk is not downloaded again, not even one that was cut
\* short; that is found when it cannot be unpacked, and it is removed.  (A chart
\* with one URL; that a whole archive is kept as well changes nothing here.)
Archive == <<ctl.p, ctl.cr.v>>
DownloadFails ==
    /\ ctl.cr.st # "leaving"
    /\ \/ Fail("download") /\ UNCHANGED broken
       \/ Fail("cut") /\ Archive \notin broken /\ broken' = broken \cup {Archive}
       \/ Ok /\ Archive \in broken /\ broken' = broken \ {Archive}

\* The chart is unpacked, or was not needed.
Downloaded == (ctl.cr.st = "leaving" \/ Archive \notin broken) /\ UNCHANGED broken

\* The chart of the version that was read is downloaded, then the managers
\* read the HelmRelease again: gone is an error, and one that is leaving by
\* now comes without a chart.
NewManager ==
    LET p == ctl.p
        status == Stripped(ctl.cr.dep)
    IN
    /\ ctl.pc = "manager"
    /\ \/ \* neither the source nor the alternative, or no manager
          /\ \/ DownloadFails
             \/ Downloaded /\ Fail("manager")
             \/ Downloaded /\ Ok /\ crs[p].st = "none"
          /\ record' = PopulatedError(p)
          /\ Requeue /\ UNCHANGED <<crs, rel>>
       \/ /\ Downloaded /\ Ok /\ crs[p].st # "none"
          /\ rel' = [rel EXCEPT ![p] = StrippedRel(@)]
          /\ IF status # ctl.cr.dep /\ ctl.fresh = "no"
             THEN Requeue /\ UNCHANGED <<crs, record>>
             ELSE /\ crs' = IF status # ctl.cr.dep
                            THEN [crs EXCEPT ![p].dep = status] ELSE crs
                  /\ record' = IF ctl.cr.st = "leaving" THEN NoRecord ELSE record
                  /\ ctl' = [ctl EXCEPT
                       !.pc = IF ctl.cr.st = "leaving" THEN "uninstall" ELSE "sync",
                       !.cr.dep = status,
                       !.chart = IF crs[p].st = "leaving" THEN "no" ELSE "yes",
                       !.owner = "live"]
                  /\ UNCHANGED queue
    /\ UNCHANGED <<objs, orphans, parent, lost>>

\* The cluster-scope gate runs on everything that is rendered.
Blocked(v) == world.admin = "no" /\ Chart[v] \cap Cluster # {}
Candidate == Manifest(ctl.cr.v)
Renders == ctl.chart = "yes" /\ ~Blocked(ctl.cr.v)

\* manager.Sync deletes the records that are not deployed and renders the next
\* candidate; then the finalizer goes on.
Deployed(r) == [r EXCEPT !.new = {}]
Sync ==
    LET p == ctl.p
        cur == rel[p].cur
    IN
    /\ ctl.pc = "sync"
    /\ rel' = [rel EXCEPT ![p] = Deployed(@)]
    /\ lost' = IF rel[p].new # {} /\ world.watch = "no" /\ ~(Names(cur) \subseteq Names(objs[p]))
               THEN lost \cup {<<p, "upgrade">>} ELSE lost
    /\ \/ /\ Fail("sync") \/ (Ok /\ cur # {} /\ ~Renders)
          /\ record' = PopulatedError(p)
          /\ Requeue /\ UNCHANGED crs
       \/ /\ Ok /\ (cur = {} \/ Renders)
          /\ UNCHANGED record
          /\ IF ctl.cr.st = "open" /\ ctl.fresh = "no"
             THEN Requeue /\ UNCHANGED crs
             ELSE /\ crs' = IF ctl.cr.st = "open" THEN [crs EXCEPT ![p].st = "held"] ELSE crs
                  /\ ctl' = [ctl EXCEPT
                       !.pc = IF cur = {} THEN "install"
                              ELSE IF cur # Candidate THEN "upgrade" ELSE "ensure",
                       !.cr.st = "held"]
                  /\ UNCHANGED queue
    /\ UNCHANGED <<objs, orphans, parent>>

----------------------------------------------------------------------------
(* Install.                                                                  *)

\* The dry run, then Helm records the release and creates its objects, some
\* of them when it fails.
InstallRelease ==
    LET p == ctl.p
    IN
    /\ ctl.pc = "install"
    /\ \/ /\ Fail("render") \/ (Ok /\ ~Renders)
          /\ record' = PopulatedError(p)
          /\ Requeue /\ UNCHANGED <<rel, objs, orphans, lost>>
       \/ /\ Renders
          /\ record' = Populated(p)
          /\ rel' = [rel EXCEPT ![p].new = Candidate]
          /\ \E m \in SUBSET Candidate :
               /\ objs' = [objs EXCEPT ![p] = Apply(@, m)]
               /\ orphans' = Owned(p, m)
               /\ \/ Ok /\ m = Candidate /\ Goto("installed") /\ lost' = Whole(p)
                  \/ Fail("install") /\ Goto("installfailed") /\ UNCHANGED lost
    /\ UNCHANGED <<crs, parent>>

\* A first install is rolled back by an uninstall of the failed record.
InstallFailed ==
    LET p == ctl.p
        failed == StrippedRel(rel[p]).new
    IN
    /\ ctl.pc = "installfailed"
    /\ record' = PopulatedError(p)
    /\ IF ctl.cr.dep # {}
       THEN Ok /\ UNCHANGED <<rel, objs>>
       ELSE \/ /\ Ok
               /\ rel' = [rel EXCEPT ![p] = NoRelease]
               /\ objs' = [objs EXCEPT ![p] = Without(@, Names(failed) \ Keep)]
            \/ /\ Fail("rollback")
               /\ rel' = [rel EXCEPT ![p] = StrippedRel(@)]
               /\ \E ns \in SUBSET (Names(failed) \ Keep) :
                    objs' = [objs EXCEPT ![p] = Without(@, ns)]
    /\ Requeue
    /\ UNCHANGED <<crs, orphans, parent, lost>>

\* A write of the copy: it conflicts when the HelmRelease has changed or is gone.
StatusWritten(p, m) == [crs EXCEPT ![p].dep = m]
WriteStatus(m) ==
    LET p == ctl.p
    IN  \/ Ok /\ ctl.fresh = "yes" /\ crs' = StatusWritten(p, m) /\ Done
        \/ Ok /\ ctl.fresh = "no" /\ UNCHANGED crs /\ Requeue
        \/ Fail("status") /\ UNCHANGED crs /\ Requeue

\* The release is deployed, then the HelmRelease is updated and its status;
\* the first conflict ends the reconcile before the SubscriptionStatus.
Installed ==
    LET p == ctl.p
    IN
    /\ \/ /\ ctl.pc = "installed"
          /\ rel' = [rel EXCEPT ![p] = [cur |-> @.new, new |-> {}]]
          /\ Goto("installstatus")
          /\ UNCHANGED <<crs, record, faults>>
       \/ /\ ctl.pc = "installstatus"
          /\ WriteStatus(rel[p].cur)
          /\ record' = IF ctl.fresh = "no" THEN record ELSE Populated(p)
          /\ UNCHANGED rel
    /\ UNCHANGED <<objs, orphans, parent, lost>>

----------------------------------------------------------------------------
(* Upgrade.                                                                  *)

UpgradeRelease ==
    LET p == ctl.p
        gone == (Names(rel[p].cur) \ Names(Candidate)) \ Keep
    IN
    /\ ctl.pc = "upgrade"
    /\ rel' = [rel EXCEPT ![p].new = Candidate]
    /\ \E m \in SUBSET Candidate :
         /\ orphans' = Owned(p, m)
         /\ \/ /\ Ok /\ m = Candidate
               /\ objs' = [objs EXCEPT ![p] = Without(Apply(@, m), gone)]
               /\ Goto("upgraded") /\ lost' = Whole(p)
            \/ /\ Fail("upgrade")
               /\ objs' = [objs EXCEPT ![p] = Apply(@, m)]
               /\ Goto("upgradefailed") /\ UNCHANGED lost
    /\ UNCHANGED <<crs, record, parent>>

\* UpgradeRelease returns no release with its error, so the rollback that
\* Reconcile has for one is never tried.
UpgradeFailed ==
    LET p == ctl.p
    IN
    /\ ctl.pc = "upgradefailed"
    /\ record' = PopulatedError(p)
    /\ rel' = [rel EXCEPT ![p] = StrippedRel(@)]
    /\ Requeue
    /\ UNCHANGED <<crs, objs, orphans, parent, lost, faults>>

\* Helm supersedes the old record before it marks the new one as deployed.
Upgraded ==
    LET p == ctl.p
    IN
    /\ \/ /\ ctl.pc = "upgraded"
          /\ rel' = [rel EXCEPT ![p].cur = {}]
          /\ Goto("superseded")
          /\ UNCHANGED <<crs, record, faults>>
       \/ /\ ctl.pc = "superseded"
          /\ rel' = [rel EXCEPT ![p] = [cur |-> @.new, new |-> {}]]
          /\ Goto("upgradestatus")
          /\ UNCHANGED <<crs, record, faults>>
       \/ /\ ctl.pc = "upgradestatus"
          /\ WriteStatus(rel[p].cur)
          /\ record' = Populated(p)
          /\ UNCHANGED rel
    /\ UNCHANGED <<objs, orphans, parent, lost>>

\* The SubscriptionStatus is filled in when it is missing; then the status.
EnsureStatusReasonPopulated(p) ==
    /\ record' = IF record = NoRecord THEN Populated(p) ELSE record
    /\ WriteStatus(rel[p].cur)

\* Nothing to upgrade: the release is reapplied if it is watched.
Ensure ==
    LET p == ctl.p
        cur == rel[p].cur
    IN
    /\ ctl.pc = "ensure"
    /\ \E m \in SUBSET cur :
         /\ objs' = [objs EXCEPT ![p] = Apply(@, m)]
         /\ orphans' = Owned(p, m)
         /\ \/ /\ Fail("apply") /\ world.watch = "yes"
               /\ Requeue /\ UNCHANGED <<crs, record>>
            \/ /\ m = IF world.watch = "yes" THEN cur ELSE {}
               /\ EnsureStatusReasonPopulated(p)
    /\ UNCHANGED <<rel, parent, lost>>

----------------------------------------------------------------------------
(* Uninstall.                                                                *)

\* Helm deletes the objects of the latest record and then all the records; an
\* error leaves the record, no longer deployed.  Objects with finalizers of
\* their own stay for a while.
Latest(r) == IF r.new # {} THEN r.new ELSE r.cur
UninstallRelease ==
    LET p == ctl.p
        last == Latest(rel[p])
        ns == Names(last) \ Keep
        leave == IF ctl.cr.dep = {} THEN "letgo" ELSE "check"
    IN
    /\ ctl.pc = "uninstall"
    /\ \/ /\ Fail("uninstall") /\ last # {}
          /\ rel' = [rel EXCEPT ![p] = IF @.new # {} THEN @ ELSE [cur |-> {}, new |-> @.cur]]
          /\ \E some \in SUBSET ns : objs' = [objs EXCEPT ![p] = Without(@, some)]
          /\ record' = PopulatedError(p)
          /\ Requeue
       \/ /\ rel' = [rel EXCEPT ![p] = NoRelease]
          /\ UNCHANGED record
          /\ \/ Ok /\ objs' = [objs EXCEPT ![p] = Without(@, ns)]
             \/ Fail("linger")
                /\ \E some \in SUBSET ns \ {ns} : objs' = [objs EXCEPT ![p] = Without(@, some)]
          /\ Goto(leave)
    /\ UNCHANGED <<crs, orphans, parent, lost>>

\* Mutant: the finalizer is removed with whatever Helm has left behind.
CheckNothing ==
    /\ ctl.pc = "check"
    /\ Goto("letgo")
    /\ UNCHANGED <<crs, rel, objs, orphans, record, parent, lost, faults>>

\* The names that are not to be kept.
FilterManifestsToKeep(ns) == ns \ Keep

\* Whatever is left of the manifest in the status is deleted again, and looked
\* for in a minute.
CheckRemoved ==
    LET p == ctl.p
        left == FilterManifestsToKeep(Names(ctl.cr.dep)) \cap Names(objs[p])
    IN
    /\ ctl.pc = "check"
    /\ IF left = {}
       THEN Goto("letgo") /\ UNCHANGED <<objs, record>>
       ELSE /\ objs' = [objs EXCEPT ![p] = Without(@, left)]
            /\ record' = PopulatedError(p)
            /\ Requeue
    /\ UNCHANGED <<crs, rel, orphans, parent, lost, faults>>

\* The finalizer is removed, and with it the HelmRelease.
RemoveFinalizer ==
    LET p == ctl.p
    IN
    /\ ctl.pc = "letgo"
    /\ IF ctl.fresh = "no" THEN UNCHANGED <<crs, orphans>>
       ELSE /\ crs' = [crs EXCEPT ![p] = NoCR]
            /\ orphans' = [orphans EXCEPT ![p] = Ownable(Names(objs[p]))]
    /\ Requeue
    /\ UNCHANGED <<rel, objs, record, parent, lost, faults>>

----------------------------------------------------------------------------
(* The garbage collector of the cluster.                                     *)

Collect(p) ==
    /\ orphans[p] # {}
    /\ objs' = [objs EXCEPT ![p] = Without(@, orphans[p])]
    /\ orphans' = [orphans EXCEPT ![p] = {}]
    /\ UNCHANGED <<crs, rel, ctl, queue, record, parent, lost, faults>>

Released ==
    \/ Sync
    \/ InstallRelease \/ InstallFailed \/ Installed
    \/ UpgradeRelease \/ UpgradeFailed \/ Upgraded \/ Ensure
    \/ UninstallRelease \/ CheckRemoved \/ RemoveFinalizer
Controller ==
    \/ NewManager
    \/ (Released \/ \E p \in Pkgs : Reconcile(p)) /\ UNCHANGED broken
=============================================================================
