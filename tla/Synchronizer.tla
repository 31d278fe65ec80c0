---------------------------- MODULE Synchronizer ----------------------------
(***************************************************************************)
(* The synchronizer of a managed cluster (pkg/synchronizer/kubernetes): how *)
(* the objects on the cluster, the SubscriptionStatus that records them and *)
(* the cluster's report on the hub follow the lists that the subscribers    *)
(* hand over, while the cleanup goroutine works beside it without its lock, *)
(* calls to the API servers fail and the operator may restart.              *)
(***************************************************************************)
EXTENDS Naturals, FiniteSets

CONSTANTS
    Subs,         \* the subscriptions of the cluster
    Resources,    \* the objects that their sources may describe
    Option,       \* Option[s]: what s may do to an object it does not own:
                  \* "backoff", or (cluster-admin) "merge" or "own"
    Denied,       \* pairs <<s, r>> that allow and deny lists rule out
    Keep,         \* objects with the do-not-delete annotation
    Faults,       \* which calls may fail
    Features,     \* which of FeatureKinds happen
    MaxEdits,     \* bound on what users do
    MaxFaults     \* bound on the failures of one behaviour

FaultKinds == {"override", "apply", "get", "prune", "purge", "clean", "subget", "write", "report"}
FeatureKinds == {"pause", "foreign", "recreate", "cleanup", "restart"}

ASSUME ConstantsAssumption ==
    /\ Option \in [Subs -> {"backoff", "merge", "own"}]
    /\ Denied \subseteq Subs \X Resources /\ Keep \subseteq Resources
    /\ Faults \subseteq FaultKinds /\ Features \subseteq FeatureKinds
    /\ MaxEdits \in Nat /\ MaxFaults \in Nat

VARIABLES
    sub,      \* sub[s]: the Subscription, "none" before it was created
    want,     \* want[s]: the list the subscriber of s has fetched
    item,     \* item[s]: whether a subscriber holds an item for s
    host,     \* host[r]: hosting-subscription annotation of object r
    rec,      \* rec[s]: the units listed in the SubscriptionStatus of s
    phase,    \* phase[s]: its overall phase, "none" when there is no CR
    report,   \* report[s]: the result in the cluster's report on the hub
    proc,     \* the call that holds kmtx
    clean,    \* the cleanup goroutine
    edits, faults

vars == <<sub, want, item, host, rec, phase, report, proc, clean, edits, faults>>

Absent == "absent"   \* the object does not exist
Nobody == "nobody"   \* it exists and no subscription hosts it
Blank  == "blank"    \* a unit without apiVersion and kind
Units  == Resources \cup {Blank}

ASSUME NamesAssumption ==
    Absent \notin Subs /\ Nobody \notin Subs /\ Blank \notin Resources /\ "none" \notin Subs

\* A call of the synchronizer for s with list L, and one round of cleanup.
Call(s, L, label) == [pc |-> label, sub |-> s, list |-> L, todo |-> L,
                      cur |-> Blank, units |-> {}, failed |-> {}]
Round(label, snap, left) == [pc |-> label, snap |-> snap, left |-> left, sub |-> "none",
                             todo |-> {}, cur |-> Blank, err |-> "no"]
IdleProc == Call("none", {}, "idle")
IdleClean == Round("idle", [s \in Subs |-> {}], {})

Init ==
    /\ sub = [s \in Subs |-> "none"] /\ want = [s \in Subs |-> {}]
    /\ item = [s \in Subs |-> "none"]
    /\ host = [r \in Resources |-> Absent]
    /\ rec = [s \in Subs |-> {}] /\ phase = [s \in Subs |-> "none"]
    /\ report = [s \in Subs |-> "none"]
    /\ proc = IdleProc /\ clean = IdleClean
    /\ edits = 0 /\ faults = 0

Exists(s) == sub[s] \in {"active", "paused"}

\* A call of kind f fails / succeeds.
Fail(f) == f \in Faults /\ faults < MaxFaults /\ faults' = faults + 1
Ok == UNCHANGED faults

----------------------------------------------------------------------------
(* Users, the source and the operator's pod.                                *)

Edit == edits < MaxEdits /\ edits' = edits + 1

EditSub(s) ==
    /\ Edit
    /\ \/ sub[s] = "none" /\ sub' = [sub EXCEPT ![s] = "active"]
       \/ /\ sub[s] = "deleted" /\ "recreate" \in Features
          /\ sub' = [sub EXCEPT ![s] = "active"]
       \/ Exists(s) /\ sub' = [sub EXCEPT ![s] = "deleted"]
       \/ /\ Exists(s) /\ "pause" \in Features
          /\ sub' = [sub EXCEPT ![s] = IF @ = "paused" THEN "active" ELSE "paused"]
    /\ UNCHANGED <<want, item, host, rec, phase, report, proc, clean, faults>>

EditSource(s) ==
    /\ Edit
    /\ \E L \in SUBSET Resources \ {want[s]} : want' = [want EXCEPT ![s] = L]
    /\ UNCHANGED <<sub, item, host, rec, phase, report, proc, clean, faults>>

\* Somebody else creates an object.
Foreign(r) ==
    /\ "foreign" \in Features /\ Edit
    /\ host[r] = Absent /\ host' = [host EXCEPT ![r] = Nobody]
    /\ UNCHANGED <<sub, want, item, rec, phase, report, proc, clean, faults>>

\* The pod restarts: items, lock and cleanup are in memory only.
Restart ==
    /\ "restart" \in Features /\ Edit
    /\ item' = [s \in Subs |-> "none"]
    /\ proc' = IdleProc /\ clean' = IdleClean
    /\ UNCHANGED <<sub, want, host, rec, phase, report, faults>>

\* The controller's SubscribeItem.
Subscribe(s) ==
    /\ Exists(s) /\ item[s] = "none"
    /\ item' = [item EXCEPT ![s] = "held"]
    /\ UNCHANGED <<sub, want, host, rec, phase, report, proc, clean, edits, faults>>

----------------------------------------------------------------------------
(* ProcessSubResources: apply a list, under the lock.                       *)

Outside == <<sub, want, item, clean, edits>>   \* what the locked calls leave alone
Return == proc' = IdleProc

\* An empty list means: clean up everything of this host.
ProcessSubResources(s) ==
    /\ proc.pc = "idle" /\ item[s] = "held"
    /\ proc' = Call(s, want[s], IF want[s] = {} THEN "purge" ELSE "next")
    /\ UNCHANGED <<Outside, host, rec, phase, report, faults>>

\* OverrideResource reads the Subscription; when that fails the unit is
\* recorded as Failed, without the name of the resource.
OverrideResource ==
    /\ proc.pc = "next"
    /\ \E r \in proc.todo :
       \/ /\ Exists(proc.sub) /\ Ok
          /\ proc' = [proc EXCEPT !.pc = "apply", !.cur = r, !.todo = @ \ {r}]
       \/ /\ IF Exists(proc.sub) THEN Fail("override") ELSE Ok
          /\ proc' = [proc EXCEPT !.todo = @ \ {r}, !.units = @ \cup {Blank},
                                  !.failed = @ \cup {Blank}]
    /\ UNCHANGED <<Outside, host, rec, phase, report>>

\* (mutant) The error of applyTemplate is logged only.
AppliedQuietly(bad) ==
    proc' = [proc EXCEPT !.pc = "next", !.cur = Blank, !.units = @ \cup {proc.cur}]

Applied(bad) ==
    proc' = [proc EXCEPT !.pc = "next", !.cur = Blank, !.units = @ \cup {proc.cur},
                         !.failed = IF bad THEN @ \cup {proc.cur} ELSE @]

\* The owner after updateResourceByTemplateUnit, and whether it may update.
MayUpdate(s, r) == host[r] \in {Absent, s} \/ Option[s] # "backoff"
\* (mutant) The annotation is never set.
NewHostUnset(s, r) == IF host[r] = Absent THEN "none" ELSE host[r]
NewHost(s, r) == IF host[r] = Absent \/ Option[s] = "own" THEN s ELSE host[r]

\* applyTemplate: nothing while the Subscription is paused; refused by the
\* lists or by ownership; created or updated otherwise.  A call that fails
\* may or may not have had its effect.
ApplyTemplate ==
    LET s == proc.sub
        r == proc.cur
    IN  /\ proc.pc = "apply"
        /\ \/ /\ sub[s] = "paused" /\ Ok /\ Applied(FALSE) /\ UNCHANGED host
           \/ /\ sub[s] # "paused" /\ Ok
              /\ <<s, r>> \in Denied \/ ~MayUpdate(s, r)
              /\ Applied(TRUE) /\ UNCHANGED host
           \/ /\ sub[s] # "paused" /\ Ok
              /\ <<s, r>> \notin Denied /\ MayUpdate(s, r)
              /\ Applied(FALSE) /\ host' = [host EXCEPT ![r] = NewHost(s, r)]
           \/ /\ sub[s] # "paused" /\ Fail("apply")
              /\ Applied(TRUE)
              /\ \/ UNCHANGED host
                 \/ /\ <<s, r>> \notin Denied /\ MayUpdate(s, r)
                    /\ host' = [host EXCEPT ![r] = NewHost(s, r)]
        /\ UNCHANGED <<Outside, rec, phase, report>>

\* (mutant) Everything on record is stale.
StaleAll == rec[proc.sub]

\* The units on record that the list does not have any more.
Stale == rec[proc.sub] \ proc.units

\* SyncAppsubClusterStatus, action APPLY: read the SubscriptionStatus.
ReadStatus ==
    /\ proc.pc = "next" /\ proc.todo = {}
    /\ \/ Fail("get") /\ Return
       \/ /\ Ok /\ phase[proc.sub] = "none"
          /\ proc' = [proc EXCEPT !.pc = "create"]
       \/ /\ Ok /\ phase[proc.sub] # "none"
          /\ proc' = [proc EXCEPT !.pc = "prune", !.todo = Stale]
    /\ UNCHANGED <<Outside, host, rec, phase, report>>

\* DeleteSingleSubscribedResource: what is on the cluster after it succeeded
\* for unit u of subscription s.
\* (mutant) The comparison of the hosting annotation is the wrong way round.
DeletesForeign(s, u) == u \in Resources \ Keep /\ host[u] \notin {Absent, s}
Deletes(s, u) == u \in Resources \ Keep /\ host[u] = s
AfterDelete(s, u) ==
    IF u = Blank THEN host
    ELSE IF Deletes(s, u) THEN [host EXCEPT ![u] = Absent] ELSE host

\* The ways it ends: done; a failed Get is taken for "already gone"; a failed
\* look-up of the kind or a failed Delete is an error.
DeleteDone(s, u) == \/ Ok /\ host' = AfterDelete(s, u)
                    \/ u # Blank /\ Fail("get") /\ UNCHANGED host
DeleteError(s, u, f) == u # Blank /\ Fail(f) /\ UNCHANGED host

Prune ==
    /\ proc.pc = "prune"
    /\ \E u \in proc.todo :
       \/ DeleteDone(proc.sub, u) /\ proc' = [proc EXCEPT !.todo = @ \ {u}]
       \/ /\ DeleteError(proc.sub, u, "prune")
          /\ proc' = [proc EXCEPT !.todo = @ \ {u}, !.units = @ \cup {u}]
    /\ UNCHANGED <<Outside, rec, phase, report>>

\* (mutant) Only what was applied is recorded.
WrittenDeployed == proc.units \ proc.failed

\* The units of the new SubscriptionStatus: those of the list, applied or not,
\* and those that could not be deleted.
Written == proc.units

\* Create or update the SubscriptionStatus; the update fails when the CR has
\* been deleted meanwhile.
WriteStatus ==
    /\ proc.pc = "create" \/ (proc.pc = "prune" /\ proc.todo = {})
    /\ \/ /\ proc.pc = "create" \/ phase[proc.sub] # "none"
          /\ Ok
          /\ rec' = [rec EXCEPT ![proc.sub] = Written]
          /\ phase' = [phase EXCEPT ![proc.sub] = IF proc.failed = {} THEN "Deployed" ELSE "Failed"]
          /\ proc' = [proc EXCEPT !.pc = "report"]
       \/ /\ IF proc.pc = "prune" /\ phase[proc.sub] = "none" THEN Ok ELSE Fail("write")
          /\ Return /\ UNCHANGED <<rec, phase>>
    /\ UNCHANGED <<Outside, host, report>>

\* updateAppsubReportResult, and the end of the call.
ReportResult ==
    /\ proc.pc = "report"
    /\ \/ /\ Ok
          /\ report' = [report EXCEPT ![proc.sub] =
                           IF proc.failed = {} THEN "deployed" ELSE "failed"]
       \/ Fail("report") /\ UNCHANGED report
    /\ Return
    /\ UNCHANGED <<Outside, host, rec, phase>>

----------------------------------------------------------------------------
(* PurgeAllSubscribedResources.                                             *)

\* UnsubscribeItem: the item is forgotten, then its resources are purged.
Unsubscribe(s) ==
    /\ ~Exists(s) /\ item[s] = "held" /\ proc.pc = "idle"
    /\ item' = [item EXCEPT ![s] = "none"]
    /\ proc' = Call(s, {}, "purge")
    /\ UNCHANGED <<sub, want, host, rec, phase, report, clean, edits, faults>>

\* A failed read of the status ends the purge.
PurgeRead ==
    /\ proc.pc = "purge"
    /\ \/ /\ Ok /\ proc' = [proc EXCEPT !.pc = "purging", !.list = {}, !.todo = rec[proc.sub]]
       \/ Fail("get") /\ Return
    /\ UNCHANGED <<Outside, host, rec, phase, report>>

PurgeOne ==
    /\ proc.pc = "purging"
    /\ \E u \in proc.todo :
       \/ DeleteDone(proc.sub, u) /\ proc' = [proc EXCEPT !.todo = @ \ {u}]
       \/ /\ DeleteError(proc.sub, u, "purge")
          /\ proc' = [proc EXCEPT !.todo = @ \ {u}, !.failed = @ \cup {u}]
    /\ UNCHANGED <<Outside, rec, phase, report>>

\* SyncAppsubClusterStatus, action DELETE.  The failed units are kept, without
\* their apiVersion and kind, only when reading the Subscription fails for
\* another reason than its absence; otherwise the CR is deleted.
PurgeStatus ==
    /\ proc.pc = "purging" /\ proc.todo = {}
    /\ \/ /\ Fail("get") \/ (Fail("write") /\ phase[proc.sub] # "none")
          /\ Return /\ UNCHANGED <<rec, phase>>
       \/ /\ Ok
          /\ rec' = [rec EXCEPT ![proc.sub] = {}]
          /\ phase' = [phase EXCEPT ![proc.sub] = "none"]
          /\ proc' = [proc EXCEPT !.pc = "unreport"]
       \/ /\ Fail("subget") /\ proc.failed # {} /\ phase[proc.sub] # "none"
          /\ rec' = [rec EXCEPT ![proc.sub] = {Blank}]
          /\ proc' = [proc EXCEPT !.pc = "report"]
          /\ UNCHANGED phase
    /\ UNCHANGED <<Outside, host, report>>

\* deleteAppsubReportResult.
PurgeReport ==
    /\ proc.pc = "unreport"
    /\ \/ Ok /\ report' = [report EXCEPT ![proc.sub] = "none"]
       \/ Fail("report") /\ UNCHANGED report
    /\ Return
    /\ UNCHANGED <<Outside, host, rec, phase>>

----------------------------------------------------------------------------
(* cleanup: the goroutine that looks for statuses without a Subscription.   *)

InClean == <<sub, want, item, report, proc, edits>>  \* what cleanup leaves alone

CleanList ==
    /\ "cleanup" \in Features /\ clean.pc = "idle"
    /\ LET listed == {s \in Subs : phase[s] # "none"}
       IN  listed # {} /\ clean' = Round("pick", rec, listed)
    /\ UNCHANGED <<InClean, host, rec, phase, faults>>

\* (mutant) Only statuses without units count.
OrphanEmpty(s) == ~Exists(s) /\ clean.snap[s] = {}

\* A listed status whose Subscription is gone and that has units.
Orphan(s) == ~Exists(s) /\ clean.snap[s] # {}

CleanPick ==
    /\ clean.pc = "pick"
    /\ \/ /\ clean.left = {} /\ clean' = IdleClean /\ Ok
       \/ \E s \in clean.left :
          \/ /\ Ok /\ Orphan(s)
             /\ clean' = [clean EXCEPT !.pc = "units", !.left = @ \ {s}, !.sub = s,
                                       !.todo = clean.snap[s], !.err = "no"]
          \/ /\ IF Orphan(s) THEN Fail("get") ELSE Ok
             /\ clean' = [clean EXCEPT !.left = @ \ {s}]
    /\ UNCHANGED <<InClean, host, rec, phase>>

\* DeleteSingleSubscribedResource again, its Get and its Delete apart: other
\* calls come in between, as cleanup does not hold kmtx.
CleanGet ==
    /\ clean.pc = "units"
    /\ \E u \in clean.todo :
       \/ /\ Ok /\ Deletes(clean.sub, u)
          /\ clean' = [clean EXCEPT !.pc = "delete", !.cur = u, !.todo = @ \ {u}]
       \/ /\ IF Deletes(clean.sub, u) THEN Fail("get") ELSE Ok
          /\ clean' = [clean EXCEPT !.todo = @ \ {u}]
       \/ /\ u # Blank /\ Fail("clean")
          /\ clean' = [clean EXCEPT !.todo = @ \ {u}, !.err = "yes"]
    /\ UNCHANGED <<InClean, host, rec, phase>>

CleanDelete ==
    /\ clean.pc = "delete"
    /\ \/ /\ Ok /\ host' = [host EXCEPT ![clean.cur] = Absent]
          /\ clean' = [clean EXCEPT !.pc = "units", !.cur = Blank]
       \/ /\ Fail("clean") /\ UNCHANGED host
          /\ clean' = [clean EXCEPT !.pc = "units", !.cur = Blank, !.err = "yes"]
    /\ UNCHANGED <<InClean, rec, phase>>

CleanStatus ==
    /\ clean.pc = "units" /\ clean.todo = {}
    /\ clean' = [clean EXCEPT !.pc = "pick", !.sub = "none"]
    /\ \/ /\ Ok /\ clean.err = "no"
          /\ rec' = [rec EXCEPT ![clean.sub] = {}]
          /\ phase' = [phase EXCEPT ![clean.sub] = "none"]
       \/ /\ IF clean.err = "yes" THEN Ok ELSE Fail("write")
          /\ UNCHANGED <<rec, phase>>
    /\ UNCHANGED <<InClean, host>>

----------------------------------------------------------------------------
Locked == \/ OverrideResource \/ ApplyTemplate \/ ReadStatus \/ Prune
          \/ WriteStatus \/ ReportResult
          \/ PurgeRead \/ PurgeOne \/ PurgeStatus \/ PurgeReport
Cleanup == CleanList \/ CleanPick \/ CleanGet \/ CleanDelete \/ CleanStatus

Next ==
    \/ \E s \in Subs : EditSub(s) \/ EditSource(s)
    \/ \E r \in Resources : Foreign(r)
    \/ Restart
    \/ \E s \in Subs : Subscribe(s) \/ Unsubscribe(s) \/ ProcessSubResources(s)
    \/ Locked \/ Cleanup

\* The controller serves every request, a subscriber polls again and again,
\* a call that holds the lock goes on, and cleanup keeps running.
Fairness ==
    /\ \A s \in Subs : WF_vars(Subscribe(s)) /\ SF_vars(Unsubscribe(s))
                       /\ SF_vars(ProcessSubResources(s))
    /\ WF_vars(Locked) /\ WF_vars(Cleanup)

Spec == Init /\ [][Next]_vars
FairSpec == Spec /\ Fairness

----------------------------------------------------------------------------
(* Properties.                                                              *)

ProcType == [pc: {"idle", "next", "apply", "create", "prune", "report",
                  "purge", "purging", "unreport"},
             sub: Subs \cup {"none"}, list: SUBSET Resources, todo: SUBSET Units,
             cur: Units, units: SUBSET Units, failed: SUBSET Units]
CleanType == [pc: {"idle", "pick", "units", "delete"}, snap: [Subs -> SUBSET Units],
              left: SUBSET Subs, sub: Subs \cup {"none"}, todo: SUBSET Units,
              cur: Units, err: {"no", "yes"}]

\* The variables keep their types.
TypeOK ==
    /\ sub \in [Subs -> {"none", "active", "paused", "deleted"}]
    /\ want \in [Subs -> SUBSET Resources]
    /\ item \in [Subs -> {"none", "held"}]
    /\ host \in [Resources -> Subs \cup {Absent, Nobody}]
    /\ rec \in [Subs -> SUBSET Units]
    /\ phase \in [Subs -> {"none", "Deployed", "Failed"}]
    /\ report \in [Subs -> {"none", "deployed", "failed"}]
    /\ proc \in ProcType /\ (proc.pc # "idle" => proc.sub \in Subs)
    /\ clean \in CleanType
    /\ edits \in Nat /\ faults \in Nat

\* Objects that deletion is meant to remove.
Owned(s) == {r \in Resources \ Keep : host[r] = s}

\* No orphans: whatever a subscription hosts is listed in its
\* SubscriptionStatus, so that a later list, the purge or a cleanup finds it;
\* the call in progress accounts for what it has applied and not yet recorded.
Accounted ==
    \A s \in Subs : \A r \in Owned(s) :
        \/ r \in rec[s]
        \/ proc.sub = s /\ proc.pc \in {"next", "apply", "create", "prune"} /\ r \in proc.units

\* The inductive invariant behind the two properties around it: where the call
\* in progress looks for what its subscription hosts, at each of its steps.
Covered ==
    CASE proc.pc \in {"next", "apply"} -> rec[proc.sub] \cup proc.units
      [] proc.pc = "create" -> proc.units
      [] proc.pc = "prune" -> proc.units \cup proc.todo
      [] proc.pc = "purging" -> proc.todo
      [] OTHER -> rec[proc.sub]
Busy(s) == proc.pc # "idle" /\ proc.sub = s
RecordInv ==
    /\ clean.pc = "idle"
    /\ \A s \in Subs : phase[s] = "none" => rec[s] = {}
    /\ proc.pc = "prune" => phase[proc.sub] # "none"
    /\ proc.pc \in {"prune", "purging"} => proc.todo \subseteq rec[proc.sub]
    /\ \A s \in Subs : Owned(s) \subseteq IF Busy(s) THEN Covered ELSE rec[s]

\* A unit leaves a SubscriptionStatus only once the object is gone (or is not
\* the subscription's any more): what fails to be deleted stays on record.
RecordKept ==
    [][\A s \in Subs : \A r \in Resources \ Keep :
            r \in rec[s] /\ host'[r] = s => r \in rec'[s]]_vars

\* An object is taken away from the subscription that hosts it only by a call
\* made for that subscription, or by one whose reconcile option lets it own
\* the object.
NotTaken ==
    [][\A r \in Resources : host'[r] # host[r] /\ host[r] # Absent =>
            \/ proc.sub = host[r] /\ proc.pc \in {"prune", "purging"}
            \/ proc.pc = "apply" /\ Option[proc.sub] = "own" /\ host'[r] = proc.sub
            \/ clean.pc = "delete" /\ clean.sub = host[r] /\ r \notin Keep]_vars

\* A list that is applied never deletes what is on it, as long as the
\* Subscription exists.
KeepsListed ==
    [][proc.pc = "prune" /\ Exists(proc.sub)
            => \A r \in proc.list : host[r] = proc.sub => host'[r] = proc.sub]_vars

\* When the SubscriptionStatus of an existing Subscription is written as
\* Deployed, every object of the list is on the cluster (stated for
\* behaviours without a pause, which lets applyTemplate do nothing).
DeployedIsThere ==
    [][\A s \in Subs : proc.sub = s /\ proc'.pc = "report" /\ proc.pc # "report"
                       /\ Exists(s) /\ phase'[s] = "Deployed"
            => \A r \in proc.list : host[r] # Absent]_vars

\* Whatever is on record for a subscription that is gone is deleted in the
\* end, by the purge or, after a restart, by cleanup.
Collected ==
    \A s \in Subs : <>[](~Exists(s)) => <>[](rec[s] \cap Owned(s) = {})

\* A subscription that is left alone ends up with what its source describes,
\* nothing more, and with a status that says so, unless an object was lost
\* from the records (what a crash may do, and what Accounted rules out).
Settled(s) ==
    /\ Owned(s) = want[s] \ Keep /\ rec[s] = want[s]
    /\ phase[s] = "Deployed" /\ report[s] = "deployed"
Converges ==
    \A s \in Subs : <>[](sub[s] = "active" /\ want[s] # {} /\ Accounted) => <>[]Settled(s)
=============================================================================
