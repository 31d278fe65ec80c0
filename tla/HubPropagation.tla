--------------------------- MODULE HubPropagation ---------------------------
(***************************************************************************)
(* The hub's subscription controller (pkg/controller/mcmhub): how one       *)
(* worker turns Subscriptions and placement decisions into ManifestWorks,   *)
(* one per target cluster, when users edit both at any step, calls fail,    *)
(* and a request comes back only if something queues it again.  The Git     *)
(* connection and the Ansible hooks appear by the ways they end.            *)
(***************************************************************************)
EXTENDS Naturals, FiniteSets

CONSTANTS
    Subs,        \* the Subscriptions of the hub
    Clusters,    \* the managed clusters
    Label,       \* Label[s]: the hosting label of s, cut off at 63 characters
    AppSpecs,    \* what a user may ask for: records [place, source]
    Faults,      \* which calls may fail
    MaxEdits,    \* bound on what users do
    MaxFaults    \* bound on the failures of one behaviour

Places == {"remote", "local", "missing", "both"}
\* The source describes resources, none, or is not looked at on the hub.
Sources == {"some", "empty", "skip"}
FaultKinds == {"get", "branch", "hooks", "prehooks", "running", "checkhooks",
               "resources", "clusters", "report", "list", "create", "expire",
               "cleanup", "update", "patch"}
\* Status.Phase with Status.Reason: any other than the first two is PropagationFailed.
Statuses == {"none", "Propagated", "placement", "channel", "branch", "hooks",
             "prehooks", "resources", "clusters", "report", "expire"}

ASSUME ConstantsAssumption ==
    /\ Subs # {}
    /\ AppSpecs \subseteq [place: Places, source: Sources]
    /\ Faults \subseteq FaultKinds
    /\ MaxEdits \in Nat /\ MaxFaults \in Nat

VARIABLES
    app,        \* app[s]: the Subscription
    decision,   \* decision[s]: the clusters its placement decides on
    channel,    \* whether the Channel exists
    status,     \* status[s]: phase and reason of the Subscription
    works,      \* works[c][s]: the version in the ManifestWork of s for c, 0 = none
    pending,    \* pending[s]: requests in the work queue, "now" or after a delay
    proc,       \* the reconcile in progress
    swallowed,  \* history: did the last reconcile of s meet a failure it only logs?
    edits, faults

vars == <<app, decision, channel, status, works, pending, proc, swallowed, edits, faults>>

NoApp == [place |-> "gone", source |-> "some", version |-> 0, meta |-> {}]
Exists(s) == app[s].place # "gone"

\* A reconcile of s at label, that has read a as the Subscription and st as its
\* status, means to leave new as the status and to delete the works doomed.
Reconciling(label, s, a, st, new, doomed) ==
    [pc |-> label, sub |-> s, snap |-> a, old |-> st, new |-> new, exit |-> "normal",
     meta |-> {}, todo |-> {}, fam |-> {}, doomed |-> doomed, err |-> "no"]

Idle(s) == Reconciling("idle", s, NoApp, "none", "none", {})
Done == Idle(proc.sub)

\* What a user asks for, as version v of the Subscription.
Version(a, v, meta) == [place |-> a.place, source |-> a.source, version |-> v, meta |-> meta]

\* The controller starts: the watch queues every Subscription there is.
Init ==
    /\ app \in [Subs -> {NoApp} \cup {Version(a, 1, {}) : a \in AppSpecs}]
    /\ decision = [s \in Subs |-> Clusters]
    /\ channel = "present"
    /\ status = [s \in Subs |-> "none"]
    /\ works = [c \in Clusters |-> [s \in Subs |-> 0]]
    /\ pending = [s \in Subs |-> IF Exists(s) THEN {"now"} ELSE {}]
    /\ proc = Idle(CHOOSE s \in Subs : TRUE)
    /\ swallowed = [s \in Subs |-> "no"]
    /\ edits = 0 /\ faults = 0

Fail(f) == f \in Faults /\ faults < MaxFaults /\ faults' = faults + 1
Ok == UNCHANGED faults
Edit == edits < MaxEdits /\ edits' = edits + 1
Swallow == swallowed' = [swallowed EXCEPT ![proc.sub] = "yes"]

----------------------------------------------------------------------------
(* The users, the placement controller and the watches.                     *)

\* A Subscription is created, edited or deleted; the watch queues it.
EditApp(s) ==
    /\ Edit
    /\ \/ /\ \E a \in AppSpecs : app' = [app EXCEPT ![s] = Version(a, edits + 2, @.meta)]
          /\ UNCHANGED status
       \/ /\ Exists(s)
          /\ app' = [app EXCEPT ![s] = NoApp]
          /\ status' = [status EXCEPT ![s] = "none"]
    /\ pending' = [pending EXCEPT ![s] = @ \cup {"now"}]
    /\ UNCHANGED <<decision, channel, works, proc, swallowed, faults>>

\* (mutant) The mapper drops the request of a Subscription without clusters.
DecidedNone(s) == IF app[s].place \in {"remote", "both"} /\ decision'[s] # {} THEN {"now"} ELSE {}

\* placementDecisionMapper queues the Subscriptions that refer to the placement.
Decided(s) == IF app[s].place \in {"remote", "both"} THEN {"now"} ELSE {}

EditDecision(s) ==
    /\ Edit
    /\ \E d \in SUBSET Clusters \ {decision[s]} : decision' = [decision EXCEPT ![s] = d]
    /\ pending' = [pending EXCEPT ![s] = @ \cup Decided(s)]
    /\ UNCHANGED <<app, channel, status, works, proc, swallowed, faults>>

\* channelMapper queues the Subscriptions of the channel.
EditChannel ==
    /\ Edit
    /\ channel' = IF channel = "present" THEN "absent" ELSE "present"
    /\ pending' = [s \in Subs |-> pending[s] \cup (IF Exists(s) THEN {"now"} ELSE {})]
    /\ UNCHANGED <<app, decision, status, works, proc, swallowed, faults>>

\* The delay of a request that was put back is over.
Timer(s) ==
    /\ "later" \in pending[s]
    /\ pending' = [pending EXCEPT ![s] = (@ \ {"later"}) \cup {"now"}]
    /\ UNCHANGED <<app, decision, channel, status, works, proc, swallowed, edits, faults>>

----------------------------------------------------------------------------
(* Reconcile, up to the decision what to do with the Subscription.          *)

Outside == <<app, decision, channel, edits>>    \* what the worker never changes

\* The works that cleanupManifestWork lists: those with the label of s.
Labelled(s) == {w \in Clusters \X Subs : works[w[1]][w[2]] # 0 /\ Label[w[2]] = Label[s]}

Reconcile(s) ==
    /\ proc.pc = "idle" /\ "now" \in pending[s]
    /\ swallowed' = [swallowed EXCEPT ![s] = "no"]
    /\ \/ /\ Fail("get")
          /\ pending' = [pending EXCEPT ![s] = (@ \ {"now"}) \cup {"later"}]
          /\ UNCHANGED proc
       \/ /\ Ok
          /\ pending' = [pending EXCEPT ![s] = @ \ {"now"}]
          /\ proc' = CASE app[s].place \in {"gone", "local"} ->
                            Reconciling("cleanup", s, app[s], status[s], status[s], Labelled(s))
                       [] app[s].place \in {"missing", "both"} ->
                            Reconciling("final", s, app[s], status[s], "placement", {})
                       [] app[s].place = "remote" ->
                            Reconciling("register", s, app[s], status[s], status[s], {})
    /\ UNCHANGED <<Outside, status, works>>

\* cleanupManifestWork: the first failure ends it, and is only logged.
Cleanup ==
    /\ proc.pc = "cleanup"
    /\ \/ /\ proc.doomed = {}
          /\ proc' = Done
          /\ Ok /\ UNCHANGED <<works, swallowed>>
       \/ \E w \in proc.doomed :
          /\ works' = [works EXCEPT ![w[1]][w[2]] = 0]
          /\ proc' = [proc EXCEPT !.doomed = @ \ {w}]
          /\ Ok /\ UNCHANGED swallowed
       \/ /\ proc.doomed # {} /\ Fail("cleanup") /\ Swallow
          /\ proc' = Done
          /\ UNCHANGED works
    /\ UNCHANGED <<Outside, status, pending>>

\* The channel, the Git branch and the hooks of the Subscription.  Jobs that are
\* still running or cannot be looked at go into the topology annotation, and a
\* failure to look at them ends the reconcile without a trace in the status.
Register ==
    LET Leave(st, ex, mt) ==
            proc' = [proc EXCEPT !.pc = "final", !.new = st, !.exit = ex, !.meta = mt]
    IN  /\ proc.pc = "register"
        /\ \/ channel = "absent" /\ Ok /\ Leave("channel", "normal", {}) /\ UNCHANGED swallowed
           \/ /\ channel = "present" /\ UNCHANGED swallowed
              /\ \/ Fail("branch") /\ Leave("branch", "branch", {})
                 \/ Fail("hooks") /\ Leave("hooks", "prehook", {})
                 \/ Fail("prehooks") /\ Leave("prehooks", "prehook", {})
                 \/ Fail("running") /\ Leave("prehooks", "prehook", {"topo"})
                 \/ Ok /\ proc' = [proc EXCEPT !.pc = "fetch"]
           \/ /\ channel = "present" /\ Fail("checkhooks") /\ Swallow
              /\ Leave(proc.old, "normal", {"topo"})
        /\ UNCHANGED <<Outside, status, works, pending>>

----------------------------------------------------------------------------
(* doMCMHubReconcile and PropagateAppSubManifestWork.                       *)

\* (mutant) The works are kept with their names, where clusters are looked up.
FamilyNamed(s) == {<<c, s>> : c \in {d \in Clusters : works[d][s] # 0}}

\* getManifestWorkFamily: label and name of the work.
Family(s) == {c \in Clusters : works[c][s] # 0}

\* The labels are set, the resources looked up, the clusters read, the report
\* created, and the works of the Subscription listed.  The list may fail, or
\* come from a cache that lags behind.
DoMCMHubReconcile ==
    LET s == proc.sub
        Leave(st) == proc' = [proc EXCEPT !.pc = "final", !.new = st, !.meta = {"labels"}]
        Go(fam) == proc' = [proc EXCEPT !.pc = "create", !.meta = {"labels"},
                                        !.todo = decision[s], !.fam = fam]
    IN  /\ proc.pc = "fetch"
        /\ \/ /\ channel = "absent" /\ Ok /\ UNCHANGED swallowed
              /\ proc' = [proc EXCEPT !.pc = "final", !.new = "channel"]
           \/ /\ proc.snap.source = "empty" /\ channel = "present" /\ Ok
              /\ Leave("Propagated") /\ UNCHANGED swallowed
           \/ /\ proc.snap.source # "skip" /\ channel = "present" /\ UNCHANGED swallowed
              /\ Fail("resources") /\ Leave("resources")
           \/ /\ proc.snap.source # "empty" /\ channel = "present" /\ UNCHANGED swallowed
              /\ \/ Fail("clusters") /\ Leave("clusters")
                 \/ proc.snap.source = "some" /\ Fail("report") /\ Leave("report")
                 \/ Ok /\ Go(Family(s))
           \/ /\ proc.snap.source # "empty" /\ channel = "present"
              /\ Fail("list") /\ Swallow
              /\ \E fam \in SUBSET Family(s) : Go(fam)
        /\ UNCHANGED <<Outside, status, works, pending>>

\* createManifestWork for one cluster.  After a failure the map of the family
\* is lost: a work that exists is created again in vain, and none expires.
CreateManifestWork ==
    LET s == proc.sub
    IN  /\ proc.pc = "create"
        /\ \E c \in proc.todo :
           \/ /\ c \in proc.fam \/ works[c][s] = 0
              /\ Ok /\ UNCHANGED swallowed
              /\ works' = [works EXCEPT ![c][s] = proc.snap.version]
              /\ proc' = [proc EXCEPT !.todo = @ \ {c}, !.fam = @ \ {c}]
           \/ /\ IF c \notin proc.fam /\ works[c][s] # 0 THEN Ok ELSE Fail("create")
              /\ Swallow /\ UNCHANGED works
              /\ proc' = [proc EXCEPT !.todo = @ \ {c}, !.fam = {}]
        /\ UNCHANGED <<Outside, status, pending>>

\* The works left in the map are deleted; only the last error is returned.
ExpireManifestWork ==
    LET s == proc.sub
    IN  /\ proc.pc = "create" /\ proc.todo = {}
        /\ \/ \E c \in proc.fam :
              \/ /\ Ok /\ works' = [works EXCEPT ![c][s] = 0]
                 /\ proc' = [proc EXCEPT !.fam = @ \ {c}, !.err = "no"]
                 /\ IF proc.err = "yes" THEN Swallow ELSE UNCHANGED swallowed
              \/ /\ Fail("expire") /\ UNCHANGED <<works, swallowed>>
                 /\ proc' = [proc EXCEPT !.fam = @ \ {c}, !.err = "yes"]
           \/ /\ proc.fam = {} /\ Ok /\ UNCHANGED <<works, swallowed>>
              /\ proc' = [proc EXCEPT !.pc = "final",
                                      !.new = IF proc.err = "yes" THEN "expire" ELSE "Propagated"]
        /\ UNCHANGED <<Outside, status, pending>>

----------------------------------------------------------------------------
(* finalCommit.                                                             *)

Later(s) == pending' = [pending EXCEPT ![s] = @ \cup {"later"}]
\* IsSubscriptionBasicChanged, which a failed Git connection comes before.
BasicChanged == ~(proc.meta \subseteq proc.snap.meta) /\ proc.exit # "branch"

\* Labels and annotations are written back, unless the Subscription has changed
\* since it was read; the status waits for the next round.
CommitMeta ==
    LET s == proc.sub
    IN  /\ proc.pc = "final" /\ BasicChanged
        /\ \/ /\ app[s] = proc.snap /\ Ok
              /\ app' = [app EXCEPT ![s].meta = @ \cup proc.meta]
              /\ pending' = [pending EXCEPT ![s] = @ \cup {"now", "later"}]
           \/ /\ IF app[s] = proc.snap THEN Fail("update") ELSE Ok
              /\ Later(s) /\ UNCHANGED app
        /\ proc' = Done
        /\ UNCHANGED <<decision, channel, status, works, swallowed, edits>>

\* (mutant) The status is patched whether it has changed or not.
StatusAlways == TRUE

\* IsHubRelatedStatusChanged.
StatusChanged == proc.new # proc.old

\* The status is patched if it has changed; the request is put back after a
\* patch, but not when the Git connection failed, nor when nothing changed.
CommitStatus ==
    LET s == proc.sub
    IN  /\ proc.pc = "final" /\ ~BasicChanged
        /\ \/ /\ StatusChanged /\ Ok
              /\ status' = IF Exists(s) THEN [status EXCEPT ![s] = proc.new] ELSE status
              /\ IF proc.exit = "branch" THEN UNCHANGED pending ELSE Later(s)
           \/ /\ StatusChanged /\ Fail("patch") /\ Later(s) /\ UNCHANGED status
           \/ /\ ~StatusChanged /\ Ok /\ UNCHANGED status
              /\ IF proc.exit = "prehook" THEN Later(s) ELSE UNCHANGED pending
        /\ proc' = Done
        /\ UNCHANGED <<Outside, works, swallowed>>

Worker == \/ \E s \in Subs : Reconcile(s)
          \/ Cleanup \/ Register \/ DoMCMHubReconcile \/ CreateManifestWork
          \/ ExpireManifestWork \/ CommitMeta \/ CommitStatus

Next ==
    \/ \E s \in Subs : EditApp(s) \/ EditDecision(s) \/ Timer(s)
    \/ EditChannel \/ Worker

\* The worker keeps working, every request is served, and delays end.
Fairness ==
    /\ WF_vars(Worker)
    /\ \A s \in Subs : SF_vars(Reconcile(s)) /\ WF_vars(Timer(s))

Spec == Init /\ [][Next]_vars
FairSpec == Spec /\ Fairness

----------------------------------------------------------------------------
(* Properties.                                                              *)

AppType == [place: Places \cup {"gone"}, source: Sources, version: Nat, meta: SUBSET {"labels", "topo"}]
ProcType == [pc: {"idle", "cleanup", "register", "fetch", "create", "final"}, sub: Subs,
             snap: AppType, old: Statuses, new: Statuses, exit: {"normal", "branch", "prehook"},
             meta: SUBSET {"labels", "topo"}, todo: SUBSET Clusters,
             fam: SUBSET Clusters, doomed: SUBSET (Clusters \X Subs), err: {"no", "yes"}]

\* The variables keep their types.
TypeOK ==
    /\ app \in [Subs -> AppType] /\ decision \in [Subs -> SUBSET Clusters]
    /\ channel \in {"present", "absent"} /\ status \in [Subs -> Statuses]
    /\ works \in [Clusters -> [Subs -> Nat]]
    /\ pending \in [Subs -> SUBSET {"now", "later"}]
    /\ proc \in ProcType /\ swallowed \in [Subs -> {"no", "yes"}]
    /\ edits \in Nat /\ faults \in Nat

\* Nothing is queued or in progress for s.
Quiet(s) == pending[s] = {} /\ (proc.pc = "idle" \/ proc.sub # s)

\* What the works of s should be.
Placed(s) == \A c \in Clusters :
                works[c][s] = IF c \in decision[s] THEN app[s].version ELSE 0

\* Right(s): what a controller at rest should leave of s.
Right(s) ==
    /\ app[s].place = "remote" /\ app[s].source # "empty" /\ status[s] = "Propagated"
       => Placed(s)
    /\ app[s].place \in {"gone", "local"} => \A c \in Clusters : works[c][s] = 0

\* No edit of a Subscription or of a decision is missed, at whatever step of a
\* reconcile it comes.  When the controller has nothing left to do for a
\* Subscription and says Propagated, every cluster of the decision has the
\* current version and no other cluster has any; of one that was deleted or
\* made local no work is left.  The exception is a last reconcile that met a
\* failure it only logs.
QuietIsRight == \A s \in Subs : Quiet(s) /\ swallowed[s] = "no" => Right(s)

\* How far a reconcile of s has come that saw the current Subscription.
Halfway(s) ==
    /\ proc.snap = app[s] /\ proc.old = status[s]
    /\ proc.pc = "cleanup" <=> app[s].place \in {"gone", "local"}
    /\ proc.pc = "cleanup" => \A c \in Clusters : works[c][s] # 0 => <<c, s>> \in proc.doomed
    /\ proc.pc \in {"register", "fetch", "create"} => app[s].place = "remote"
    /\ proc.pc = "create" =>
        /\ proc.todo \subseteq decision[s]
        /\ \A c \in decision[s] \ proc.todo : works[c][s] = app[s].version /\ c \notin proc.fam
        /\ proc.err = "no" => \A c \in Clusters \ decision[s] : works[c][s] # 0 => c \in proc.fam
    /\ proc.pc = "final" /\ proc.new = "Propagated" /\ app[s].source # "empty"
        => app[s].place = "remote" /\ Placed(s)

\* The step-by-step form of QuietIsRight, and that cleanupManifestWork has
\* listed no work of another Subscription.
HubInv ==
    /\ \A s \in Subs : pending[s] = {} /\ swallowed[s] = "no" =>
          IF proc.pc # "idle" /\ proc.sub = s THEN Halfway(s) ELSE Right(s)
    /\ \A w \in proc.doomed : w[2] = proc.sub

\* A ManifestWork is deleted only by a reconcile of the Subscription it was
\* created for.
CleansOwn ==
    [][\A c \in Clusters, s \in Subs :
            works[c][s] # 0 /\ works'[c][s] = 0 => proc.sub = s]_vars

\* The controller comes to rest: no Subscription is put back for ever.
Quiesces == \A s \in Subs : <>[]Quiet(s)
=============================================================================
