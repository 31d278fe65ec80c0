---------------------------- MODULE GitSubscriber ----------------------------
(***************************************************************************)
(* The Git subscriber of a managed cluster (pkg/subscriber/git): the item   *)
(* it keeps for ONE subscription, the controller worker that calls          *)
(* SubscribeItem and UnsubscribeItem on it, and the polling goroutines that *)
(* Start launches.  Items of different subscriptions share nothing but the  *)
(* synchronizer, whose effect on the cluster is ProcessSubResources and     *)
(* PurgeAllSubscribedResources below (module Synchronizer has their detail).*)
(***************************************************************************)
EXTENDS Integers, FiniteSets

CONSTANTS
    Pollers,     \* identities of the goroutines Start may launch
    Resources,   \* objects that the repository may describe
    Kind,        \* Kind[r]: "file", "kustomize" or "chart"
    Commits,     \* 1..n, the history of the subscribed branch
    Content,     \* Content[c]: the resources that commit c describes
    CRs,         \* the Subscription/Channel settings a user may ask for
    CountLimit,  \* polls between two full reconciles at rate "medium" (6)
    Retries,     \* retries of one subscription attempt
    Faults,      \* which operations may fail
    LateEntry,   \* may Stop overtake the first step of a goroutine?
    MaxUpdates,  \* bound on changes of the Subscription or its Channel
    MaxFaults    \* bound on the failures of one behaviour

VARIABLES
    cr,        \* the Subscription as the API server has it, or NoCR
    request,   \* whether a reconcile request is queued for it
    head,      \* the commit the branch points to
    window,    \* whether the clock is inside the time window
    item,      \* the SubscriberItem, with item.known = it is in itemmap
    th,        \* th[t]: where thread t is
    deployed,  \* what this subscription has on the cluster
    phase,     \* Status.Phase of the Subscription
    lastRun,   \* history: how the last doSubscription returned
    updates, failures

vars == <<cr, request, head, window, item, th, deployed, phase, lastRun,
          updates, failures>>

NoCR == [rate |-> "none"]
NoChan == "nil"
Worker == "worker"
Threads == Pollers \cup {Worker}
Rates == {"off", "low", "medium", "high"}
FaultKinds == {"clone", "sort", "read", "kustomize", "chart", "apply",
               "prune", "purge"}

\* A CR record: reconcile rate, webhook-enabled channel, pause label, pinned
\* commit or tag (0 = the branch head) and manual sync time.
CRType == [rate: Rates, webhook: BOOLEAN, paused: BOOLEAN,
           target: Commits \cup {0}, sync: {0, 1}]

ASSUME ConstantsAssumption ==
    /\ CRs \subseteq CRType
    /\ Commits \subseteq Nat \ {0}
    /\ Content \in [Commits -> SUBSET Resources]
    /\ Kind \in [Resources -> {"file", "kustomize", "chart"}]
    /\ CountLimit \in Nat /\ Retries \in Nat
    /\ MaxUpdates \in Nat /\ MaxFaults \in Nat
    /\ Faults \subseteq FaultKinds /\ LateEntry \in BOOLEAN
    /\ Worker \notin Pollers /\ NoChan \notin Pollers /\ "off" \notin Pollers

FreshItem == [known |-> FALSE, rate |-> "unset", webhook |-> FALSE, paused |-> FALSE,
              target |-> 0, sync |-> 0, commitID |-> 0, successful |-> FALSE,
              count |-> 0, resources |-> {}, stopch |-> NoChan]

Idle == [pc |-> "idle", try |-> 0, cid |-> 0, chan |-> NoChan]

Init ==
    /\ cr = NoCR /\ request = "none"
    /\ head \in Commits /\ \A c \in Commits : head <= c
    /\ window = "open"
    /\ item = FreshItem
    /\ th = [t \in Threads |-> Idle]
    /\ deployed = {} /\ phase = "none" /\ lastRun = "none"
    /\ updates = 0 /\ failures = 0

May(f) == f \in Faults /\ failures < MaxFaults
Goto(t, label) == th' = [th EXCEPT ![t].pc = label]

----------------------------------------------------------------------------
(* The environment: the user, the Git server, the clock.                    *)

\* The user creates, edits or deletes the Subscription or its Channel, and
\* the watch queues a reconcile request.
EditSubscription ==
    /\ updates < MaxUpdates
    /\ \E c \in (CRs \cup {NoCR}) \ {cr} : cr' = c
    /\ request' = "queued"
    /\ phase' = IF cr' = NoCR THEN "none" ELSE phase
    /\ updates' = updates + 1
    /\ UNCHANGED <<head, window, item, th, deployed, lastRun, failures>>

PushCommit ==
    /\ head + 1 \in Commits
    /\ head' = head + 1
    /\ UNCHANGED <<cr, request, window, item, th, deployed, phase, lastRun, updates, failures>>

ClockTick ==
    /\ window' = IF window = "open" THEN "closed" ELSE "open"
    /\ UNCHANGED <<cr, request, head, item, th, deployed, phase, lastRun, updates, failures>>

----------------------------------------------------------------------------
(* The controller worker.                                                   *)

\* (mutant) The channel is made and never stored in the item.
LaunchLosesChannel(it) ==
    \E p \in Pollers :
        /\ th[p].pc = "idle"
        /\ item' = [it EXCEPT !.count = 0]
        /\ th' = [th EXCEPT ![Worker] = Idle, ![p] = [Idle EXCEPT !.pc = "loop", !.chan = p]]

\* Start's second half: a channel is made and either the worker itself runs
\* the subscription (rate "off") or a goroutine is launched.
Launch(it) ==
    IF it.rate = "off"
    THEN /\ item' = [it EXCEPT !.count = 0, !.stopch = "off"]
         /\ th' = [th EXCEPT ![Worker] = [Idle EXCEPT !.pc = "begin"]]
    ELSE \E p \in Pollers :
         /\ th[p].pc = "idle"
         /\ item' = [it EXCEPT !.count = 0, !.stopch = p]
         /\ th' = [th EXCEPT ![Worker] = Idle,
                   ![p] = [Idle EXCEPT !.pc = IF LateEntry THEN "spawned" ELSE "loop",
                                       !.chan = IF LateEntry THEN NoChan ELSE p]]

\* Stop closes the channel; the worker then waits for the goroutines.
Stop(it, cont) ==
    /\ item' = [it EXCEPT !.stopch = NoChan]
    /\ Goto(Worker, cont)

\* Reconcile ends by writing phase Subscribed, whatever the subscription
\* attempts have reported meanwhile, unless the subscription is paused.
Reconciled(ph) == IF cr # NoCR /\ ~cr.paused THEN "Subscribed" ELSE ph

\* The fields SubscribeItem copies from the Subscription and its Channel.
Copied(it) ==
    [it EXCEPT !.known = TRUE, !.rate = cr.rate, !.webhook = cr.webhook,
               !.paused = cr.paused, !.target = cr.target, !.sync = cr.sync,
               !.commitID = IF cr.sync # it.sync /\ ~cr.webhook THEN 0 ELSE @,
               !.successful = IF cr.webhook THEN FALSE ELSE @]

Restart(it) ==
    \/ it.rate = cr.rate /\ cr.rate = "off"
    \/ it.rate # "unset" /\ it.rate # cr.rate
    \/ it.target # cr.target
    \/ it.sync # cr.sync

SubscribeItem ==
    /\ th[Worker].pc = "idle" /\ request = "queued" /\ cr # NoCR
    /\ request' = "none"
    /\ LET old == IF item.known THEN item ELSE FreshItem
           new == Copied(old)
       IN  CASE cr.webhook ->
                  /\ item' = new
                  /\ th' = [th EXCEPT ![Worker] = [Idle EXCEPT !.pc = "begin"]]
             [] ~cr.webhook /\ old.stopch = NoChan -> Launch(new)
             [] ~cr.webhook /\ old.stopch # NoChan /\ Restart(old) -> Stop(new, "restart")
             [] OTHER -> item' = new /\ UNCHANGED th
    /\ phase' = IF th'[Worker].pc = "idle" THEN Reconciled(phase) ELSE phase
    /\ UNCHANGED <<cr, head, window, deployed, lastRun, updates, failures>>

\* (mutant) The test of the map entry is the wrong way round.
UnsubscribeUnknown ==
    /\ th[Worker].pc = "idle" /\ request = "queued" /\ cr = NoCR
    /\ request' = "none"
    /\ IF ~item.known THEN Stop(item, "purge") ELSE UNCHANGED <<item, th>>
    /\ UNCHANGED <<cr, head, window, deployed, phase, lastRun, updates, failures>>

UnsubscribeItem ==
    /\ th[Worker].pc = "idle" /\ request = "queued" /\ cr = NoCR
    /\ request' = "none"
    /\ IF item.known THEN Stop(item, "purge") ELSE UNCHANGED <<item, th>>
    /\ UNCHANGED <<cr, head, window, deployed, phase, lastRun, updates, failures>>

\* (mutant) Stop does not wait.
NoWait == TRUE

\* ghsi.wg.Wait(): every goroutine of the item has returned.
Joined == \A p \in Pollers : th[p].pc = "idle"

StopReturns ==
    /\ Joined
    /\ \/ /\ th[Worker].pc = "restart"
          /\ Launch(item)
          /\ phase' = IF th'[Worker].pc = "idle" THEN Reconciled(phase) ELSE phase
          /\ UNCHANGED <<deployed, failures>>
       \/ /\ th[Worker].pc = "purge"
          /\ item' = FreshItem
          /\ Goto(Worker, "idle")
          /\ UNCHANGED phase
          /\ \/ deployed' = {} /\ UNCHANGED failures
             \/ /\ May("purge") /\ failures' = failures + 1
                /\ deployed' \in SUBSET deployed
    /\ UNCHANGED <<cr, request, head, window, lastRun, updates>>

----------------------------------------------------------------------------
(* A polling goroutine: wait.Until with the channel it was handed.           *)

\* The goroutine evaluates ghsi.stopch only when it first runs.
Enter(p) ==
    /\ th[p].pc = "spawned"
    /\ th' = [th EXCEPT ![p].pc = "loop", ![p].chan = item.stopch]
    /\ UNCHANGED <<cr, request, head, window, item, deployed, phase, lastRun, updates, failures>>

\* (mutant) The goroutine polls until its item is replaced.
ClosedUnknown(p) == th[p].chan # NoChan /\ ~item.known

Closed(p) == th[p].chan # NoChan /\ item.stopch # th[p].chan

Poll(p) ==
    /\ th[p].pc = "loop" /\ ~Closed(p)
    /\ window = "open" /\ ~item.paused
    /\ th' = [th EXCEPT ![p].pc = "begin", ![p].try = 0]
    /\ UNCHANGED <<cr, request, head, window, item, deployed, phase, lastRun, updates, failures>>

Exit(p) ==
    /\ th[p].pc = "loop" /\ Closed(p)
    /\ th' = [th EXCEPT ![p] = Idle]
    /\ UNCHANGED <<cr, request, head, window, item, deployed, phase, lastRun, updates, failures>>

----------------------------------------------------------------------------
(* doSubscription, run by the worker or by a goroutine.                      *)

\* Where a thread goes once doSubscriptionWithRetries is over.
Rest(t) == IF t = Worker THEN "idle" ELSE "loop"

\* The tail of one attempt: the phase is recorded, and the attempt is
\* repeated while it was not successful and retries remain.
EndAttempt(t, it, ok) ==
    LET again == ~it.successful /\ th[t].try < Retries
        ph    == IF cr = NoCR THEN "none" ELSE IF ok THEN "Subscribed" ELSE "Failed"
    IN  /\ item' = it
        /\ lastRun' = IF ok THEN "ok" ELSE "failed"
        /\ phase' = IF t = Worker /\ ~again THEN Reconciled(ph) ELSE ph
        /\ th' = IF again
                 THEN [th EXCEPT ![t].pc = "begin", ![t].try = @ + 1]
                 ELSE [th EXCEPT ![t].pc = Rest(t), ![t].try = 0, ![t].cid = 0]

Begin(t) ==
    /\ th[t].pc = "begin"
    /\ item' = [item EXCEPT !.successful = FALSE]
    /\ Goto(t, "fetch")
    /\ UNCHANGED <<cr, request, head, window, deployed, phase, lastRun, updates, failures>>

\* Resources of kind k among those of commit c.
OfKind(c, k) == {r \in Content[c] : Kind[r] = k}

\* (mutant) What was collected before the failed build is kept.
BuildFailedKeeps(f) == [rs |-> f.rs, errs |-> f.errs + 1]

\* A failed kustomize build empties the list.
BuildFailed(f) == [rs |-> {}, errs |-> f.errs + 1]

\* What the three collecting passes may leave in ghsi.resources, with the
\* number of passes that failed: a failed read ends the pass early, a failed
\* kustomize build empties the list, a failed chart ends its pass early.
Collected(c) ==
    LET F == OfKind(c, "file")
        K == OfKind(c, "kustomize")
        H == OfKind(c, "chart")
        files == {[rs |-> F, errs |-> 0]} \cup
                 (IF "read" \in Faults
                  THEN {[rs |-> S, errs |-> 1] : S \in SUBSET F \ {F}} ELSE {})
        kusts == {[rs |-> f.rs \cup K, errs |-> f.errs] : f \in files} \cup
                 (IF "kustomize" \in Faults /\ K # {}
                  THEN {BuildFailed(f) : f \in files} ELSE {})
    IN  {[rs |-> k.rs \cup H, errs |-> k.errs] : k \in kusts} \cup
        (IF "chart" \in Faults
         THEN {[rs |-> k.rs \cup S, errs |-> k.errs + 1] :
                  k \in kusts, S \in SUBSET H \ {H}} ELSE {})

\* (mutant) Once something is deployed the cached clone is used again.
WantedCached == IF item.target # 0 THEN item.target
                ELSE IF item.commitID # 0 THEN item.commitID ELSE head

\* The commit that cloneGitRepo checks out.
Wanted == IF item.target = 0 THEN head ELSE item.target

\* The comparison of commits at rate "medium".
Unchanged(it, c) ==
    /\ it.rate = "medium" /\ it.commitID # 0 /\ it.count < CountLimit
    /\ c = it.commitID /\ it.successful

\* (mutant) The counter restarts one too low.
CountedFromMinusOne(it) ==
    IF it.rate = "medium" THEN [it EXCEPT !.count = IF @ + 1 >= CountLimit THEN -1 ELSE @ + 1] ELSE it

\* ghsi.count++, and the reset at the limit (the counter saturates at the
\* limit, from where the code's comparison cannot tell larger values).
Counted(it) ==
    IF it.rate # "medium" THEN it
    ELSE [it EXCEPT !.count = IF it.commitID # 0 /\ @ + 1 >= CountLimit THEN 0
                              ELSE IF @ < CountLimit THEN @ + 1 ELSE @]

Fetch(t) ==
    /\ th[t].pc = "fetch"
    /\ \/ /\ May("clone") /\ failures' = failures + 1
          /\ EndAttempt(t, [item EXCEPT !.successful = FALSE], FALSE)
       \/ LET it == Counted(item)
          IN  \/ /\ Unchanged([item EXCEPT !.count = @ + 1], Wanted)
                 /\ EndAttempt(t, it, TRUE) /\ UNCHANGED failures
              \/ /\ ~Unchanged([item EXCEPT !.count = @ + 1], Wanted)
                 /\ May("sort") /\ failures' = failures + 1
                 /\ EndAttempt(t, [it EXCEPT !.successful = FALSE, !.resources = {}], FALSE)
              \/ /\ ~Unchanged([item EXCEPT !.count = @ + 1], Wanted)
                 /\ \E col \in Collected(Wanted) :
                    /\ failures + col.errs <= MaxFaults
                    /\ failures' = failures + col.errs
                    /\ LET got == [it EXCEPT !.resources = col.rs,
                                             !.successful = IF col.errs > 0 THEN FALSE ELSE @]
                       IN  IF got.resources = {} /\ ~got.successful
                           THEN EndAttempt(t, got, FALSE)
                           ELSE /\ item' = got
                                /\ th' = [th EXCEPT ![t].pc = "apply", ![t].cid = Wanted]
                                /\ UNCHANGED <<phase, lastRun>>
    /\ UNCHANGED <<cr, request, head, window, deployed, updates>>

\* (mutant) The commit recorded is the one the branch points to by now.
RecordedHead(t) == [item EXCEPT !.commitID = head, !.resources = {}, !.successful = TRUE]

\* The item after a successful attempt.
Recorded(t) == [item EXCEPT !.commitID = th[t].cid, !.resources = {}, !.successful = TRUE]

\* ProcessSubResources: the list is applied and whatever was deployed but is
\* not on the list is deleted (an empty list thus purges).  A failure may
\* leave any part of both undone; an object that could not be deleted is not
\* a failure of the call.
Apply(t) ==
    /\ th[t].pc = "apply"
    /\ \/ /\ \/ deployed' = item.resources /\ UNCHANGED failures
             \/ /\ May("prune") /\ failures' = failures + 1
                /\ \E kept \in SUBSET (deployed \ item.resources) :
                      deployed' = item.resources \cup kept
          /\ EndAttempt(t, Recorded(t), TRUE)
       \/ /\ May("apply") /\ item.resources # {} /\ failures' = failures + 1
          /\ \E done \in SUBSET item.resources, gone \in SUBSET (deployed \ item.resources) :
                deployed' = (deployed \ gone) \cup done
          /\ EndAttempt(t, [item EXCEPT !.successful = FALSE], FALSE)
    /\ UNCHANGED <<cr, request, head, window, updates>>

DoSubscription(t) == Begin(t) \/ Fetch(t) \/ Apply(t)

Next ==
    \/ EditSubscription \/ PushCommit \/ ClockTick
    \/ SubscribeItem \/ UnsubscribeItem \/ StopReturns
    \/ \E p \in Pollers : Enter(p) \/ Poll(p) \/ Exit(p)
    \/ \E t \in Threads : DoSubscription(t)

\* The worker serves its queue and every goroutine keeps being scheduled.
Fairness ==
    /\ WF_vars(SubscribeItem \/ UnsubscribeItem \/ StopReturns)
    /\ \A p \in Pollers : WF_vars(Enter(p) \/ Poll(p) \/ Exit(p))
    /\ \A t \in Threads : WF_vars(DoSubscription(t))

Spec == Init /\ [][Next]_vars
FairSpec == Spec /\ Fairness

----------------------------------------------------------------------------
(* Properties.                                                              *)

Attempting == {"begin", "fetch", "apply"}
Labels == {"idle", "spawned", "loop", "restart", "purge"} \cup Attempting

ItemType == [known: BOOLEAN, rate: Rates \cup {"unset"}, webhook: BOOLEAN,
             paused: BOOLEAN, target: Commits \cup {0}, sync: {0, 1},
             commitID: Commits \cup {0}, successful: BOOLEAN, count: Nat,
             resources: SUBSET Resources, stopch: Pollers \cup {NoChan, "off"}]
ThType == [pc: Labels, try: Nat, cid: Commits \cup {0},
           chan: Pollers \cup {NoChan, "off"}]

\* The variables keep their types.
TypeOK ==
    /\ cr \in CRs \cup {NoCR} /\ request \in {"none", "queued"}
    /\ head \in Commits /\ window \in {"open", "closed"}
    /\ item \in ItemType
    /\ th \in [Threads -> ThType]
    /\ deployed \in SUBSET Resources
    /\ phase \in {"none", "Subscribed", "Failed"} /\ lastRun \in {"none", "ok", "failed"}
    /\ updates \in Nat /\ failures \in Nat

Live(p) == th[p].pc # "idle"

\* The inductive invariant behind the two safety properties below.  At most
\* one goroutine of the item is alive; while the worker is between calls it
\* is the one whose channel the item holds; while the worker itself runs the
\* subscription there is none; and an item that is not in itemmap has neither
\* a goroutine nor a channel.
WorkerOK == th[Worker].pc \in {"idle", "restart", "purge"} \cup Attempting
PollerOK == \A p \in Pollers : th[p].pc \in {"idle", "spawned", "loop"} \cup Attempting
OnePoller == \A p, q \in Pollers : Live(p) /\ Live(q) => p = q
WorkerAlone == th[Worker].pc \in Attempting => \A p \in Pollers : ~Live(p)
ChannelHeld == th[Worker].pc = "idle" => \A p \in Pollers : Live(p) => item.stopch = p
Unknown == ~item.known =>
    /\ th[Worker].pc = "idle" /\ item.stopch = NoChan
    /\ \A p \in Pollers : ~Live(p)
SubscriberInv == WorkerOK /\ PollerOK /\ OnePoller /\ WorkerAlone /\ ChannelHeld /\ Unknown

\* Start's promise: no two threads are inside doSubscription of the same item
\* ("ensuring no two goroutines race on shared SubscriberItem fields").
OneSubscriber ==
    \A s, t \in Threads :
        th[s].pc \in Attempting /\ th[t].pc \in Attempting => s = t

\* UnsubscribeItem's promise: once the item is gone from itemmap nothing of
\* the subscription is on the cluster, and no late poll puts it back.
GoneStaysGone == ~item.known => deployed = {}

\* When the last attempt was reported as a success, the cluster has exactly
\* what the recorded commit describes.
DeployedIsCommit ==
    lastRun = "ok" /\ item.known /\ item.commitID # 0
        => deployed = Content[item.commitID]

\* A deployed resource that the fetched commit still describes is never
\* deleted by a subscription attempt, however the attempt fails.
KeepsWanted ==
    [][\A t \in Threads : th[t].pc = "apply" /\ th'[t].pc # "apply"
            => \A r \in deployed \ deployed' : r \notin Content[th[t].cid]]_vars

\* A polled subscription that is left alone ends up with what the branch head
\* (or the pinned commit) describes.
Polled == /\ cr # NoCR
          /\ cr.rate # "off" /\ ~cr.webhook /\ ~cr.paused
Converges ==
    <>[](Polled /\ window = "open")
        => <>[](Polled => deployed = Content[IF cr.target = 0 THEN head ELSE cr.target])

\* A deleted subscription is unsubscribed in the end, whatever was going on
\* (and by GoneStaysGone it is then off the cluster).
Removed == <>[](cr = NoCR) => <>[](~item.known)

\* Stop returns: it waits for the current attempt only.
StopEnds == \A w \in {"restart", "purge"} :
                th[Worker].pc = w ~> th[Worker].pc # w
=============================================================================
