------------------------------ MODULE HubHooks ------------------------------
(***************************************************************************)
(* The hub's Git watcher (hub_git.go) and Ansible hooks (hook.go,           *)
(* ansiblejob.go) around the reconcile of one Git Subscription: the watcher *)
(* clones every registered revision in turn and annotates the Subscription  *)
(* with a new commit, the reconcile registers the hooks of the clone,       *)
(* creates their AnsibleJobs, waits for them, propagates, and creates the   *)
(* post hooks' jobs once the clusters report.  Users, the placement         *)
(* controller, Ansible and the watcher move between any two of its steps.   *)
(***************************************************************************)
EXTENDS Naturals, Sequences, FiniteSets, SequencesExt

CONSTANTS
    Refs,        \* the revisions a Subscription may name, numbered 1, 2, ...
    Pinned,      \* those of them that are tags or commits, and do not move
    MaxCommits,  \* bound on the commits of the repository
    Pre, Post,   \* the AnsibleJob templates of the two hook folders
    Hooks,       \* Hooks[c]: the templates in commit c
    Clusters,    \* the managed clusters
    ByCount,     \* "yes": a Placement, which tells only how many clusters it selects
    Edits,       \* what users may do
    Faults,      \* which calls may fail
    MaxEdits, MaxFaults

Templates == Pre \cup Post
EditKinds == {"spec", "sync", "ref", "delete", "decide", "commit"}
FaultKinds == {"clone", "override", "list", "apply", "check", "resources", "update",
               "patch", "annotate", "job", "restart"}

ASSUME ConstantsAssumption ==
    /\ MaxCommits \in Nat /\ MaxEdits \in Nat /\ MaxFaults \in Nat
    /\ Refs \subseteq 1..MaxCommits /\ Pinned \subseteq Refs
    /\ Pre \cap Post = {} /\ IsFiniteSet(Templates) /\ "none" \notin Templates
    /\ Clusters # {}
    /\ Hooks \in [1..MaxCommits -> SUBSET Templates]
    /\ ByCount \in {"yes", "no"}
    /\ Edits \subseteq EditKinds /\ Faults \subseteq FaultKinds

VARIABLES
    head,       \* head[r]: the commit revision r stands for in the remote repository
    sub,        \* the Subscription: revision, generation, manual sync, commit and topo annotations
    placed,     \* the clusters in the status of the placement
    decision,   \* the clusters in its PlacementDecisions, and their resource version
    watched,    \* watched[r]: lastCommitID of r in repoRecords, 0 = r is not registered
    round,      \* the revisions the current GitWatch has still to visit
    dir,        \* the commit in the Subscription's local folder
    registry,   \* the record of the Subscription in AnsibleHooks
    jobs,       \* the AnsibleJobs, oldest first
    status,     \* phase of the Subscription and the last hook jobs it lists
    works,      \* the clusters the Subscription is propagated to
    queue,      \* requests: 0, or the resource version of a PlacementDecision
    proc,       \* the reconcile in progress
    lost,       \* history: did a call fail that nothing repeats?
    edits, faults

vars == <<head, sub, placed, decision, watched, round, dir, registry, jobs, status,
          works, queue, proc, lost, edits, faults>>

\* What the reconcile never changes.
Outside == <<head, placed, decision, edits>>

\* A job in the registry: its template, its name (template, generation and tag)
\* and its target_clusters.  Unset has no entry, Empty an entry without an
\* instance, and Blank the instance of zero values registryAnsibleJob starts from.
Job(t, gen, kind, n, cs) == [tpl |-> t, gen |-> gen, tag |-> <<kind, n>>, clusters |-> cs]
Unset == Job("none", 0, "unset", 0, {})
Empty == Job("none", 0, "empty", 0, {})
Blank == Job("none", 0, "blank", 0, {})
HasInstance(i) == i \notin {Unset, Empty}
Name(i) == <<i.tpl, i.gen, i.tag>>

Gone == [ref |-> 0, gen |-> 0, sync |-> 0, note |-> 0, fake |-> "no", topo |-> {}]
Exists == sub # Gone
NoRecord == [on |-> "no", last |-> Gone, inst |-> [t \in Templates |-> Unset]]
NoStatus == [phase |-> "none", pre |-> {}, post |-> {}]

\* The reconcile of request k: snap is the Subscription as read, new as it is
\* to be written; aliased, when the registry keeps new itself as its lastSub.
Reconciling(label, k, s) ==
    [pc |-> label, key |-> k, snap |-> s, new |-> s, phase |-> "none",
     passed |-> "yes", aliased |-> "no", err |-> "no"]
Idle == Reconciling("idle", 0, Gone)

Init ==
    /\ head = [r \in Refs |-> r]
    /\ sub \in {[Gone EXCEPT !.ref = r, !.gen = 1] : r \in Refs}
    /\ placed = {CHOOSE c \in Clusters : TRUE}
    /\ decision = [clusters |-> placed, rv |-> 1]
    /\ watched = [r \in Refs |-> 0] /\ round = {} /\ dir = 0
    /\ registry = NoRecord /\ jobs = <<>> /\ status = NoStatus
    /\ works = {}
    /\ queue = {0} /\ proc = Idle
    /\ lost = "no" /\ edits = 0 /\ faults = 0

Fail(f) == f \in Faults /\ faults < MaxFaults /\ faults' = faults + 1
Ok == UNCHANGED faults
Edit(e) == e \in Edits /\ edits < MaxEdits /\ edits' = edits + 1
Lose == lost' = "yes"
Keep == UNCHANGED lost

----------------------------------------------------------------------------
(* Users, the placement controller and Ansible.                             *)

Inside == <<watched, round, dir, registry, status, works, proc, lost>>

EditSub ==
    /\ Exists
    /\ \/ Edit("spec") /\ sub' = [sub EXCEPT !.gen = @ + 1] /\ UNCHANGED jobs
       \/ Edit("sync") /\ sub' = [sub EXCEPT !.sync = edits + 1] /\ UNCHANGED jobs
       \/ Edit("ref") /\ UNCHANGED jobs
          /\ \E r \in Refs \ {sub.ref} : sub' = [sub EXCEPT !.ref = r]
       \/ Edit("delete") /\ sub' = Gone /\ jobs' = <<>>
    /\ queue' = queue \cup {0}
    /\ UNCHANGED <<Inside, head, placed, decision, faults>>

\* A push to a branch.
Push(r) ==
    /\ Edit("commit") /\ r \notin Pinned
    /\ LET c == Max(Range(head)) + 1
       IN  c <= MaxCommits /\ head' = [head EXCEPT ![r] = c]
    /\ UNCHANGED <<Inside, sub, placed, decision, jobs, queue, faults>>

\* The placement controller decides, and later writes its PlacementDecisions.
Decide ==
    /\ Edit("decide")
    /\ placed' \in SUBSET Clusters \ {placed}
    /\ UNCHANGED <<Inside, head, sub, decision, jobs, queue, faults>>

\* placementDecisionMapper queues a request with the resource version in its name.
Publish ==
    /\ decision.clusters # placed
    /\ decision' = [clusters |-> placed, rv |-> decision.rv + 1]
    /\ queue' = IF Exists THEN queue \cup {decision.rv + 1} ELSE queue
    /\ UNCHANGED <<Inside, head, sub, placed, jobs, edits, faults>>

\* Ansible ends a job; nothing ever replaces one that did not succeed.
EndJob(i) ==
    /\ jobs[i].state = "running"
    /\ \/ Ok /\ Keep /\ jobs' = [jobs EXCEPT ![i].state = "successful"]
       \/ Fail("job") /\ Lose /\ jobs' = [jobs EXCEPT ![i].state = "failed"]
    /\ UNCHANGED <<watched, round, dir, registry, status, works, proc,
                   head, sub, placed, decision, queue, edits>>

\* The hub starts again: what was registered and the reconcile in progress are
\* lost, and the first lists report the Subscription and the PlacementDecisions.
\* The folder may still be there, and is cloned anew before it is read.
Restart ==
    /\ Fail("restart")
    /\ watched' = [r \in Refs |-> 0] /\ round' = {}
    /\ registry' = NoRecord /\ proc' = Idle
    /\ queue' = IF Exists THEN {0, decision.rv} ELSE {}
    /\ UNCHANGED <<Outside, sub, dir, jobs, status, works, lost>>

----------------------------------------------------------------------------
(* The Git watcher.                                                         *)

\* GitWatch takes the lock for a whole round over the registered revisions; a
\* round that would find every commit seen and in the folder is left out.
GitWatch ==
    /\ round = {}
    /\ \E r \in Refs : watched[r] # 0 /\ (watched[r] # head[r] \/ dir # head[r])
    /\ round' = {r \in Refs : watched[r] # 0}
    /\ UNCHANGED <<Outside, sub, watched, dir, registry, jobs, status, works, queue,
                   proc, lost, faults>>

\* (mutant) A new commit is announced only to the first registration.
AnnotatedOnce(r) == sub.note = 0

\* updateCommitAnnotation writes the new commit with a suffix, to be told apart
\* from the commit the reconcile writes.
Annotated(r) == Exists

\* One revision of the round: it is cloned whether it changed or not, into the
\* folder of the Subscription.  The commit counts as seen before the
\* Subscription is annotated, so that a failed annotation is not repeated.
WatchRef(r) ==
    /\ r \in round
    /\ round' = round \ {r}
    /\ \/ /\ Fail("clone") /\ Keep
          /\ UNCHANGED <<dir, watched, sub, queue>>
       \/ /\ dir' = head[r]
          /\ watched' = [watched EXCEPT ![r] = head[r]]
          /\ \/ /\ watched[r] = head[r] \/ ~Annotated(r)
                /\ Ok /\ Keep /\ UNCHANGED <<sub, queue>>
             \/ /\ watched[r] # head[r] /\ Annotated(r)
                /\ Ok /\ Keep
                /\ sub' = [sub EXCEPT !.note = head[r], !.fake = "yes"]
                /\ queue' = queue \cup {0}
             \/ /\ watched[r] # head[r] /\ Annotated(r)
                /\ Fail("annotate") /\ Lose /\ UNCHANGED <<sub, queue>>
    /\ UNCHANGED <<Outside, registry, jobs, status, works, proc>>

----------------------------------------------------------------------------
(* Reconcile: the Git connection.                                           *)

\* The watcher's record of the commit of a revision, and no record at all.
GetLatestCommitID(r) == watched[r]
Deregistered == [r \in Refs |-> 0]

\* The AnsibleJob templates in the hook folders of the clone.
GetHooks == IF dir = 0 THEN {} ELSE Hooks[dir]
HasHookFolders == GetHooks # {}

\* The clusters of the decision, sorted by name.
GetClustersByPlacement == decision.clusters

Requeue == queue' = queue \cup {proc.key}
Step(label) == proc' = [proc EXCEPT !.pc = label]
\* The reconcile goes to finalCommit, with the phase it means to leave.
Finally(phase, passed) == proc' = [proc EXCEPT !.pc = "final", !.phase = phase, !.passed = passed]

\* A Subscription that is gone leaves the hook registry and the watcher.
Reconcile ==
    /\ proc.pc = "idle"
    /\ \E k \in queue :
         /\ queue' = queue \ {k}
         /\ \/ /\ Exists
               /\ proc' = [Reconciling("branch", k, sub) EXCEPT !.phase = status.phase]
               /\ UNCHANGED <<registry, watched, works>>
            \/ /\ ~Exists /\ round = {}
               /\ registry' = NoRecord
               /\ watched' = Deregistered
               /\ works' = {}
               /\ UNCHANGED proc
    /\ UNCHANGED <<head, placed, decision, edits, sub, round, dir, jobs, status, lost, faults>>

\* The jobs that the status and the topo annotation list.
Listed(S) == {Name(i) : i \in {registry.inst[t] : t \in {u \in S : HasInstance(registry.inst[u])}}}

\* The status finalCommit writes: without the post hooks until the pre hooks passed.
HookStatus(phase, passed) ==
    IF registry.on = "no" THEN [status EXCEPT !.phase = phase]
    ELSE [phase |-> phase, pre |-> Listed(Pre), post |-> IF passed = "yes" THEN Listed(Post) ELSE {}]
FinalStatus == HookStatus(proc.phase, proc.passed)

\* RegisterBranch, under the lock.  The revisions registered before stay
\* registered.  A clone that fails is reported, and not retried.
RegisterBranch ==
    /\ proc.pc = "branch" /\ round = {}
    /\ LET r == proc.snap.ref
       IN  \/ /\ Ok /\ Keep
              /\ watched' = [watched EXCEPT ![r] = head[r]]
              /\ dir' = head[r]
              /\ Step("hooks") /\ UNCHANGED <<queue, status>>
           \/ /\ Fail("clone") /\ Lose     \* reported, and nothing queued
              /\ status' = IF Exists THEN HookStatus("branch", "no") ELSE status
              /\ proc' = Idle /\ UNCHANGED <<watched, dir, queue>>
    /\ UNCHANGED <<Outside, sub, round, registry, jobs, works>>

----------------------------------------------------------------------------
(* Reconcile: the registration of the hooks.                                *)

\* IsReadyPlacementDecisionList.
IsReady ==
    /\ decision.clusters # {}
    /\ IF ByCount = "yes" THEN Cardinality(placed) = Cardinality(decision.clusters)
                          ELSE placed = decision.clusters

\* isSubscriptionUpdate: a new generation, tag or target commit, manual sync, or
\* commit annotation, its suffix left out.
IsSubscriptionUpdate(s) ==
    \/ registry.on = "no"
    \/ registry.last.gen # s.gen
    \/ s.ref \in Pinned /\ registry.last.ref # s.ref
    \/ registry.last.sync # s.sync
    \/ registry.last.note # s.note

HasHooks(S) == registry.on = "yes" /\ \E t \in S : registry.inst[t] # Unset
AfterHooks == Step(IF HasHooks(Pre) THEN "apply" ELSE "resources")

\* RegisterSubscription, up to the decision to register.
RegisterSubscription ==
    /\ proc.pc = "hooks"
    /\ IF ~HasHookFolders THEN AfterHooks
       ELSE IF ~IsReady THEN Finally("hooks", "no")
       ELSE IF proc.snap.note # 0 /\ proc.key = 0 /\ ~IsSubscriptionUpdate(proc.snap) THEN AfterHooks
       ELSE Step("registry")
    /\ UNCHANGED <<Outside, sub, watched, round, dir, registry, jobs, status, works,
                   queue, lost, faults>>

\* findLastAnsibleJob.
Of(t) == {i \in DOMAIN jobs : jobs[i].job.tpl = t}
LastJob(t) == jobs[CHOOSE i \in Of(t) : \A j \in Of(t) : j <= i]

\* The job a template stands for now.  A manual sync, once asked for, names
\* every later job of the same generation.
NewJob(t, s, rv) ==
    LET tag == IF s.sync # 0 THEN <<"sync", s.sync>>
               ELSE IF rv # 0 THEN <<"rv", rv>>
               ELSE <<"commit", GetLatestCommitID(s.ref)>>
    IN  Job(t, s.gen, tag[1], tag[2], GetClustersByPlacement)

\* isEqualClusterList, of the last job and the one that would be next.
SameClusters(last, new) == last.clusters = new.clusters

\* (mutant) A job that still runs is replaced.
RegistryAnyJob(t, s, rv) ==
    LET new == NewJob(t, s, rv)
    IN  IF Of(t) = {} \/ LastJob(t).job.clusters # new.clusters THEN new ELSE LastJob(t).job

\* registryAnsibleJob: a new job only when the last one succeeded, has another
\* name, and there is a manual sync or another list of clusters.
RegistryAnsibleJob(t, s, rv) ==
    LET new == NewJob(t, s, rv)
        last == LastJob(t)
    IN  IF Of(t) = {} THEN new
        ELSE IF last.state # "successful" \/ Name(last.job) = Name(new) THEN last.job
        ELSE IF s.sync # 0 \/ ~SameClusters(last.job, new) THEN new
        ELSE last.job

\* registryJobs: without clusters a template is entered and its instances left alone.
Registered(t, s, rv) ==
    IF GetClustersByPlacement # {} THEN RegistryAnsibleJob(t, s, rv)
    ELSE IF registry.inst[t] = Unset THEN Empty ELSE registry.inst[t]

\* Will the request, when it comes back, register again?
Repeated == proc.key # 0 \/ proc.snap.note = 0

\* addHookToRegisitry: the templates of the clone, in some order.  lastSub is
\* set before the first of them, so a failure half way is not made up for.
AddHookToRegistry ==
    /\ proc.pc = "registry"
    /\ LET found == GetHooks
           Enter(S, f) ==
             registry' = [on |-> "yes",
                          last |-> IF found # {} \/ registry.on = "no" THEN proc.snap ELSE registry.last,
                          inst |-> [t \in Templates |-> IF t \in S THEN f[t] ELSE registry.inst[t]]]
           all == [t \in found |-> Registered(t, proc.snap, proc.key)]
           aliased == IF found # {} \/ registry.on = "no" THEN "yes" ELSE "no"
       IN  \/ /\ Ok /\ Keep
              /\ Enter(found, all)
              /\ proc' = [proc EXCEPT !.aliased = aliased,
                            !.pc = IF \E t \in Pre : registry'.inst[t] # Unset THEN "apply" ELSE "resources"]
           \/ /\ found # {} /\ decision.clusters # {}
              /\ Fail("list")
              /\ \E t \in found : /\ Enter(found, [all EXCEPT ![t] = Blank])
                                 /\ IF t \in Post \/ ~Repeated THEN Lose ELSE Keep
              /\ proc' = [proc EXCEPT !.aliased = aliased,
                            !.pc = IF \E t \in Pre : registry'.inst[t] # Unset THEN "apply" ELSE "resources"]
           \/ /\ found # {}
              /\ Fail("override") /\ IF Repeated THEN Keep ELSE Lose
              /\ \E S \in SUBSET found : S # found /\ Enter(S, all)
              /\ proc' = [proc EXCEPT !.aliased = aliased, !.pc = "final", !.phase = "hooks", !.passed = "no"]
    /\ UNCHANGED <<Outside, sub, watched, round, dir, jobs, status, works, queue>>

----------------------------------------------------------------------------
(* Reconcile: the jobs.                                                     *)

Existing(i) == \E n \in DOMAIN jobs : Name(jobs[n].job) = Name(i)
Todo(S) == {i \in {registry.inst[t] : t \in S} : HasInstance(i) /\ ~Existing(i)}
Create(S) == jobs' = jobs \o SetToSeq({[job |-> i, state |-> "running"] : i \in S})

\* applyJobs, for the templates in S: every instance that does not exist is
\* created, up to the first failure, and a Blank one always fails.
ApplyJobs(S, onOk, onError) ==
    \/ /\ ~Exists /\ Ok /\ onOk /\ UNCHANGED jobs
    \/ /\ Exists /\ Blank \notin Todo(S) /\ Ok
       /\ Create(Todo(S)) /\ onOk
    \/ /\ Exists /\ Blank \in Todo(S) /\ Ok
       /\ \E D \in SUBSET (Todo(S) \ {Blank}) : Create(D)
       /\ onError
    \/ /\ Exists /\ \E t \in S : HasInstance(registry.inst[t])
       /\ Fail("apply")
       /\ \E D \in SUBSET (Todo(S) \ {Blank}) : Create(D)
       /\ onError

ApplyPreHooks ==
    /\ proc.pc = "apply"
    /\ ApplyJobs(Pre, Step("check"), Finally("prehook", "no"))
    /\ UNCHANGED <<Outside, sub, watched, round, dir, registry, status, works, queue, lost>>

IsJobDone(i) == \E n \in DOMAIN jobs : Name(jobs[n].job) = Name(i) /\ jobs[n].state = "successful"

\* (mutant) A job that exists counts as done.
JobsCreated(S) == {\A t \in S : HasInstance(registry.inst[t]) => Existing(registry.inst[t])}

\* isJobsCompleted goes through the templates in any order, and is satisfied
\* with the first that has no instance.
JobsCompleted(S) ==
    LET Entered == {t \in S : registry.inst[t] # Unset}
        Without == {t \in Entered : registry.inst[t] = Empty}
        Open == {t \in Entered \ Without : ~IsJobDone(registry.inst[t])}
    IN  {b \in BOOLEAN : IF b THEN Open = {} \/ Without # {} ELSE Open # {}}

IsPreHooksCompleted ==
    /\ proc.pc = "check"
    /\ \/ /\ TRUE \in JobsCompleted(Pre) /\ Ok
          /\ proc' = [proc EXCEPT !.pc = "resources", !.phase = "PreHookSuccessful"]
       \/ /\ FALSE \in JobsCompleted(Pre) /\ Ok
          /\ proc' = [proc EXCEPT !.pc = "final", !.phase = "prehook", !.passed = "no",
                                  !.new.topo = Listed(Pre)]
       \/ /\ Fail("check")
          /\ proc' = [proc EXCEPT !.pc = "final", !.new.topo = Listed(Pre), !.err = "yes"]
    /\ UNCHANGED <<Outside, sub, watched, round, dir, registry, jobs, status, works, queue, lost>>

----------------------------------------------------------------------------
(* Reconcile: resources, propagation and finalCommit.                       *)

\* processRepo lists the resources of the folder; one that cannot be read, parsed,
\* built or rendered fails the whole list.
ProcessRepoFails == Fail("resources")

\* GetGitResources reads the commit from the watcher's records, then the
\* folder, and takes the commit into the Subscription when it differs from the
\* annotation; the registry's lastSub may be the same object.
GetGitResources ==
    /\ proc.pc = "resources"
    /\ \/ /\ Ok
          /\ LET c == GetLatestCommitID(proc.snap.ref)
             IN  /\ proc' = [proc EXCEPT !.pc = "work", !.new.note = c, !.new.fake = "no"]
                 /\ registry' = IF proc.aliased = "yes"
                                THEN [registry EXCEPT !.last.note = c, !.last.fake = "no"]
                                ELSE registry
       \/ /\ ProcessRepoFails
          /\ proc' = [proc EXCEPT !.pc = "final", !.phase = "resources", !.err = "yes"]
          /\ UNCHANGED registry
    /\ UNCHANGED <<Outside, sub, watched, round, dir, jobs, status, works, queue, lost>>

\* PropagateAppSubManifestWork, to the clusters of the decision as it is now.
Propagate ==
    /\ proc.pc = "work"
    /\ works' = GetClustersByPlacement
    /\ Finally("Propagated", "yes")
    /\ UNCHANGED <<head, sub, placed, decision, edits, watched, round, dir, registry, jobs,
                   status, queue, lost, faults>>

\* (mutant) A write that fails is not tried again.
RetryNever == UNCHANGED queue

\* The request comes back after a delay.
Retry == Requeue

\* finalCommit: metadata first, with the lock of the resource version, then the
\* status, and only when neither has changed the post hooks.
FinalCommit ==
    /\ proc.pc = "final"
    /\ \/ /\ proc.new # proc.snap
          /\ \/ sub = proc.snap /\ Ok /\ sub' = proc.new /\ queue' = queue \cup {0, proc.key}
             \/ sub # proc.snap /\ Ok /\ Retry /\ UNCHANGED sub
             \/ Fail("update") /\ Retry /\ UNCHANGED sub
          /\ proc' = Idle /\ Keep /\ UNCHANGED status
       \/ /\ proc.new = proc.snap /\ FinalStatus # status
          /\ \/ Ok /\ status' = (IF Exists THEN FinalStatus ELSE status)
             \/ Fail("patch") /\ UNCHANGED status
          /\ Retry /\ proc' = Idle /\ Keep /\ UNCHANGED sub
       \/ /\ proc.new = proc.snap /\ FinalStatus = status
          /\ Ok /\ UNCHANGED <<sub, status>>
          /\ IF proc.err = "yes" THEN Lose ELSE Keep
          /\ IF proc.passed = "no" THEN Requeue /\ proc' = Idle
             ELSE IF HasHooks(Post) THEN Step("post") /\ UNCHANGED queue
             ELSE proc' = Idle /\ UNCHANGED queue
    /\ UNCHANGED <<Outside, watched, round, dir, registry, jobs, works>>

\* The post hooks: once IsSubscriptionCompleted finds the Subscription propagated
\* and every cluster's report in, which AppReports models and here may take any
\* number of reconciles.  A failure to apply them is only logged.
ApplyPostHooks ==
    /\ proc.pc = "post"
    /\ \/ Ok /\ Keep /\ Requeue /\ proc' = Idle /\ UNCHANGED jobs
       \/ /\ status.phase = "Propagated"
          /\ ApplyJobs(Post, Keep, Lose)
          /\ proc' = Idle /\ UNCHANGED queue
    /\ UNCHANGED <<Outside, sub, watched, round, dir, registry, status, works>>
----------------------------------------------------------------------------

Worker ==
    \/ Reconcile \/ RegisterBranch \/ RegisterSubscription \/ AddHookToRegistry
    \/ ApplyPreHooks \/ IsPreHooksCompleted \/ GetGitResources \/ Propagate
    \/ FinalCommit \/ ApplyPostHooks
Watcher == GitWatch \/ \E r \in Refs : WatchRef(r)
Environment ==
    \/ EditSub \/ Decide \/ Publish \/ Restart
    \/ \E r \in Refs : Push(r)
    \/ \E i \in DOMAIN jobs : EndJob(i)

Next == Worker \/ Watcher \/ Environment
Spec == Init /\ [][Next]_vars

\* The worker and the watcher run, the placement controller publishes and jobs
\* end; every request in the queue is served in its turn, and the
\* mutex lets the worker in between two rounds of the watcher.
FairSpec ==
    /\ Spec
    /\ SF_vars(Worker) /\ WF_vars(Watcher) /\ WF_vars(Publish)
    /\ WF_vars(\E i \in DOMAIN jobs : EndJob(i))
    /\ \A k \in 0..(MaxEdits + 1) : SF_vars(Reconcile /\ k \in queue \ queue')

----------------------------------------------------------------------------
(* Properties.                                                              *)

\* registryAnsibleJob gives a template a new AnsibleJob only when its last one
\* succeeded: no template ever has two jobs that did not, so that two runs of
\* one playbook never overlap, whatever users and placements do meanwhile.
OneUnfinished ==
    \A i, j \in DOMAIN jobs :
        /\ jobs[i].job.tpl = jobs[j].job.tpl
        /\ jobs[i].state # "successful" /\ jobs[j].state # "successful"
        => i = j

\* A Subscription that exists reaches a cluster only in a reconcile that holds no job of a
\* pre hook that has not succeeded, unless a template was registered without a job.
HooksBeforeWork ==
    [][Exists /\ ~(works' \subseteq works) =>
          \/ \E t \in Pre : registry.inst[t] = Empty
          \/ \A t \in Pre : HasInstance(registry.inst[t]) => IsJobDone(registry.inst[t])]_vars

Busy == lost = "yes" \/ ~Exists

\* The watcher and the reconcile together see every push to the revision the
\* Subscription names: its annotation ends up with that commit, without the
\* watcher's suffix, unless a call failed that nothing repeats.
CommitFollowed ==
    <>[](Busy \/ decision.clusters = {} \/ (sub.note = head[sub.ref] /\ sub.fake = "no"))

\* Every pre hook of the commit ends up with a job that ran for exactly the
\* clusters the placement decides on, and the Subscription on those clusters.
\* Left out: post hooks, because one whose last job still runs is not registered
\* for new clusters, and nothing comes back to it; and a manual sync, whose name
\* all later jobs of the same generation keep, so that clusters decided on
\* afterwards get no job.
HooksCatchUp ==
    <>[](\/ Busy \/ decision.clusters = {} \/ sub.sync # 0
         \/ /\ works = decision.clusters
            /\ \A t \in Pre \cap Hooks[head[sub.ref]] :
                 Of(t) # {} /\ LastJob(t).state = "successful" /\ LastJob(t).job.clusters = works)
============================================================================
