------------------------ MODULE HubPropagationProofs ------------------------
(***************************************************************************)
(* Proofs about HubPropagation, for any Subscriptions, clusters, requests,  *)
(* failures and bounds.                                                     *)
(***************************************************************************)
EXTENDS HubPropagation, TLAPS

\* The labels of two Subscriptions differ, which holds as long as namespace and
\* name together keep within 63 characters.
LabelsDiffer == \A s, t \in Subs : Label[s] = Label[t] => s = t

Pcs == {"idle", "cleanup", "register", "fetch", "create", "final"}
Exits == {"normal", "branch", "prehook"}
Metas == SUBSET {"labels", "topo"}
SameStart(q, p) == q.sub = p.sub /\ q.snap = p.snap /\ q.old = p.old

\* The updates of the reconcile in progress, by their shape: what each keeps.
LEMMA DoomedUpdate ==
    ASSUME NEW p \in ProcType, NEW w, NEW q,
           q = [p EXCEPT !.doomed = @ \ {w}]
    PROVE  /\ q \in ProcType /\ SameStart(q, p)
           /\ q.pc = p.pc /\ q.doomed = p.doomed \ {w} /\ q.new = p.new
BY DEF ProcType, SameStart

\* RegisterSubscription succeeded: the reconcile goes on to the works.
LEMMA FetchUpdate ==
    ASSUME NEW p \in ProcType, NEW q,
           q = [p EXCEPT !.pc = "fetch"]
    PROVE  q \in ProcType /\ SameStart(q, p) /\ q.pc = "fetch" /\ q.doomed = p.doomed
BY DEF ProcType, SameStart

\* finalCommit is next, with the status it will write.
LEMMA EndUpdate ==
    ASSUME NEW p \in ProcType, NEW st \in Statuses, NEW q,
           q = [p EXCEPT !.pc = "final", !.new = st]
    PROVE  /\ q \in ProcType /\ SameStart(q, p)
           /\ q.pc = "final" /\ q.new = st /\ q.doomed = p.doomed
BY Zenon DEF ProcType, SameStart

\* createManifestWork took one cluster: it leaves the list and the family.
LEMMA CreateUpdate ==
    ASSUME NEW p \in ProcType, NEW c, NEW q,
           q = [p EXCEPT !.todo = @ \ {c}, !.fam = @ \ {c}]
    PROVE  /\ q \in ProcType /\ SameStart(q, p) /\ q.pc = p.pc /\ q.err = p.err
           /\ q.todo = p.todo \ {c} /\ q.fam = p.fam \ {c} /\ q.doomed = p.doomed
BY Zenon DEF ProcType, SameStart

\* createManifestWork failed for a cluster: the family is returned as nil.
LEMMA LostUpdate ==
    ASSUME NEW p \in ProcType, NEW c, NEW q,
           q = [p EXCEPT !.todo = @ \ {c}, !.fam = {}]
    PROVE  q \in ProcType /\ q.sub = p.sub /\ q.pc = p.pc /\ q.doomed = p.doomed
BY Zenon DEF ProcType, SameStart

\* The loop over expired works took one of them.
LEMMA ExpireUpdate ==
    ASSUME NEW p \in ProcType, NEW c, NEW e \in {"no", "yes"}, NEW q,
           q = [p EXCEPT !.fam = @ \ {c}, !.err = e]
    PROVE  /\ q \in ProcType /\ SameStart(q, p) /\ q.pc = p.pc /\ q.err = e
           /\ q.todo = p.todo /\ q.fam = p.fam \ {c} /\ q.doomed = p.doomed
BY Zenon DEF ProcType, SameStart

\* A call that fails or succeeds leaves the fault counter a number.
LEMMA FaultsType ==
    ASSUME faults \in Nat, NEW f, Fail(f) \/ Ok
    PROVE  faults' \in Nat
BY DEF Fail, Ok

\* Swallowing an error keeps the type of the ghost that marks it.
LEMMA SwallowType ==
    ASSUME swallowed \in [Subs -> {"no", "yes"}], Swallow \/ UNCHANGED swallowed
    PROVE  swallowed' \in [Subs -> {"no", "yes"}]
BY DEF Swallow

\* A reconcile that is over is well typed and holds nothing back.
LEMMA DoneUpdate ==
    ASSUME proc \in ProcType
    PROVE  Done \in ProcType /\ Done.pc = "idle" /\ Done.sub = proc.sub /\ Done.doomed = {}
BY DEF Done, Idle, Reconciling, NoApp, ProcType, AppType, Statuses, Sources

\* Where Register leads: on to doMCMHubReconcile, or out with a failure.
LEMMA RegisterOutcome ==
    ASSUME TypeOK, Register
    PROVE  /\ proc.pc = "register" /\ proc' \in ProcType
           /\ SameStart(proc', proc) /\ proc'.doomed = proc.doomed
           /\ \/ proc'.pc = "fetch"
              \/ proc'.pc = "final" /\ (proc'.new # "Propagated" \/ Swallow)
<1>1. proc \in ProcType /\ proc.pc = "register"
  BY DEF TypeOK, Register
<1>2. CASE proc' = [proc EXCEPT !.pc = "fetch"]
  BY <1>1, <1>2, FetchUpdate
<1>3. ASSUME NEW st \in Statuses, NEW ex \in Exits, NEW m \in Metas, st # "Propagated" \/ Swallow,
             proc' = [proc EXCEPT !.pc = "final", !.new = st, !.exit = ex, !.meta = m]
      PROVE  /\ proc' \in ProcType /\ SameStart(proc', proc) /\ proc'.doomed = proc.doomed
             /\ proc'.pc = "final" /\ (proc'.new # "Propagated" \/ Swallow)
  <2>1. /\ proc' \in ProcType /\ SameStart(proc', proc) /\ proc'.doomed = proc.doomed
        /\ proc'.pc = "final" /\ proc'.new = st
    BY Zenon, <1>1, <1>3 DEF ProcType, SameStart, Exits, Metas
  <2> QED BY <1>3, <2>1
<1>4. \/ proc' = [proc EXCEPT !.pc = "fetch"]
      \/ \E st \in Statuses, ex \in Exits, m \in Metas :
            /\ st # "Propagated" \/ Swallow
            /\ proc' = [proc EXCEPT !.pc = "final", !.new = st, !.exit = ex, !.meta = m]
  <2>1. proc.old \in Statuses /\ {} \in Metas /\ {"topo"} \in Metas
    BY <1>1 DEF ProcType, Metas
  <2>2. CASE proc' = [proc EXCEPT !.pc = "final", !.new = "channel", !.exit = "normal", !.meta = {}]
    BY Zenon, <2>1, <2>2 DEF Statuses, Exits
  <2>3. CASE proc' = [proc EXCEPT !.pc = "final", !.new = "branch", !.exit = "branch", !.meta = {}]
    BY Zenon, <2>1, <2>3 DEF Statuses, Exits
  <2>4. CASE proc' = [proc EXCEPT !.pc = "final", !.new = "hooks", !.exit = "prehook", !.meta = {}]
    BY Zenon, <2>1, <2>4 DEF Statuses, Exits
  <2>5. ASSUME NEW m \in Metas,
               proc' = [proc EXCEPT !.pc = "final", !.new = "prehooks", !.exit = "prehook", !.meta = m]
        PROVE  <1>4!2
    BY Zenon, <2>5 DEF Statuses, Exits
  <2>6. CASE Swallow /\ proc' = [proc EXCEPT !.pc = "final", !.new = proc.old, !.exit = "normal",
                                             !.meta = {"topo"}]
    BY Zenon, <2>1, <2>6 DEF Exits
  <2> QED BY Zenon, <2>1, <2>2, <2>3, <2>4, <2>5, <2>6 DEF Register
<1> QED BY Zenon, <1>1, <1>2, <1>3, <1>4

\* Where doMCMHubReconcile leads: to the works, or out without any.
LEMMA FetchOutcome ==
    ASSUME TypeOK, DoMCMHubReconcile
    PROVE  /\ proc.pc = "fetch" /\ proc' \in ProcType
           /\ SameStart(proc', proc) /\ proc'.doomed = proc.doomed
           /\ \/ /\ proc'.pc = "final"
                 /\ proc'.new = "Propagated" => proc.snap.source = "empty"
              \/ /\ proc'.pc = "create" /\ proc'.todo = decision[proc.sub]
                 /\ proc'.fam = Family(proc.sub) \/ Swallow
<1>1. proc \in ProcType /\ proc.pc = "fetch"
  BY Zenon DEF TypeOK, DoMCMHubReconcile
<1>2. Family(proc.sub) \subseteq Clusters /\ decision[proc.sub] \subseteq Clusters
  BY <1>1 DEF Family, ProcType, TypeOK
<1>3. CASE proc' = [proc EXCEPT !.pc = "final", !.new = "channel"]
  <2>1. "channel" \in Statuses
    BY DEF Statuses
  <2>2. /\ proc' \in ProcType /\ SameStart(proc', proc) /\ proc'.doomed = proc.doomed
        /\ proc'.pc = "final" /\ proc'.new = "channel"
    BY Zenon, <1>1, <1>3, <2>1 DEF ProcType, SameStart
  <2> QED BY <1>1, <2>2
<1>4. ASSUME NEW st \in Statuses, st = "Propagated" => proc.snap.source = "empty",
             proc' = [proc EXCEPT !.pc = "final", !.new = st, !.meta = {"labels"}]
      PROVE  /\ proc' \in ProcType /\ SameStart(proc', proc) /\ proc'.doomed = proc.doomed
             /\ proc'.pc = "final" /\ (proc'.new = "Propagated" => proc.snap.source = "empty")
  <2>1. /\ proc' \in ProcType /\ SameStart(proc', proc) /\ proc'.doomed = proc.doomed
        /\ proc'.pc = "final" /\ proc'.new = st
    BY Zenon, <1>1, <1>4 DEF ProcType, SameStart
  <2> QED BY <1>4, <2>1
<1>5. ASSUME NEW F \in SUBSET Clusters, F = Family(proc.sub) \/ Swallow,
             proc' = [proc EXCEPT !.pc = "create", !.meta = {"labels"},
                                  !.todo = decision[proc.sub], !.fam = F]
      PROVE  /\ proc' \in ProcType /\ SameStart(proc', proc) /\ proc'.doomed = proc.doomed
             /\ proc'.pc = "create" /\ proc'.todo = decision[proc.sub]
             /\ proc'.fam = Family(proc.sub) \/ Swallow
  <2>1. /\ proc' \in ProcType /\ SameStart(proc', proc) /\ proc'.doomed = proc.doomed
        /\ proc'.pc = "create" /\ proc'.todo = decision[proc.sub] /\ proc'.fam = F
    BY Zenon, <1>1, <1>2, <1>5 DEF ProcType, SameStart
  <2> QED BY <1>5, <2>1
<1>6. \/ proc' = [proc EXCEPT !.pc = "final", !.new = "channel"]
      \/ \E st \in Statuses : /\ st = "Propagated" => proc.snap.source = "empty"
                              /\ proc' = [proc EXCEPT !.pc = "final", !.new = st, !.meta = {"labels"}]
      \/ \E F \in SUBSET Clusters :
            /\ F = Family(proc.sub) \/ Swallow
            /\ proc' = [proc EXCEPT !.pc = "create", !.meta = {"labels"},
                                    !.todo = decision[proc.sub], !.fam = F]
  <2>1. ASSUME NEW st \in {"resources", "clusters", "report"},
               proc' = [proc EXCEPT !.pc = "final", !.new = st, !.meta = {"labels"}]
        PROVE  <1>6!2
    BY Zenon, <2>1 DEF Statuses
  <2>2. CASE /\ proc.snap.source = "empty"
             /\ proc' = [proc EXCEPT !.pc = "final", !.new = "Propagated", !.meta = {"labels"}]
    BY <2>2 DEF Statuses
  <2>3. ASSUME NEW F \in SUBSET Family(proc.sub), F = Family(proc.sub) \/ Swallow,
               proc' = [proc EXCEPT !.pc = "create", !.meta = {"labels"},
                                    !.todo = decision[proc.sub], !.fam = F]
        PROVE  <1>6!3
    BY Zenon, <1>2, <2>3
  <2> QED BY Zenon, <2>1, <2>2, <2>3 DEF DoMCMHubReconcile
<1> QED BY Zenon, <1>1, <1>3, <1>4, <1>5, <1>6

\* Every step of the users and of the worker keeps the types.
LEMMA TypeStep == TypeOK /\ [Next]_vars => TypeOK'
<1> SUFFICES ASSUME TypeOK, [Next]_vars PROVE TypeOK'
    OBVIOUS
<1> USE DEF TypeOK
<1>1. ASSUME NEW s \in Subs, EditApp(s) PROVE TypeOK'
  <2>1. CASE \E a \in AppSpecs : app' = [app EXCEPT ![s] = Version(a, edits + 2, @.meta)]
             /\ UNCHANGED status
    BY <1>1, <2>1, ConstantsAssumption DEF EditApp, Edit, Version, AppType
  <2>2. CASE app' = [app EXCEPT ![s] = NoApp] /\ status' = [status EXCEPT ![s] = "none"]
    BY <1>1, <2>2 DEF EditApp, Edit, NoApp, AppType, Statuses, Sources
  <2> QED BY <1>1, <2>1, <2>2 DEF EditApp
<1>2. ASSUME NEW s \in Subs, EditDecision(s) PROVE TypeOK'
  BY <1>2 DEF EditDecision, Edit, Decided
<1>3. ASSUME NEW s \in Subs, Timer(s) PROVE TypeOK'
  BY <1>3 DEF Timer
<1>4. CASE EditChannel
  BY <1>4 DEF EditChannel, Edit
<1>5. ASSUME NEW s \in Subs, Reconcile(s) PROVE TypeOK'
  <2>1. Labelled(s) \in SUBSET (Clusters \X Subs)
    BY DEF Labelled
  <2>2. proc' \in ProcType
    BY <1>5, <2>1 DEF Reconcile, Reconciling, ProcType, AppType, Statuses, Places
  <2> QED BY <1>5, <2>2 DEF Reconcile, Fail, Ok, Outside
<1> proc \in ProcType
  OBVIOUS
<1>6. CASE Cleanup
  <2>1. proc' \in ProcType
    BY Zenon, <1>6, DoneUpdate, DoomedUpdate DEF Cleanup
  <2>2. works' \in [Clusters -> [Subs -> Nat]]
    <3>1. ASSUME NEW w \in proc.doomed, works' = [works EXCEPT ![w[1]][w[2]] = 0]
          PROVE works' \in [Clusters -> [Subs -> Nat]]
      <4>1. w[1] \in Clusters /\ w[2] \in Subs
        BY DEF ProcType
      <4> QED BY <3>1, <4>1
    <3> QED BY Zenon, <1>6, <3>1 DEF Cleanup
  <2>f. faults' \in Nat
    BY Zenon, <1>6, FaultsType DEF Cleanup
  <2>s. swallowed' \in [Subs -> {"no", "yes"}]
    BY Zenon, <1>6, SwallowType DEF Cleanup
  <2> QED BY <1>6, <2>1, <2>2, <2>f, <2>s DEF Cleanup, Outside
<1>7. CASE Register
  <2>1. proc' \in ProcType
    BY <1>7, RegisterOutcome
  <2>f. faults' \in Nat
    BY Zenon, <1>7, FaultsType DEF Register
  <2>s. swallowed' \in [Subs -> {"no", "yes"}]
    BY <1>7, SwallowType DEF Register
  <2> QED BY <1>7, <2>1, <2>f, <2>s DEF Register, Outside
<1>8. CASE DoMCMHubReconcile
  <2>2. proc' \in ProcType
    BY <1>8, FetchOutcome
  <2>f. faults' \in Nat
    BY Zenon, <1>8, FaultsType DEF DoMCMHubReconcile
  <2>s. swallowed' \in [Subs -> {"no", "yes"}]
    BY Zenon, <1>8, SwallowType DEF DoMCMHubReconcile
  <2> QED BY Zenon, <1>8, <2>2, <2>f, <2>s DEF DoMCMHubReconcile, Outside
<1>9. CASE CreateManifestWork
  <2>1. proc' \in ProcType
    BY ZenonT(60), <1>9, CreateUpdate, LostUpdate DEF CreateManifestWork
  <2>2. proc.sub \in Subs /\ proc.snap.version \in Nat /\ proc.todo \subseteq Clusters
    BY DEF ProcType, AppType
  <2>3. works' \in [Clusters -> [Subs -> Nat]]
    BY SMTT(60), <1>9, <2>2 DEF CreateManifestWork
  <2>f. faults' \in Nat
    BY Zenon, <1>9, FaultsType DEF CreateManifestWork
  <2>s. swallowed' \in [Subs -> {"no", "yes"}]
    BY <1>9, SwallowType DEF CreateManifestWork
  <2> QED BY <1>9, <2>1, <2>3, <2>f, <2>s DEF CreateManifestWork, Outside
<1>10. CASE ExpireManifestWork
  <2>1. proc.sub \in Subs /\ proc.fam \subseteq Clusters
    BY DEF ProcType
  <2>2. proc' \in ProcType
    <3>1. ASSUME NEW c \in proc.fam, NEW e \in {"no", "yes"},
                 proc' = [proc EXCEPT !.fam = @ \ {c}, !.err = e]
          PROVE  proc' \in ProcType
      BY Zenon, <3>1, ExpireUpdate
    <3>2. ASSUME NEW st \in Statuses, proc' = [proc EXCEPT !.pc = "final", !.new = st]
          PROVE  proc' \in ProcType
      BY Zenon, <3>2, EndUpdate
    <3>3. (IF proc.err = "yes" THEN "expire" ELSE "Propagated") \in Statuses
      BY DEF Statuses
    <3> QED BY Zenon, <1>10, <3>1, <3>2, <3>3 DEF ExpireManifestWork
  <2>3. works' \in [Clusters -> [Subs -> Nat]]
    <3>1. ASSUME NEW c \in proc.fam, works' = [works EXCEPT ![c][proc.sub] = 0]
          PROVE  works' \in [Clusters -> [Subs -> Nat]]
      BY <2>1, <3>1
    <3> QED BY Zenon, <1>10, <3>1 DEF ExpireManifestWork
  <2>f. faults' \in Nat
    BY Zenon, <1>10, FaultsType DEF ExpireManifestWork
  <2>s. swallowed' \in [Subs -> {"no", "yes"}]
    BY Zenon, <1>10, SwallowType DEF ExpireManifestWork
  <2> QED BY Zenon, <1>10, <2>2, <2>3, <2>f, <2>s DEF ExpireManifestWork, Outside
<1>11. CASE CommitMeta
  <2>1. proc.sub \in Subs /\ proc.meta \subseteq {"labels", "topo"}
    BY DEF ProcType
  <2>2. app' \in [Subs -> AppType]
    <3>1. CASE app' = [app EXCEPT ![proc.sub].meta = @ \cup proc.meta]
      <4>1. app[proc.sub] \in AppType
        BY <2>1
      <4>2. [app[proc.sub] EXCEPT !.meta = @ \cup proc.meta] \in AppType
        BY Zenon, <2>1, <4>1 DEF AppType
      <4> QED BY <2>1, <3>1, <4>2
    <3> QED BY <1>11, <3>1 DEF CommitMeta
  <2>3. faults' \in Nat
    BY Zenon, <1>11, FaultsType DEF CommitMeta
  <2> QED BY <1>11, DoneUpdate, <2>1, <2>2, <2>3 DEF CommitMeta, Later
<1>12. CASE CommitStatus
  <2>1. proc.sub \in Subs /\ proc.new \in Statuses
    BY DEF ProcType
  <2> QED BY SMTT(60), <1>12, DoneUpdate, <2>1 DEF CommitStatus, Fail, Ok, Outside, Later
<1>13. CASE UNCHANGED vars
  BY <1>13 DEF vars
<1> QED
  BY <1>1, <1>2, <1>3, <1>4, <1>5, <1>6, <1>7, <1>8, <1>9, <1>10, <1>11, <1>12, <1>13
  DEF Next, Worker

\* The controller starts well typed.
LEMMA TypeInit == Init => TypeOK
<1> SUFFICES ASSUME Init PROVE TypeOK
    OBVIOUS
<1>1. (CHOOSE s \in Subs : TRUE) \in Subs
  BY ConstantsAssumption
<1>2. app \in [Subs -> AppType]
  BY ConstantsAssumption DEF Init, AppType, NoApp, Version, Sources
<1>3. proc \in ProcType
  BY <1>1 DEF Init, Idle, Reconciling, NoApp, ProcType, AppType, Statuses, Sources
<1> QED BY <1>2, <1>3 DEF Init, TypeOK, Statuses

\* The hub controller keeps the types of its state.
THEOREM TypeCorrect == Spec => []TypeOK
BY TypeInit, TypeStep, PTL DEF Spec

----------------------------------------------------------------------------
(* What the worker does for one Subscription leaves the others alone.       *)

Step == Cleanup \/ Register \/ DoMCMHubReconcile \/ CreateManifestWork
        \/ ExpireManifestWork \/ CommitMeta \/ CommitStatus

Untouched(s) ==
    /\ app'[s] = app[s] /\ status'[s] = status[s] /\ decision'[s] = decision[s]
    /\ \A c \in Clusters : works'[c][s] = works[c][s]

Own == \A w \in proc.doomed : w[2] = proc.sub

\* A step of the worker stays with its Subscription.
LEMMA StaysOnSub == ASSUME TypeOK, Step PROVE proc.pc # "idle" /\ proc'.sub = proc.sub
<1> proc \in ProcType
  BY DEF TypeOK
<1>1. CASE Cleanup
  <2>1. ASSUME NEW w, proc' = [proc EXCEPT !.doomed = @ \ {w}]
        PROVE  proc'.sub = proc.sub
    BY <2>1 DEF ProcType
  <2> QED BY Zenon, <1>1, <2>1, DoneUpdate DEF Cleanup
<1>2. CASE Register
  BY <1>2, RegisterOutcome DEF SameStart
<1>3. CASE DoMCMHubReconcile
  BY <1>3, FetchOutcome DEF SameStart
<1>4. CASE CreateManifestWork
  <2>1. ASSUME NEW T, NEW F, proc' = [proc EXCEPT !.todo = T, !.fam = F]
        PROVE  proc'.sub = proc.sub
    BY <2>1 DEF ProcType
  <2> QED BY Zenon, <1>4, <2>1 DEF CreateManifestWork
<1>5. CASE ExpireManifestWork
  <2>1. ASSUME NEW F, NEW e, proc' = [proc EXCEPT !.fam = F, !.err = e]
        PROVE  proc'.sub = proc.sub
    BY <2>1 DEF ProcType
  <2>2. ASSUME NEW st, proc' = [proc EXCEPT !.pc = "final", !.new = st]
        PROVE  proc'.sub = proc.sub
    BY <2>2 DEF ProcType
  <2> QED BY Zenon, <1>5, <2>1, <2>2 DEF ExpireManifestWork
<1>6. CASE CommitMeta
  BY <1>6, DoneUpdate DEF CommitMeta
<1>7. CASE CommitStatus
  BY <1>7, DoneUpdate DEF CommitStatus
<1> QED BY <1>1, <1>2, <1>3, <1>4, <1>5, <1>6, <1>7 DEF Step

\* A step of the worker leaves every other Subscription as it is.
LEMMA LeavesOthers ==
    ASSUME TypeOK, Own, Step, NEW s \in Subs, s # proc.sub
    PROVE  Untouched(s) /\ pending'[s] = pending[s] /\ swallowed'[s] = swallowed[s]
<1> USE DEF TypeOK
<1>1. proc.sub \in Subs /\ proc.doomed \subseteq Clusters \X Subs
      /\ proc.fam \subseteq Clusters /\ proc.todo \subseteq Clusters
  BY DEF ProcType
<1>2. decision' = decision
  BY Zenon DEF Step, Cleanup, Register, DoMCMHubReconcile, CreateManifestWork, ExpireManifestWork,
         CommitMeta, CommitStatus, Outside
<1>3. swallowed'[s] = swallowed[s]
  BY Zenon, <1>1 DEF Step, Cleanup, Register, DoMCMHubReconcile, CreateManifestWork, ExpireManifestWork,
              CommitMeta, CommitStatus, Swallow
<1>4. pending'[s] = pending[s]
  BY Zenon, <1>1 DEF Step, Cleanup, Register, DoMCMHubReconcile, CreateManifestWork, ExpireManifestWork,
              CommitMeta, CommitStatus, Later
<1>5. app'[s] = app[s] /\ status'[s] = status[s]
  BY Zenon, <1>1 DEF Step, Cleanup, Register, DoMCMHubReconcile, CreateManifestWork, ExpireManifestWork,
              CommitMeta, CommitStatus, Outside
<1>6. ASSUME NEW c \in Clusters PROVE works'[c][s] = works[c][s]
  <2>1. ASSUME NEW d \in Clusters, NEW t \in Subs, NEW v, t # s,
               works' = [works EXCEPT ![d][t] = v]
        PROVE  works'[c][s] = works[c][s]
    BY <2>1
  <2>2. CASE Cleanup
    <3>1. ASSUME NEW w \in proc.doomed, works' = [works EXCEPT ![w[1]][w[2]] = 0]
          PROVE  works'[c][s] = works[c][s]
      <4>1. w[1] \in Clusters /\ w[2] \in Subs /\ w[2] # s
        BY <1>1 DEF Own
      <4> QED BY <2>1, <3>1, <4>1
    <3> QED BY Zenon, <2>2, <3>1 DEF Cleanup
  <2>3. CASE CreateManifestWork
    <3>1. PICK d \in proc.todo : \/ works' = [works EXCEPT ![d][proc.sub] = proc.snap.version]
                                 \/ works' = works
      BY <2>3 DEF CreateManifestWork
    <3> QED BY <1>1, <2>1, <3>1
  <2>4. CASE ExpireManifestWork
    <3>1. \/ works' = works
          \/ \E d \in proc.fam : works' = [works EXCEPT ![d][proc.sub] = 0]
      BY Zenon, <2>4 DEF ExpireManifestWork
    <3> QED BY <1>1, <2>1, <3>1
  <2>5. CASE Register \/ DoMCMHubReconcile \/ CommitMeta \/ CommitStatus
    BY Zenon, <2>5 DEF Register, DoMCMHubReconcile, CommitMeta, CommitStatus
  <2> QED BY <2>2, <2>3, <2>4, <2>5 DEF Step
<1> QED BY <1>2, <1>3, <1>4, <1>5, <1>6 DEF Untouched

----------------------------------------------------------------------------
(* The inductive invariant.                                                 *)

Active(s) == proc.pc # "idle" /\ proc.sub = s
Claim(s) == pending[s] = {} /\ swallowed[s] = "no" =>
                IF Active(s) THEN Halfway(s) ELSE Right(s)

\* What holds of a Subscription holds as long as nothing of it changes.
LEMMA RightFrame ==
    ASSUME NEW s \in Subs, Untouched(s), Right(s)
    PROVE  Right(s)'
BY DEF Untouched, Right, Placed

\* The same for the claim of the invariant about one Subscription.
LEMMA ClaimFrame ==
    ASSUME NEW s \in Subs, Untouched(s), proc' = proc, Claim(s), decision[s] \subseteq Clusters,
           pending'[s] = pending[s], swallowed'[s] = swallowed[s]
    PROVE  Claim(s)'
<1>1. Placed(s)' <=> Placed(s)
  BY DEF Untouched, Placed
<1>2. ASSUME Halfway(s) PROVE Halfway(s)'
  <2>1. proc.pc = "cleanup" => \A c \in Clusters : works'[c][s] # 0 => <<c, s>> \in proc.doomed
    BY <1>2 DEF Untouched, Halfway
  <2>2. ASSUME proc.pc = "create"
        PROVE  /\ proc.todo \subseteq decision'[s]
               /\ \A c \in decision'[s] \ proc.todo : works'[c][s] = app'[s].version /\ c \notin proc.fam
               /\ proc.err = "no" => \A c \in Clusters \ decision'[s] : works'[c][s] # 0 => c \in proc.fam
    BY <1>2, <2>2 DEF Untouched, Halfway
  <2> QED BY <1>1, <1>2, <2>1, <2>2 DEF Untouched, Halfway
<1>3. Right(s) => Right(s)'
  BY RightFrame
<1> QED BY <1>2, <1>3 DEF Claim, Active

\* HubInv, Subscription by Subscription.
LEMMA Unfold == HubInv <=> Own /\ \A s \in Subs : Claim(s)
BY DEF HubInv, Own, Claim, Active

\* The users' edits and the timers.
LEMMA EditsKeep ==
    ASSUME TypeOK, HubInv, NEW s \in Subs,
           EditChannel \/ \E t \in Subs : EditApp(t) \/ EditDecision(t) \/ Timer(t)
    PROVE  Claim(s)'
<1> USE DEF TypeOK
<1>1. Claim(s) /\ decision[s] \subseteq Clusters
  BY Unfold
<1>2. CASE EditChannel
  <2>1. Untouched(s) /\ proc' = proc /\ swallowed'[s] = swallowed[s]
    BY <1>2 DEF EditChannel, Untouched
  <2>2. CASE pending'[s] = {}
    <3>1. pending'[s] = pending[s]
      BY <1>2, <2>2 DEF EditChannel
    <3> QED BY <1>1, <2>1, <3>1, ClaimFrame
  <2> QED BY <2>2 DEF Claim
<1>3. ASSUME NEW t \in Subs, EditApp(t) PROVE Claim(s)'
  <2>1. CASE s = t
    <3>1. pending'[s] # {}
      BY <1>3, <2>1 DEF EditApp
    <3> QED BY <3>1 DEF Claim
  <2>2. CASE s # t
    <3>1. Untouched(s) /\ proc' = proc /\ swallowed'[s] = swallowed[s] /\ pending'[s] = pending[s]
      BY <1>3, <2>2 DEF EditApp, Untouched
    <3> QED BY <1>1, <3>1, ClaimFrame
  <2> QED BY <2>1, <2>2
<1>4. ASSUME NEW t \in Subs, EditDecision(t) PROVE Claim(s)'
  <2>1. CASE s # t \/ decision'[s] = decision[s]
    <3>1. Untouched(s) /\ proc' = proc /\ swallowed'[s] = swallowed[s]
      BY <1>4, <2>1 DEF EditDecision, Untouched
    <3>2. pending'[s] = {} => pending'[s] = pending[s]
      BY <1>4, <2>1 DEF EditDecision
    <3> QED BY Zenon, <1>1, <3>1, <3>2, ClaimFrame DEF Claim
  <2>2. CASE s = t /\ app[s].place \in {"remote", "both"}
    <3>1. pending'[s] # {}
      BY <1>4, <2>2 DEF EditDecision, Decided
    <3> QED BY <3>1 DEF Claim
  <2>3. CASE s = t /\ app[s].place \notin {"remote", "both"}
    <3>1. pending'[s] = pending[s]
      BY <1>4, <2>3 DEF EditDecision, Decided
    <3>2. app' = app /\ proc' = proc /\ swallowed' = swallowed /\ works' = works /\ status' = status
      BY <1>4 DEF EditDecision
    <3>3. Right(s) => Right(s)'
      BY Zenon, <2>3, <3>2 DEF Right
    <3>4. Halfway(s) => Halfway(s)'
      BY <2>3, <3>2 DEF Halfway
    <3> QED BY <1>1, <3>1, <3>2, <3>3, <3>4 DEF Claim, Active
  <2> QED BY <2>1, <2>2, <2>3
<1>5. ASSUME NEW t \in Subs, Timer(t) PROVE Claim(s)'
  <2>1. CASE s = t
    <3>1. pending'[s] # {}
      BY <1>5, <2>1 DEF Timer
    <3> QED BY <3>1 DEF Claim
  <2>2. CASE s # t
    <3>1. Untouched(s) /\ proc' = proc /\ swallowed'[s] = swallowed[s] /\ pending'[s] = pending[s]
      BY <1>5, <2>2 DEF Timer, Untouched
    <3> QED BY <1>1, <3>1, ClaimFrame
  <2> QED BY <2>1, <2>2
<1> QED BY <1>2, <1>3, <1>4, <1>5

\* A reconcile begins.
LEMMA ReconcileKeeps ==
    ASSUME LabelsDiffer, TypeOK, HubInv, NEW t \in Subs, Reconcile(t), NEW s \in Subs
    PROVE  Own' /\ Claim(s)'
<1> USE DEF TypeOK
<1>1. Own /\ Claim(s) /\ proc.pc = "idle"
  BY Unfold DEF Reconcile
<1>2. Untouched(s)
  BY DEF Reconcile, Outside, Untouched
<1>3. \A w \in Labelled(t) : w[2] = t
  BY DEF Labelled, LabelsDiffer
<1>4. CASE proc' = proc /\ pending' = [pending EXCEPT ![t] = (@ \ {"now"}) \cup {"later"}]
  <2>1. Own'
    BY <1>1, <1>4 DEF Own
  <2>2. CASE s = t
    <3>1. pending'[s] # {}
      BY <1>4, <2>2
    <3> QED BY <2>1, <3>1 DEF Claim
  <2>3. CASE s # t
    <3>1. pending'[s] = pending[s] /\ swallowed'[s] = swallowed[s]
      BY <1>4, <2>3 DEF Reconcile
    <3> QED BY <1>1, <1>2, <1>4, <2>1, <3>1, RightFrame DEF Claim, Active
  <2> QED BY <2>2, <2>3
<1>5. ASSUME pending' = [pending EXCEPT ![t] = @ \ {"now"}],
             NEW lb, NEW st, NEW D,
             proc' = Reconciling(lb, t, app[t], status[t], st, D),
             \/ lb = "cleanup" /\ app[t].place \in {"gone", "local"} /\ D = Labelled(t)
             \/ lb = "final" /\ app[t].place \in {"missing", "both"} /\ st = "placement" /\ D = {}
             \/ lb = "register" /\ app[t].place = "remote" /\ D = {}
      PROVE  Own' /\ Claim(s)'
  <2>1. /\ proc'.pc = lb /\ proc'.sub = t /\ proc'.snap = app[t] /\ proc'.old = status[t]
        /\ proc'.new = st /\ proc'.doomed = D
    BY <1>5 DEF Reconciling
  <2>2. Own'
    BY <1>3, <1>5, <2>1 DEF Own
  <2>3. CASE s = t
    <3>1. app' = app /\ status' = status /\ works' = works
      BY DEF Reconcile, Outside
    <3>2. lb = "cleanup" => \A c \in Clusters : works[c][s] # 0 => <<c, s>> \in D
      BY <1>5, <2>3 DEF Labelled
    <3>3. Halfway(s)'
      BY <1>5, <2>1, <2>3, <3>1, <3>2 DEF Halfway
    <3>4. Active(s)'
      BY <1>5, <2>1, <2>3 DEF Active
    <3> QED BY <2>2, <3>3, <3>4 DEF Claim
  <2>4. CASE s # t
    <3>1. pending'[s] = pending[s] /\ swallowed'[s] = swallowed[s]
      BY <1>5, <2>4 DEF Reconcile
    <3> QED BY Zenon, <1>1, <1>2, <2>1, <2>2, <2>4, <3>1, RightFrame DEF Claim, Active
  <2> QED BY <2>3, <2>4
<1>6. app[t].place \in {"gone", "local", "missing", "both", "remote"}
  BY Zenon DEF AppType, Places
<1> QED BY <1>4, <1>5, <1>6 DEF Reconcile

\* The worker's steps, for a Subscription that is not its own.
LEMMA StepsKeepOthers ==
    ASSUME TypeOK, HubInv, Step, NEW s \in Subs, s # proc.sub
    PROVE  Claim(s)'
<1>1. Own /\ Claim(s)
  BY Unfold
<1>2. Untouched(s) /\ pending'[s] = pending[s] /\ swallowed'[s] = swallowed[s]
  BY <1>1, LeavesOthers
<1>3. proc'.sub # s
  BY StaysOnSub
<1> QED BY <1>1, <1>2, <1>3, RightFrame DEF Claim, Active

\* The worker dooms no further work on its way.
LEMMA StepsKeepOwn ==
    ASSUME TypeOK, HubInv, Step
    PROVE  Own'
<1> proc \in ProcType
  BY DEF TypeOK
<1>1. Own /\ proc'.sub = proc.sub
  BY Unfold, StaysOnSub
<1>2. proc'.doomed \subseteq proc.doomed
  <2>1. CASE Cleanup
    <3>1. ASSUME NEW w, proc' = [proc EXCEPT !.doomed = @ \ {w}]
          PROVE  proc'.doomed \subseteq proc.doomed
      BY <3>1 DEF ProcType
    <3> QED BY Zenon, <2>1, <3>1, DoneUpdate DEF Cleanup
  <2>2. CASE Register
    BY <2>2, RegisterOutcome
  <2>3. CASE DoMCMHubReconcile
    BY <2>3, FetchOutcome
  <2>4. CASE CreateManifestWork
    <3>1. ASSUME NEW T, NEW F, proc' = [proc EXCEPT !.todo = T, !.fam = F]
          PROVE  proc'.doomed = proc.doomed
      BY <3>1 DEF ProcType
    <3> QED BY Zenon, <2>4, <3>1 DEF CreateManifestWork
  <2>5. CASE ExpireManifestWork
    <3>1. ASSUME NEW F, NEW e, proc' = [proc EXCEPT !.fam = F, !.err = e]
          PROVE  proc'.doomed = proc.doomed
      BY <3>1 DEF ProcType
    <3>2. ASSUME NEW st, proc' = [proc EXCEPT !.pc = "final", !.new = st]
          PROVE  proc'.doomed = proc.doomed
      BY <3>2 DEF ProcType
    <3> QED BY Zenon, <2>5, <3>1, <3>2 DEF ExpireManifestWork
  <2>6. CASE CommitMeta \/ CommitStatus
    BY <2>6, DoneUpdate DEF CommitMeta, CommitStatus
  <2> QED BY <2>1, <2>2, <2>3, <2>4, <2>5, <2>6 DEF Step
<1> QED BY <1>1, <1>2 DEF Own

\* The worker's steps, for its own Subscription: cleaning up.
LEMMA CleanupKeeps ==
    ASSUME TypeOK, HubInv, Cleanup, NEW s \in Subs, s = proc.sub
    PROVE  Claim(s)'
<1> USE DEF TypeOK
<1> SUFFICES ASSUME pending'[s] = {}, swallowed'[s] = "no"
             PROVE  IF Active(s)' THEN Halfway(s)' ELSE Right(s)'
  BY DEF Claim
<1>1. proc \in ProcType /\ Active(s) /\ proc.pc = "cleanup"
  BY DEF Active, Cleanup
<1>2. app' = app /\ status' = status /\ decision' = decision /\ pending[s] = {}
  BY DEF Cleanup, Outside
<1>3. ~Swallow
  BY DEF Swallow
<1>4. swallowed[s] = "no"
  BY Zenon, <1>3 DEF Cleanup
<1>5. Halfway(s)
  BY <1>1, <1>2, <1>4, Unfold DEF Claim
<1>6. CASE proc.doomed = {} /\ proc' = Done /\ works' = works
  <2>1. ~Active(s)'
    BY <1>1, <1>6, DoneUpdate DEF Active
  <2>2. Right(s)'
    BY Zenon, <1>1, <1>2, <1>5, <1>6 DEF Halfway, Right
  <2> QED BY <2>1, <2>2
<1>7. ASSUME NEW w \in proc.doomed, works' = [works EXCEPT ![w[1]][w[2]] = 0],
             proc' = [proc EXCEPT !.doomed = @ \ {w}]
      PROVE  Active(s)' /\ Halfway(s)'
  <2>1. /\ proc'.pc = "cleanup" /\ proc'.sub = s /\ proc'.snap = proc.snap /\ proc'.old = proc.old
        /\ proc'.doomed = proc.doomed \ {w}
    BY <1>1, <1>7 DEF ProcType
  <2>2. w[1] \in Clusters /\ w[2] \in Subs /\ w = <<w[1], w[2]>>
    BY <1>1 DEF ProcType
  <2>3. ASSUME NEW c \in Clusters, works'[c][s] # 0 PROVE <<c, s>> \in proc.doomed \ {w}
    <3>1. <<c, s>> # w
      BY <1>7, <2>2, <2>3
    <3>2. works'[c][s] = works[c][s]
      BY <1>7, <2>2, <3>1
    <3> QED BY <1>1, <1>5, <2>3, <3>1, <3>2 DEF Halfway
  <2> QED BY <1>1, <1>2, <1>5, <2>1, <2>3 DEF Halfway, Active
<1> QED BY Zenon, <1>3, <1>6, <1>7 DEF Cleanup

\* The same up to the works: the channel, the hooks, the resources.
LEMMA PreparingKeeps ==
    ASSUME TypeOK, HubInv, Register \/ DoMCMHubReconcile, NEW s \in Subs, s = proc.sub
    PROVE  Claim(s)'
<1> USE DEF TypeOK
<1> SUFFICES ASSUME pending'[s] = {}, swallowed'[s] = "no"
             PROVE  IF Active(s)' THEN Halfway(s)' ELSE Right(s)'
  BY DEF Claim
<1>1. proc \in ProcType /\ Active(s) /\ proc.pc \in {"register", "fetch"}
  BY Zenon DEF Active, Register, DoMCMHubReconcile
<1>2. /\ app' = app /\ status' = status /\ decision' = decision /\ works' = works
      /\ pending[s] = {}
  BY Zenon DEF Register, DoMCMHubReconcile, Outside
<1>3. ~Swallow
  BY DEF Swallow
<1>4. swallowed[s] = "no"
  BY Zenon, <1>3 DEF Register, DoMCMHubReconcile
<1>5. Halfway(s)
  BY Zenon, <1>1, <1>2, <1>4, Unfold DEF Claim
<1>6. app[s].place = "remote" /\ proc.snap = app[s] /\ proc.old = status[s]
  BY <1>1, <1>5 DEF Halfway
<1>7. CASE Register
  <2>1. Active(s)'
    BY <1>7, RegisterOutcome DEF Active, SameStart
  <2>2. Halfway(s)'
    BY Zenon, <1>2, <1>3, <1>6, <1>7, RegisterOutcome DEF Halfway, SameStart
  <2> QED BY <2>1, <2>2
<1>8. CASE DoMCMHubReconcile
  <2>1. Active(s)'
    BY <1>8, FetchOutcome DEF Active, SameStart
  <2>2. CASE proc'.pc = "final"
    <3>1. Halfway(s)'
      BY Zenon, <1>2, <1>6, <1>8, <2>2, FetchOutcome DEF Halfway, SameStart
    <3> QED BY <2>1, <3>1
  <2>3. CASE proc'.pc = "create"
    <3>1. proc'.todo = decision[s] /\ proc'.fam = Family(s) /\ SameStart(proc', proc)
      BY <1>3, <1>8, <2>3, FetchOutcome
    <3>2. \A c \in Clusters \ decision[s] : works[c][s] # 0 => c \in Family(s)
      BY DEF Family
    <3>3. Halfway(s)'
      BY Zenon, <1>2, <1>6, <2>3, <3>1, <3>2 DEF Halfway, SameStart
    <3> QED BY <2>1, <3>3
  <2> QED BY <1>8, <2>2, <2>3, FetchOutcome
<1> QED BY <1>7, <1>8

\* The same for the works that are written.
LEMMA CreateKeeps ==
    ASSUME TypeOK, HubInv, CreateManifestWork, NEW s \in Subs, s = proc.sub
    PROVE  Claim(s)'
<1> USE DEF TypeOK
<1> SUFFICES ASSUME pending'[s] = {}, swallowed'[s] = "no"
             PROVE  IF Active(s)' THEN Halfway(s)' ELSE Right(s)'
  BY DEF Claim
<1>1. proc \in ProcType /\ Active(s) /\ proc.pc = "create" /\ decision[s] \subseteq Clusters
  BY DEF Active, CreateManifestWork
<1>2. app' = app /\ status' = status /\ decision' = decision /\ pending[s] = {}
  BY DEF CreateManifestWork, Outside
<1>3. ~Swallow
  BY DEF Swallow
<1>4. PICK d \in proc.todo :
        /\ works' = [works EXCEPT ![d][s] = proc.snap.version]
        /\ proc' = [proc EXCEPT !.todo = @ \ {d}, !.fam = @ \ {d}]
        /\ swallowed' = swallowed
  BY Zenon, <1>3 DEF CreateManifestWork
<1>5. Halfway(s)
  BY <1>1, <1>2, <1>4, Unfold DEF Claim
<1>6. /\ proc'.pc = "create" /\ proc'.sub = s /\ proc'.snap = proc.snap /\ proc'.old = proc.old
      /\ proc'.todo = proc.todo \ {d} /\ proc'.fam = proc.fam \ {d} /\ proc'.err = proc.err
  BY Zenon, <1>1, <1>4 DEF ProcType
<1>7. /\ proc.snap = app[s] /\ proc.old = status[s] /\ app[s].place = "remote"
      /\ proc.todo \subseteq decision[s]
      /\ \A c \in decision[s] \ proc.todo : works[c][s] = app[s].version /\ c \notin proc.fam
      /\ proc.err = "no" => \A c \in Clusters \ decision[s] : works[c][s] # 0 => c \in proc.fam
  BY <1>1, <1>5 DEF Halfway
<1>8. d \in decision[s] /\ d \in Clusters
  BY <1>1, <1>4, <1>7
<1>9. \A c \in Clusters : works'[c][s] = IF c = d THEN app[s].version ELSE works[c][s]
  BY Zenon, <1>4, <1>7, <1>8
<1>10. Halfway(s)'
  <2>1. \A c \in decision[s] \ (proc.todo \ {d}) : works'[c][s] = app[s].version /\ c \notin proc.fam \ {d}
    BY ZenonT(60), <1>1, <1>7, <1>8, <1>9
  <2>2. proc.err = "no" =>
            \A c \in Clusters \ decision[s] : works'[c][s] # 0 => c \in proc.fam \ {d}
    BY <1>7, <1>8, <1>9
  <2> QED BY <1>2, <1>6, <1>7, <2>1, <2>2 DEF Halfway
<1> QED BY <1>6, <1>10 DEF Active

\* The same for the works that expire.
LEMMA ExpireKeeps ==
    ASSUME TypeOK, HubInv, ExpireManifestWork, NEW s \in Subs, s = proc.sub
    PROVE  Claim(s)'
<1> USE DEF TypeOK
<1> SUFFICES ASSUME pending'[s] = {}, swallowed'[s] = "no"
             PROVE  IF Active(s)' THEN Halfway(s)' ELSE Right(s)'
  BY DEF Claim
<1>1. /\ proc \in ProcType /\ Active(s) /\ proc.pc = "create" /\ proc.todo = {}
      /\ decision[s] \subseteq Clusters /\ proc.fam \subseteq Clusters
  BY Zenon DEF Active, ExpireManifestWork, ProcType
<1>2. app' = app /\ status' = status /\ decision' = decision /\ pending[s] = {}
  BY Zenon DEF ExpireManifestWork, Outside
<1>3. ~Swallow
  BY DEF Swallow
<1>4. swallowed[s] = "no"
  BY Zenon, <1>3 DEF ExpireManifestWork
<1>5. Halfway(s)
  BY Zenon, <1>1, <1>2, <1>4, Unfold DEF Claim
<1>6. /\ proc.snap = app[s] /\ proc.old = status[s] /\ app[s].place = "remote"
      /\ \A c \in decision[s] : works[c][s] = app[s].version /\ c \notin proc.fam
      /\ proc.err = "no" => \A c \in Clusters \ decision[s] : works[c][s] # 0 => c \in proc.fam
  BY <1>1, <1>5 DEF Halfway
<1>7. ASSUME NEW d \in proc.fam, works' = [works EXCEPT ![d][s] = 0], proc.err = "no",
             proc' = [proc EXCEPT !.fam = @ \ {d}, !.err = "no"]
      PROVE  Active(s)' /\ Halfway(s)'
  <2>1. /\ proc'.pc = "create" /\ proc'.sub = s /\ proc'.snap = proc.snap /\ proc'.old = proc.old
        /\ proc'.todo = {} /\ proc'.fam = proc.fam \ {d} /\ proc'.err = "no"
    BY <1>1, <1>7 DEF ProcType
  <2>2. \A c \in Clusters : works'[c][s] = IF c = d THEN 0 ELSE works[c][s]
    BY <1>1, <1>7
  <2>3. \A c \in decision[s] : works'[c][s] = app[s].version /\ c \notin proc.fam \ {d}
    BY <1>1, <1>6, <1>7, <2>2
  <2>4. \A c \in Clusters \ decision[s] : works'[c][s] # 0 => c \in proc.fam \ {d}
    BY <1>6, <1>7, <2>2
  <2> QED BY Zenon, <1>1, <1>2, <1>6, <2>1, <2>3, <2>4 DEF Halfway, Active
<1>8. ASSUME NEW d \in proc.fam, works' = works,
             proc' = [proc EXCEPT !.fam = @ \ {d}, !.err = "yes"]
      PROVE  Active(s)' /\ Halfway(s)'
  <2>1. /\ proc'.pc = "create" /\ proc'.sub = s /\ proc'.snap = proc.snap /\ proc'.old = proc.old
        /\ proc'.todo = {} /\ proc'.fam = proc.fam \ {d} /\ proc'.err = "yes"
    BY <1>1, <1>8 DEF ProcType
  <2> QED BY <1>1, <1>2, <1>6, <1>8, <2>1 DEF Halfway, Active
<1>9. ASSUME proc.fam = {}, works' = works,
             proc' = [proc EXCEPT !.pc = "final",
                                  !.new = IF proc.err = "yes" THEN "expire" ELSE "Propagated"]
      PROVE  Active(s)' /\ Halfway(s)'
  <2>1. /\ proc'.pc = "final" /\ proc'.sub = s /\ proc'.snap = proc.snap /\ proc'.old = proc.old
        /\ proc'.new = IF proc.err = "yes" THEN "expire" ELSE "Propagated"
    BY <1>1, <1>9 DEF ProcType
  <2>2. proc.err \in {"no", "yes"}
    BY <1>1 DEF ProcType
  <2>3. proc'.new = "Propagated" => Placed(s)'
    BY <1>2, <1>6, <1>9, <2>1, <2>2 DEF Placed
  <2> QED BY <1>1, <1>2, <1>6, <2>1, <2>3 DEF Halfway, Active
<1>10. proc.err = "no" \/ proc.err = "yes"
  BY <1>1 DEF ProcType
<1> QED BY Zenon, <1>3, <1>7, <1>8, <1>9, <1>10 DEF ExpireManifestWork

\* Whatever finalCommit cannot write is queued again.
LEMMA LaterIsPending ==
    ASSUME TypeOK, NEW s \in Subs, NEW A, pending' = [pending EXCEPT ![s] = @ \cup A], "later" \in A
    PROVE  pending'[s] # {}
<1>1. pending'[s] = pending[s] \cup A
  BY DEF TypeOK
<1> QED BY <1>1

\* The same for finalCommit.
LEMMA CommitKeeps ==
    ASSUME TypeOK, HubInv, CommitMeta \/ CommitStatus, NEW s \in Subs, s = proc.sub
    PROVE  Claim(s)'
<1> USE DEF TypeOK
<1> SUFFICES ASSUME pending'[s] = {}, swallowed'[s] = "no"
             PROVE  IF Active(s)' THEN Halfway(s)' ELSE Right(s)'
  BY DEF Claim
<1>1. proc \in ProcType /\ Active(s) /\ proc.pc = "final"
  BY DEF Active, CommitMeta, CommitStatus
<1>2. ~CommitMeta
  <2>1. CommitMeta => pending'[s] # {}
    BY Zenon, LaterIsPending DEF CommitMeta, Later
  <2> QED BY <2>1
<1>3. /\ app' = app /\ decision' = decision /\ works' = works /\ swallowed' = swallowed
      /\ proc' = Done /\ CommitStatus
  BY <1>2 DEF CommitStatus, Outside
<1>4. pending' = pending
  <2>1. Later(s) => pending'[s] # {}
    BY Zenon, LaterIsPending DEF Later
  <2> QED BY <1>3, <2>1 DEF CommitStatus
<1>5. Halfway(s)
  BY Zenon, <1>1, <1>3, <1>4, Unfold DEF Claim
<1>6. status'[s] = proc.new
  <2>1. Exists(s) /\ proc.old = status[s]
    BY <1>1, <1>5 DEF Halfway, Exists
  <2>2. Later(s) => pending'[s] # {}
    BY Zenon, LaterIsPending DEF Later
  <2> QED BY Zenon, <1>3, <2>1, <2>2 DEF CommitStatus, StatusChanged
<1>7. Right(s)'
  BY Zenon, <1>1, <1>3, <1>5, <1>6 DEF Halfway, Right, Placed
<1>8. ~Active(s)'
  BY <1>1, <1>3, DoneUpdate DEF Active
<1> QED BY <1>7, <1>8

\* HubInv is inductive, if labels tell Subscriptions apart.
LEMMA HubStep == ASSUME LabelsDiffer PROVE TypeOK /\ HubInv /\ [Next]_vars => HubInv'
<1> SUFFICES ASSUME TypeOK, HubInv, [Next]_vars PROVE HubInv'
    BY Zenon
<1>1. CASE EditChannel \/ \E t \in Subs : EditApp(t) \/ EditDecision(t) \/ Timer(t)
  <2>1. proc' = proc
    BY <1>1 DEF EditChannel, EditApp, EditDecision, Timer
  <2>2. Own'
    BY <2>1, Unfold DEF Own
  <2>3. ASSUME NEW s \in Subs PROVE Claim(s)'
    BY <1>1, EditsKeep, Zenon
  <2> QED BY <2>2, <2>3 DEF HubInv, Own, Claim, Active
<1>2. CASE \E t \in Subs : Reconcile(t)
  <2>0. PICK t \in Subs : Reconcile(t)
    BY <1>2
  <2>1. ASSUME NEW s \in Subs PROVE Own' /\ Claim(s)'
    BY <2>0, ReconcileKeeps, Zenon
  <2>2. Own'
    BY <2>0, <2>1
  <2> QED BY <2>1, <2>2 DEF HubInv, Own, Claim, Active
<1>3. CASE Step
  <2>1. ASSUME NEW s \in Subs PROVE Claim(s)'
    <3>1. CASE s # proc.sub
      BY <1>3, <3>1, StepsKeepOthers, Zenon
    <3>2. CASE s = proc.sub
      BY <1>3, <3>2, CleanupKeeps, PreparingKeeps, CreateKeeps, ExpireKeeps, CommitKeeps, Zenon
      DEF Step
    <3> QED BY <3>1, <3>2
  <2>2. Own'
    BY Zenon, <1>3, StepsKeepOwn
  <2> QED BY <2>1, <2>2 DEF HubInv, Own, Claim, Active
<1>4. CASE UNCHANGED vars
  BY SMTT(60), <1>4 DEF vars, HubInv, Halfway, Right, Placed
<1> QED BY <1>1, <1>2, <1>3, <1>4 DEF Next, Worker, Step

\* HubInv holds when the controller starts.
LEMMA HubInit == Init => HubInv
<1> SUFFICES ASSUME Init PROVE HubInv
    OBVIOUS
<1>1. proc.pc = "idle" /\ proc.doomed = {}
  BY DEF Init, Idle, Reconciling
<1>2. ASSUME NEW s \in Subs, pending[s] = {} PROVE Right(s)
  <2>1. ~Exists(s)
    BY <1>2 DEF Init
  <2>2. \A c \in Clusters : works[c][s] = 0
    BY DEF Init
  <2> QED BY Zenon, <2>1, <2>2 DEF Right, Exists
<1> QED BY <1>1, <1>2 DEF HubInv

\* The invariant of the hub controller: at every step of a reconcile it is
\* known which works are still to be deleted, created or updated, and whatever
\* is not in hand is as the last decision wants it, or queued.
THEOREM HubInvHolds == ASSUME LabelsDiffer PROVE Spec => []HubInv
  BY TypeInit, TypeStep, HubInit, HubStep, PTL DEF Spec

\* A hub controller that has nothing left to do for a Subscription and met no
\* failure that it only logs has placed its works exactly where the decision
\* wants them, whatever edits came in between.
THEOREM QuietControllerIsRight == ASSUME LabelsDiffer PROVE Spec => []QuietIsRight
<1>1. HubInv => QuietIsRight
  BY DEF HubInv, QuietIsRight, Quiet
<1> QED BY <1>1, HubInvHolds, PTL

\* Works are deleted only by a reconcile of the Subscription they belong to, if
\* labels tell Subscriptions apart.
THEOREM CleansOnlyOwn == ASSUME LabelsDiffer PROVE Spec => CleansOwn
<1>1. TypeOK /\ HubInv /\ [Next]_vars =>
        [\A c \in Clusters, s \in Subs : works[c][s] # 0 /\ works'[c][s] = 0 => proc.sub = s]_vars
  <2> SUFFICES ASSUME TypeOK, HubInv, Next, NEW c \in Clusters, NEW s \in Subs,
                      works[c][s] # 0, works'[c][s] = 0
               PROVE  proc.sub = s
    OBVIOUS
  <2>1. Step
    BY DEF Next, Worker, Step, EditApp, EditDecision, Timer, EditChannel, Reconcile
  <2>2. Own
    BY Unfold
  <2> QED BY <2>1, <2>2, LeavesOthers DEF Untouched
<1> QED BY <1>1, TypeInit, TypeStep, HubInit, HubStep, PTL DEF Spec, CleansOwn
=============================================================================
