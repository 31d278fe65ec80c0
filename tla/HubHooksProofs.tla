--------------------------- MODULE HubHooksProofs ---------------------------
(***************************************************************************)
(* Proofs about HubHooks, for any revisions, commits, hook templates,       *)
(* clusters, edits, failures and bounds.                                    *)
(***************************************************************************)
EXTENDS HubHooks, FiniteSetTheorems, SequenceTheorems, WellFoundedInduction, TLAPS

YesNo == {"yes", "no"}
Tags == {"unset", "empty", "blank", "sync", "rv", "commit"} \X Nat
JobType == [tpl: Templates \cup {"none"}, gen: Nat, tag: Tags, clusters: SUBSET Clusters]
Entries == [job: JobType, state: {"running", "successful", "failed"}]
Names == (Templates \cup {"none"}) \X Nat \X Tags
SubFields(R) == [ref: R, gen: Nat, sync: Nat, note: Nat, fake: YesNo, topo: SUBSET Names]
Existent == SubFields(Refs)
Phases == {"none", "branch", "hooks", "prehook", "PreHookSuccessful", "resources", "Propagated"}
Labels == {"idle", "branch", "hooks", "registry", "apply", "check", "resources", "work",
           "final", "post"}
SubType == Existent \cup {Gone}
RegistryType == [on: YesNo, last: SubFields(Refs \cup {0}), inst: [Templates -> JobType]]
StatusType == [phase: Phases, pre: SUBSET Names, post: SUBSET Names]
ProcType == [pc: Labels, key: Nat, snap: SubType, new: SubType, phase: Phases,
             passed: YesNo, aliased: YesNo, err: YesNo]

ProcOK(p) == p \in ProcType /\ (p.pc # "idle" => p.snap \in Existent /\ p.new \in Existent)

\* The types of the variables; a reconcile in progress is of a Subscription that existed.
TypeOK ==
    /\ head \in [Refs -> 1..MaxCommits]
    /\ sub \in SubType
    /\ placed \in SUBSET Clusters
    /\ decision \in [clusters: SUBSET Clusters, rv: Nat]
    /\ watched \in [Refs -> 0..MaxCommits]
    /\ round \in SUBSET Refs
    /\ dir \in 0..MaxCommits
    /\ registry \in RegistryType
    /\ jobs \in Seq(Entries)
    /\ status \in StatusType
    /\ works \in SUBSET Clusters
    /\ queue \in SUBSET Nat
    /\ ProcOK(proc)
    /\ lost \in YesNo /\ edits \in Nat /\ faults \in Nat

----------------------------------------------------------------------------
(* Sequences of jobs.                                                       *)

\* SetToSeq lists every element of a finite set once.
LEMMA ListedOnce ==
    ASSUME NEW S, IsFiniteSet(S)
    PROVE  /\ SetToSeq(S) \in [1..Cardinality(S) -> S]
           /\ \A i, j \in 1..Cardinality(S) : SetToSeq(S)[i] = SetToSeq(S)[j] => i = j
           /\ \A x \in S : \E i \in 1..Cardinality(S) : SetToSeq(S)[i] = x
<1> DEFINE D == 1..Cardinality(S)
           f == SetToSeq(S)
<1>1. Cardinality(S) \in Nat /\ ExistsBijection(D, S)
  BY FS_CardinalityType
<1>2. \E g \in [D -> S] : IsInjective(g)
  BY <1>1 DEF ExistsBijection, Bijection, Injection, IsInjective
<1>3. f \in [D -> S] /\ IsInjective(f)
  BY <1>2 DEF SetToSeq
<1>4. f \in Injection(D, S)
  BY <1>3 DEF Injection, IsInjective
<1>5. IsFiniteSet(D) /\ Cardinality(D) = Cardinality(S)
  BY <1>1, FS_Interval
<1>6. f \in Surjection(D, S)
  BY Zenon, <1>4, <1>5, FS_Injection
<1> QED BY <1>3, <1>6 DEF IsInjective, Surjection

\* Create appends one running job for each instance of a finite set.
LEMMA Created ==
    ASSUME jobs \in Seq(Entries), NEW S \in SUBSET JobType, IsFiniteSet(S), Create(S)
    PROVE  /\ jobs' \in Seq(Entries) /\ Len(jobs) <= Len(jobs')
           /\ \A i \in 1..Len(jobs) : jobs'[i] = jobs[i]
           /\ \A i \in 1..Len(jobs') : i > Len(jobs) =>
                jobs'[i].job \in S /\ jobs'[i].state = "running"
           /\ \A i, j \in 1..Len(jobs') :
                i > Len(jobs) /\ j > Len(jobs) /\ jobs'[i].job = jobs'[j].job => i = j
           /\ \A x \in S : \E i \in 1..Len(jobs') : jobs'[i].job = x
<1> DEFINE E == {[job |-> i, state |-> "running"] : i \in S}
           m == Cardinality(E)
           f == SetToSeq(E)
           n == Len(jobs)
<1>1. IsFiniteSet(E)
  <2> DEFINE g == [i \in S |-> [job |-> i, state |-> "running"]]
  <2>1. g \in Surjection(S, E)
    BY DEF Surjection
  <2> QED BY <2>1, FS_Surjection
<1>2. m \in Nat /\ n \in Nat
  BY <1>1, FS_CardinalityType
<1>3. /\ f \in [1..m -> E]
      /\ \A i, j \in 1..m : f[i] = f[j] => i = j
      /\ \A x \in E : \E i \in 1..m : f[i] = x
  <2> HIDE DEF E
  <2> QED BY Zenon, <1>1, ListedOnce
<1>4. E \subseteq Entries
  BY DEF Entries
<1>5. jobs' = jobs \o f
  BY DEF Create
<1> HIDE DEF m, f
<1>6. f \in Seq(Entries) /\ Len(f) = m
  <2> HIDE DEF E
  <2>1. f \in [1..m -> Entries]
    BY <1>3, <1>4
  <2> QED BY <1>2, <2>1
<1>7. /\ jobs' \in Seq(Entries) /\ Len(jobs') = n + m
      /\ \A i \in 1..n : jobs'[i] = jobs[i]
      /\ \A i \in 1..m : jobs'[n + i] = f[i]
  <2> HIDE DEF E
  <2>1. /\ jobs' \in Seq(Entries) /\ Len(jobs') = n + m
        /\ \A i \in 1..(n + m) : jobs'[i] = IF i <= n THEN jobs[i] ELSE f[i - n]
    BY Zenon, <1>5, <1>6, ConcatProperties
  <2> HIDE DEF n
  <2>2. \A i \in 1..n : jobs'[i] = jobs[i]
    BY <1>2, <2>1
  <2>3. ASSUME NEW i \in 1..m PROVE jobs'[n + i] = f[i]
    <3>1. n + i \in 1..(n + m) /\ ~(n + i <= n) /\ (n + i) - n = i
      BY <1>2
    <3> QED BY <2>1, <3>1
  <2> QED BY Zenon, <2>1, <2>2, <2>3
<1>8. ASSUME NEW i \in 1..Len(jobs'), i > n
      PROVE  i - n \in 1..m /\ jobs'[i] = f[i - n]
  <2>1. i - n \in 1..m /\ n + (i - n) = i
    BY <1>2, <1>7, <1>8
  <2> QED BY <1>7, <2>1
<1>9. \A x \in E : x.job \in S /\ x.state = "running" /\ x = [job |-> x.job, state |-> "running"]
  OBVIOUS
<1>10. ASSUME NEW i \in 1..Len(jobs'), NEW j \in 1..Len(jobs'), i > n, j > n,
              jobs'[i].job = jobs'[j].job
       PROVE  i = j
  <2>1. f[i - n] \in E /\ f[j - n] \in E /\ f[i - n].job = f[j - n].job
    BY Zenon, <1>3, <1>8, <1>10
  <2>2. f[i - n] = f[j - n]
    <3> HIDE DEF E
    <3> QED BY <1>9, <2>1
  <2>3. i - n = j - n
    <3> HIDE DEF E
    <3> QED BY Zenon, <1>3, <1>8, <1>10, <2>2
  <2> QED BY <1>2, <2>3
<1>11. ASSUME NEW x \in S PROVE \E i \in 1..Len(jobs') : jobs'[i].job = x
  <2>1. PICK i \in 1..m : f[i] = [job |-> x, state |-> "running"]
    BY <1>3
  <2>2. n + i \in 1..Len(jobs') /\ jobs'[n + i] = f[i]
    BY <1>2, <1>7
  <2> QED BY <2>1, <2>2
<1>12. \A i \in 1..Len(jobs') : i > n => jobs'[i].job \in S /\ jobs'[i].state = "running"
  <2> HIDE DEF E
  <2> QED BY Zenon, <1>3, <1>8, <1>9
<1> QED BY <1>2, <1>7, <1>10, <1>11, <1>12

\* A set of numbers that are not above n has a largest one.
LEMMA Largest ==
    ASSUME NEW S \in SUBSET Nat, S # {}, NEW n \in Nat, \A x \in S : x <= n
    PROVE  \E x \in S : \A y \in S : y <= x
<1> DEFINE T == {k \in Nat : n - k \in S}
           R == {ss \in Nat \X Nat : ss[1] < ss[2]}
<1>1. IsWellFoundedOn(R, Nat)
  BY NatLessThanWellFounded DEF OpToRel
<1>2. ASSUME NEW x \in S PROVE n - x \in T
  BY <1>2
<1>3. T \subseteq Nat /\ T # {}
  BY Zenon, <1>2
<1> HIDE DEF R
<1>4. PICK k \in T : \A l \in T : ~(<<l, k>> \in R)
  <2> HIDE DEF T
  <2> QED BY Zenon, <1>1, <1>3, WFMin
<1>5. ASSUME NEW y \in S PROVE y <= n - k
  <2>1. n - y \in T /\ n - y \in Nat /\ k \in Nat /\ y \in Nat
    BY <1>2, <1>3
  <2>2. n - y < k => <<n - y, k>> \in R
    BY <2>1 DEF R
  <2>3. ~(n - y < k)
    BY <1>4, <2>1, <2>2
  <2> QED BY <2>1, <2>3
<1> QED BY <1>4, <1>5

\* The last job of a template that has one.
LEMMA LastJobIs ==
    ASSUME jobs \in Seq(Entries), NEW t, Of(t) # {}
    PROVE  \E i \in Of(t) : LastJob(t) = jobs[i] /\ \A j \in Of(t) : j <= i
<1>1. Of(t) \subseteq Nat /\ Len(jobs) \in Nat /\ \A i \in Of(t) : i <= Len(jobs)
  BY DEF Of
<1>2. \E i \in Of(t) : \A j \in Of(t) : j <= i
  BY Zenon, <1>1, Largest
<1> QED BY Zenon, <1>2 DEF LastJob

----------------------------------------------------------------------------
(* Types.                                                                   *)

\* The entries of the registry that are no jobs.
LEMMA SpecialTypes ==
    /\ Unset \in JobType /\ Empty \in JobType /\ Blank \in JobType
    /\ Unset.tpl = "none" /\ Empty.tpl = "none" /\ Blank.tpl = "none"
    /\ NoRecord \in RegistryType /\ ProcOK(Idle)
<1>1. Unset \in JobType /\ Empty \in JobType /\ Blank \in JobType
  BY DEF Unset, Empty, Blank, Job, JobType, Tags
<1>2. Unset.tpl = "none" /\ Empty.tpl = "none" /\ Blank.tpl = "none"
  BY DEF Unset, Empty, Blank, Job
<1>3. NoRecord \in RegistryType
  BY <1>1 DEF NoRecord, RegistryType, SubFields, Gone, YesNo
<1>4. ProcOK(Idle)
  BY DEF ProcOK, Idle, Reconciling, ProcType, SubType, Labels, Phases, YesNo
<1> QED BY Zenon, <1>1, <1>2, <1>3, <1>4

\* A job of the registry and its name.
LEMMA NewJobType ==
    ASSUME TypeOK, NEW t \in Templates, NEW s \in Existent, NEW rv \in Nat
    PROVE  NewJob(t, s, rv) \in JobType /\ NewJob(t, s, rv).tpl = t
<1> DEFINE tag == IF s.sync # 0 THEN <<"sync", s.sync>>
                  ELSE IF rv # 0 THEN <<"rv", rv>>
                  ELSE <<"commit", GetLatestCommitID(s.ref)>>
<1>1. s.sync \in Nat /\ s.gen \in Nat /\ s.ref \in Refs
  BY DEF Existent, SubFields
<1>2. GetLatestCommitID(s.ref) \in Nat
  <2>1. watched \in [Refs -> 0..MaxCommits] /\ MaxCommits \in Nat
    BY ConstantsAssumption DEF TypeOK
  <2>2. watched[s.ref] \in 0..MaxCommits
    BY <1>1, <2>1
  <2> QED BY <2>1, <2>2 DEF GetLatestCommitID
<1>3. tag \in Tags /\ <<tag[1], tag[2]>> = tag
  <2>1. \A k \in {"sync", "rv", "commit"}, n \in Nat :
          <<k, n>> \in Tags /\ <<<<k, n>>[1], <<k, n>>[2]>> = <<k, n>>
    BY DEF Tags
  <2>2. tag = <<"sync", s.sync>> \/ tag = <<"rv", rv>> \/ tag = <<"commit", GetLatestCommitID(s.ref)>>
    OBVIOUS
  <2> HIDE DEF tag
  <2> QED BY SMTT(60), <1>1, <1>2, <2>1, <2>2
<1>4. decision.clusters \in SUBSET Clusters
  BY DEF TypeOK
<1>5. NewJob(t, s, rv) = [tpl |-> t, gen |-> s.gen, tag |-> tag, clusters |-> decision.clusters]
  BY Zenon, <1>3 DEF NewJob, Job, GetClustersByPlacement
<1> HIDE DEF tag
<1> QED BY <1>1, <1>3, <1>4, <1>5 DEF JobType

\* What is registered for a template: nothing, its next job, or its last one.
LEMMA RegisteredType ==
    ASSUME TypeOK, NEW t \in Templates, NEW s \in Existent, NEW rv \in Nat
    PROVE  /\ Registered(t, s, rv) \in JobType
           /\ \/ Registered(t, s, rv) \in {Empty, registry.inst[t]}
              \/ /\ Registered(t, s, rv) = NewJob(t, s, rv)
                 /\ Of(t) = {} \/ LastJob(t).state = "successful"
              \/ Of(t) # {} /\ Registered(t, s, rv) = LastJob(t).job
<1>1. NewJob(t, s, rv) \in JobType
  BY NewJobType
<1>2. registry.inst[t] \in JobType
  BY DEF TypeOK, RegistryType
<1>3. Of(t) # {} => LastJob(t).job \in JobType
  <2>1. \A i \in Of(t) : jobs[i] \in Entries
    BY DEF Of, TypeOK
  <2> QED BY Zenon, <2>1, LastJobIs DEF TypeOK, Entries
<1> QED BY Zenon, <1>1, <1>2, <1>3, SpecialTypes DEF Registered, RegistryAnsibleJob

\* The jobs that the registry lists are names.
LEMMA ListedType ==
    ASSUME TypeOK, NEW S \in SUBSET Templates
    PROVE  Listed(S) \in SUBSET Names
<1>1. \A i \in JobType : Name(i) \in Names
  BY DEF Name, Names, JobType
<1>2. \A t \in Templates : registry.inst[t] \in JobType
  BY DEF TypeOK, RegistryType
<1> QED BY <1>1, <1>2 DEF Listed

\* The status that finalCommit writes.
LEMMA HookStatusType ==
    ASSUME TypeOK, NEW phase \in Phases, NEW passed
    PROVE  HookStatus(phase, passed) \in StatusType
<1>1. Listed(Pre) \in SUBSET Names /\ Listed(Post) \in SUBSET Names
  BY ListedType DEF Templates
<1>2. [status EXCEPT !.phase = phase] \in StatusType
  BY Zenon DEF TypeOK, StatusType
<1> QED BY <1>1, <1>2 DEF HookStatus, StatusType

\* The types hold at the start.
LEMMA InitType == Init => TypeOK
<1> SUFFICES ASSUME Init PROVE TypeOK
  OBVIOUS
<1>1. /\ head \in [Refs -> 1..MaxCommits] /\ watched \in [Refs -> 0..MaxCommits]
      /\ round \in SUBSET Refs /\ dir \in 0..MaxCommits
  <2>1. /\ head = [r \in Refs |-> r] /\ watched = [r \in Refs |-> 0] /\ round = {} /\ dir = 0
    BY Zenon DEF Init
  <2>2. MaxCommits \in Nat /\ Refs \subseteq 1..MaxCommits
    BY ConstantsAssumption
  <2> QED BY <2>1, <2>2
<1>2. sub \in SubType
  <2>1. PICK r \in Refs : sub = [Gone EXCEPT !.ref = r, !.gen = 1]
    BY Zenon DEF Init
  <2>2. sub = [ref |-> r, gen |-> 1, sync |-> 0, note |-> 0, fake |-> "no", topo |-> {}]
    BY Zenon, <2>1 DEF Gone
  <2> QED BY <2>2 DEF SubType, Existent, SubFields, YesNo
<1>3. placed \in SUBSET Clusters /\ decision \in [clusters: SUBSET Clusters, rv: Nat]
  <2>1. (CHOOSE c \in Clusters : TRUE) \in Clusters
    BY ConstantsAssumption
  <2> QED BY Zenon, <2>1 DEF Init
<1>4. status \in StatusType
  BY Zenon DEF Init, NoStatus, StatusType, Phases
<1>5. jobs \in Seq(Entries)
  <2>1. jobs = <<>>
    BY Zenon DEF Init
  <2> QED BY <2>1
<1>6. /\ registry = NoRecord /\ works = {} /\ queue = {0} /\ proc = Idle
      /\ lost = "no" /\ edits = 0 /\ faults = 0
  BY Zenon DEF Init
<1> QED BY SMTT(60), <1>1, <1>2, <1>3, <1>4, <1>5, <1>6, SpecialTypes DEF TypeOK, YesNo

\* What an edit makes of a Subscription that exists.
LEMMA EditedType ==
    ASSUME NEW s \in Existent, NEW r \in Refs, NEW n \in Nat, NEW f \in YesNo,
           NEW p \in SUBSET Names
    PROVE  /\ [s EXCEPT !.gen = @ + 1] \in Existent
           /\ [s EXCEPT !.sync = n] \in Existent
           /\ [s EXCEPT !.ref = r] \in Existent
           /\ [s EXCEPT !.note = n, !.fake = f] \in Existent
           /\ [s EXCEPT !.topo = p] \in Existent
<1> USE DEF Existent, SubFields
<1>1. [s EXCEPT !.gen = @ + 1] \in Existent
  BY s.gen + 1 \in Nat
<1>2. [s EXCEPT !.sync = n] \in Existent
  OBVIOUS
<1>3. [s EXCEPT !.ref = r] \in Existent
  OBVIOUS
<1>4. [s EXCEPT !.note = n, !.fake = f] \in Existent
  BY Zenon
<1>5. [s EXCEPT !.topo = p] \in Existent
  OBVIOUS
<1> QED BY Zenon, <1>1, <1>2, <1>3, <1>4, <1>5

\* A failing or successful call counts faults; edits count edits.
LEMMA Counters ==
    ASSUME TypeOK, NEW f
    PROVE  /\ Fail(f) \/ Ok => faults' \in Nat
           /\ Edit(f) => edits' \in Nat
BY DEF TypeOK, Fail, Ok, Edit

\* The steps of users, the placement controller and Ansible, and a restart, keep the types.
LEMMA EnvironmentType ==
    ASSUME TypeOK, Environment
    PROVE  TypeOK'
<1>1. CASE EditSub
  <2>1. sub \in Existent
    BY <1>1 DEF EditSub, Exists, TypeOK, SubType
  <2>2. edits' \in Nat /\ edits + 1 \in Nat
    BY <1>1, Counters DEF EditSub, TypeOK
  <2>3. \/ sub' = [sub EXCEPT !.gen = @ + 1] \/ sub' = [sub EXCEPT !.sync = edits + 1]
        \/ \E r \in Refs : sub' = [sub EXCEPT !.ref = r]
        \/ sub' = Gone
    BY <1>1 DEF EditSub
  <2>4. sub' \in SubType
    <3>1. {} \in SUBSET Names /\ "no" \in YesNo /\ \E r : r \in Refs
      BY <2>1 DEF Existent, SubFields, YesNo
    <3>2. sub' \in Existent \/ sub' = Gone
      BY ZenonT(60), <2>1, <2>2, <2>3, <3>1, EditedType
    <3> QED BY <3>2 DEF SubType
  <2>5. jobs' \in Seq(Entries)
    <3>1. jobs' = jobs \/ jobs' = <<>>
      BY <1>1 DEF EditSub
    <3>2. jobs \in Seq(Entries) /\ <<>> \in Seq(Entries)
      BY DEF TypeOK
    <3> QED BY <3>1, <3>2, Zenon
  <2>6. queue' \in SUBSET Nat
    BY <1>1 DEF EditSub, TypeOK
  <2> QED BY ZenonT(60), <1>1, <2>2, <2>4, <2>5, <2>6 DEF EditSub, Inside, TypeOK
<1>2. CASE Decide
  BY Zenon, <1>2, Counters DEF Decide, Inside, TypeOK
<1>3. CASE Publish
  <2>1. /\ decision.rv \in Nat /\ decision.rv + 1 \in Nat /\ placed \in SUBSET Clusters
        /\ queue \in SUBSET Nat
    BY DEF TypeOK
  <2>2. /\ decision' = [clusters |-> placed, rv |-> decision.rv + 1]
        /\ queue' = queue \/ queue' = queue \cup {decision.rv + 1}
    BY <1>3 DEF Publish
  <2>3. decision' \in [clusters: SUBSET Clusters, rv: Nat] /\ queue' \in SUBSET Nat
    BY Zenon, <2>1, <2>2
  <2> QED BY Zenon, <1>3, <2>3 DEF Publish, Inside, TypeOK
<1>4. ASSUME NEW r \in Refs, Push(r) PROVE TypeOK'
  <2> DEFINE S == Range(head)
             m == Max(S)
  <2>1. S \in SUBSET (1..MaxCommits) /\ S # {} /\ MaxCommits \in Nat
    <3>1. head \in [Refs -> 1..MaxCommits] /\ MaxCommits \in Nat
      BY ConstantsAssumption DEF TypeOK
    <3>2. head[r] \in Range(head)
      BY <3>1 DEF Range
    <3> QED BY Zenon, <3>1, <3>2 DEF Range
  <2> HIDE DEF S
  <2>2. \E x \in S : \A y \in S : y <= x
    <3>1. S \in SUBSET Nat /\ \A x \in S : x <= MaxCommits
      BY <2>1
    <3> QED BY Zenon, <2>1, <3>1, Largest
  <2>3. m \in S
    BY Zenon, <2>1, <2>2 DEF Max
  <2>4. m + 1 <= MaxCommits /\ head' = [head EXCEPT ![r] = m + 1]
    BY <1>4 DEF Push, S
  <2> HIDE DEF m
  <2>5. m + 1 \in 1..MaxCommits
    BY <2>1, <2>3, <2>4
  <2>6. head' \in [Refs -> 1..MaxCommits]
    BY <2>4, <2>5 DEF TypeOK
  <2> QED BY Zenon, <1>4, <2>6, Counters DEF Push, Inside, TypeOK
<1>5. ASSUME NEW i \in DOMAIN jobs, EndJob(i) PROVE TypeOK'
  <2>1. ASSUME NEW x \in {"successful", "failed"}
        PROVE  [jobs EXCEPT ![i].state = x] \in Seq(Entries)
    <3>1. i \in 1..Len(jobs) /\ jobs[i] \in Entries
      BY DEF TypeOK
    <3>2. [jobs[i] EXCEPT !.state = x] \in Entries
      BY <3>1 DEF Entries
    <3>3. [jobs EXCEPT ![i] = [jobs[i] EXCEPT !.state = x]] \in Seq(Entries)
      BY Zenon, <3>1, <3>2, ExceptSeq DEF TypeOK
    <3> QED BY <3>3
  <2>2. jobs' \in Seq(Entries) /\ faults' \in Nat /\ lost' \in YesNo
    BY Zenon, <1>5, <2>1, Counters DEF EndJob, Lose, Keep, TypeOK, YesNo
  <2> QED BY <1>5, <2>2 DEF EndJob, TypeOK
<1>6. CASE Restart
  <2>1. /\ watched' = [r \in Refs |-> 0] /\ round' = {} /\ registry' = NoRecord /\ proc' = Idle
        /\ queue' = {0, decision.rv} \/ queue' = {}
    BY Zenon, <1>6 DEF Restart
  <2>2. /\ watched' \in [Refs -> 0..MaxCommits] /\ round' \in SUBSET Refs
        /\ queue' \in SUBSET Nat /\ faults' \in Nat
    BY <1>6, <2>1, ConstantsAssumption, Counters DEF Restart, TypeOK
  <2> QED BY Zenon, <1>6, <2>1, <2>2, SpecialTypes DEF Restart, Outside, TypeOK
<1> QED BY ZenonT(60), <1>1, <1>2, <1>3, <1>4, <1>5, <1>6 DEF Environment

\* The steps of the watcher keep the types.
LEMMA WatcherType ==
    ASSUME TypeOK, Watcher
    PROVE  TypeOK'
<1>1. CASE GitWatch
  BY <1>1 DEF GitWatch, Outside, TypeOK
<1>2. ASSUME NEW r \in Refs, WatchRef(r) PROVE TypeOK'
  <2>1. head[r] \in 1..MaxCommits /\ head[r] \in 0..MaxCommits /\ head[r] \in Nat
    BY ConstantsAssumption DEF TypeOK
  <2>2. watched' \in [Refs -> 0..MaxCommits] /\ dir' \in 0..MaxCommits
    BY Zenon, <1>2, <2>1 DEF WatchRef, TypeOK
  <2>3. sub' \in SubType
    <3>1. CASE UNCHANGED sub
      BY <3>1 DEF TypeOK
    <3>2. CASE ~UNCHANGED sub
      <4>1. Exists /\ sub' = [sub EXCEPT !.note = head[r], !.fake = "yes"]
        BY Zenon, <1>2, <3>2 DEF WatchRef, Annotated
      <4>2. sub \in Existent
        BY <4>1 DEF Exists, TypeOK, SubType
      <4> QED BY Zenon, <2>1, <4>1, <4>2, EditedType DEF SubType, YesNo
    <3> QED BY Zenon, <3>1, <3>2
  <2>4. faults' \in Nat
    BY Zenon, <1>2, Counters DEF WatchRef
  <2>5. lost' \in YesNo
    BY <1>2 DEF WatchRef, Lose, Keep, TypeOK, YesNo
  <2>6. queue' \in SUBSET Nat
    BY <1>2 DEF WatchRef, TypeOK
  <2> QED BY ZenonT(60), <1>2, <2>2, <2>3, <2>4, <2>5, <2>6 DEF WatchRef, Outside, TypeOK
<1> QED BY Zenon, <1>1, <1>2 DEF Watcher

Busily == Labels \ {"idle"}

\* The fields of the reconcile in progress.
LEMMA ProcFields ==
    ASSUME NEW p, ProcOK(p), p.pc # "idle"
    PROVE  /\ \A l \in Busily :
                ProcOK([p EXCEPT !.pc = l])
           /\ \A l \in Busily, f \in Phases :
                ProcOK([p EXCEPT !.pc = l, !.phase = f])
           /\ \A l \in Busily, f \in Phases, y \in YesNo :
                ProcOK([p EXCEPT !.pc = l, !.phase = f, !.passed = y])
           /\ \A l \in Busily, z \in YesNo :
                ProcOK([p EXCEPT !.aliased = z, !.pc = l])
           /\ \A l \in Busily, f \in Phases, y \in YesNo, z \in YesNo :
                ProcOK([p EXCEPT !.aliased = z, !.pc = l, !.phase = f, !.passed = y])
           /\ \A l \in Busily, f \in Phases, y \in YesNo, n \in Existent :
                ProcOK([p EXCEPT !.pc = l, !.phase = f, !.passed = y, !.new = n])
           /\ \A l \in Busily, z \in YesNo, n \in Existent :
                ProcOK([p EXCEPT !.pc = l, !.new = n, !.err = z])
           /\ \A l \in Busily, n \in Existent :
                ProcOK([p EXCEPT !.pc = l, !.new = n])
           /\ \A l \in Busily, f \in Phases, z \in YesNo :
                ProcOK([p EXCEPT !.pc = l, !.phase = f, !.err = z])
<1> USE DEF ProcOK, ProcType, SubType, Busily
<1>1. \A l \in Busily :
        ProcOK([p EXCEPT !.pc = l])
  OBVIOUS
<1>2. \A l \in Busily, f \in Phases :
        ProcOK([p EXCEPT !.pc = l, !.phase = f])
  BY Zenon
<1>3. \A l \in Busily, f \in Phases, y \in YesNo :
        ProcOK([p EXCEPT !.pc = l, !.phase = f, !.passed = y])
  BY Zenon
<1>4. \A l \in Busily, z \in YesNo :
        ProcOK([p EXCEPT !.aliased = z, !.pc = l])
  BY Zenon
<1>5. \A l \in Busily, f \in Phases, y \in YesNo, z \in YesNo :
        ProcOK([p EXCEPT !.aliased = z, !.pc = l, !.phase = f, !.passed = y])
  <2> TAKE l \in Busily, f \in Phases, y \in YesNo, z \in YesNo
  <2>1. [p EXCEPT !.aliased = z, !.pc = l, !.phase = f, !.passed = y] \in ProcType
    BY Zenon
  <2> QED BY ZenonT(60), <2>1
<1>6. \A l \in Busily, f \in Phases, y \in YesNo, n \in Existent :
        ProcOK([p EXCEPT !.pc = l, !.phase = f, !.passed = y, !.new = n])
  BY ZenonT(30)
<1>7. \A l \in Busily, z \in YesNo, n \in Existent :
        ProcOK([p EXCEPT !.pc = l, !.new = n, !.err = z])
  BY Zenon
<1>8. \A l \in Busily, n \in Existent :
        ProcOK([p EXCEPT !.pc = l, !.new = n])
  BY Zenon
<1>9. \A l \in Busily, f \in Phases, z \in YesNo :
        ProcOK([p EXCEPT !.pc = l, !.phase = f, !.err = z])
  BY Zenon
<1> QED BY ZenonT(60), <1>1, <1>2, <1>3, <1>4, <1>5, <1>6, <1>7, <1>8, <1>9

\* A reconcile goes on, or goes to finalCommit with a phase.
LEMMA ProcMoves ==
    ASSUME ProcOK(proc), proc.pc # "idle"
    PROVE  /\ \A l \in {"hooks", "registry", "apply", "check", "resources", "work", "post"} :
                ProcOK([proc EXCEPT !.pc = l])
           /\ \A f \in {"hooks", "prehook", "Propagated"}, y \in YesNo :
                ProcOK([proc EXCEPT !.pc = "final", !.phase = f, !.passed = y])
<1>1. proc.new \in Existent
  BY DEF ProcOK
<1>2. \A l \in {"hooks", "registry", "apply", "check", "resources", "work", "post"} :
        l \in Busily
  BY DEF Labels, Busily
<1>3. {"hooks", "prehook", "Propagated"} \subseteq Phases /\ "yes" \in YesNo /\ "no" \in YesNo
      /\ "final" \in Busily
  BY DEF Phases, YesNo, Labels, Busily
<1> QED BY Zenon, <1>1, <1>2, <1>3, ProcFields

\* What applyJobs does to the jobs: some instances of the registry that do not exist are created.
Applied(S) == UNCHANGED jobs \/ \E D \in SUBSET (Todo(S) \ {Blank}) : Create(D)

\* The instances that are to be created are jobs, and finitely many.
LEMMA TodoType ==
    ASSUME TypeOK, NEW S \in SUBSET Templates, NEW D \in SUBSET (Todo(S) \ {Blank})
    PROVE  D \in SUBSET JobType /\ IsFiniteSet(D)
<1> DEFINE f == [t \in Templates |-> registry.inst[t]]
           I == {registry.inst[t] : t \in Templates}
<1>1. registry.inst \in [Templates -> JobType]
  BY DEF TypeOK, RegistryType
<1>2. IsFiniteSet(I)
  <2>1. f \in Surjection(Templates, I)
    BY DEF Surjection
  <2> HIDE DEF f, I
  <2> QED BY Zenon, <2>1, FS_Surjection, ConstantsAssumption
<1>3. D \subseteq I
  BY DEF Todo
<1>4. IsFiniteSet(D)
  <2> HIDE DEF I
  <2> QED BY Zenon, <1>2, <1>3, FS_Subset
<1> QED BY Zenon, <1>1, <1>3, <1>4

\* Jobs are added to the jobs.
LEMMA AppliedType ==
    ASSUME TypeOK, NEW S \in SUBSET Templates, Applied(S)
    PROVE  jobs' \in Seq(Entries)
<1>1. jobs \in Seq(Entries)
  BY DEF TypeOK
<1>2. ASSUME NEW D \in SUBSET (Todo(S) \ {Blank}), Create(D) PROVE jobs' \in Seq(Entries)
  BY Zenon, <1>1, <1>2, TodoType, Created
<1> QED BY Zenon, <1>1, <1>2 DEF Applied

\* The two places where applyJobs is called.
LEMMA Applies ==
    ASSUME TypeOK
    PROVE  /\ ApplyPreHooks => Applied(Pre) /\ \E f : Fail(f) \/ Ok
           /\ ApplyPostHooks => Applied(Post) /\ \E f : Fail(f) \/ Ok
<1>1. \A S : Blank \notin Todo(S) => Todo(S) \in SUBSET (Todo(S) \ {Blank})
  OBVIOUS
<1>2. ApplyPreHooks => Applied(Pre) /\ \E f : Fail(f) \/ Ok
  BY Zenon, <1>1 DEF ApplyPreHooks, ApplyJobs, Applied
<1>3. ApplyPostHooks => Applied(Post) /\ \E f : Fail(f) \/ Ok
  BY <1>1 DEF ApplyPostHooks, ApplyJobs, Applied
<1> QED BY Zenon, <1>2, <1>3

\* The first steps of a reconcile keep the types.
LEMMA BeginType ==
    ASSUME TypeOK, Reconcile \/ RegisterBranch \/ RegisterSubscription
    PROVE  TypeOK'
<1>1. CASE Reconcile
  <2>1. PICK k \in queue :
          /\ queue' = queue \ {k}
          /\ \/ /\ Exists
                /\ proc' = [Reconciling("branch", k, sub) EXCEPT !.phase = status.phase]
                /\ UNCHANGED <<registry, watched, works>>
             \/ /\ registry' = NoRecord /\ watched' = Deregistered /\ works' = {}
                /\ UNCHANGED proc
    BY <1>1 DEF Reconcile
  <2>2. queue' \in SUBSET Nat /\ k \in Nat
    BY <2>1 DEF TypeOK
  <2>3. Deregistered \in [Refs -> 0..MaxCommits]
    BY ConstantsAssumption DEF Deregistered
  <2>4. CASE UNCHANGED proc /\ registry' = NoRecord /\ watched' = Deregistered /\ works' = {}
    BY ZenonT(60), <1>1, <2>2, <2>3, <2>4, SpecialTypes DEF Reconcile, TypeOK
  <2>5. CASE Exists /\ proc' = [Reconciling("branch", k, sub) EXCEPT !.phase = status.phase]
             /\ UNCHANGED <<registry, watched, works>>
    <3>1. sub \in Existent /\ status.phase \in Phases
      BY Zenon, <2>5 DEF Exists, TypeOK, SubType, StatusType
    <3>2. proc' = [pc |-> "branch", key |-> k, snap |-> sub, new |-> sub,
                   phase |-> status.phase, passed |-> "yes", aliased |-> "no", err |-> "no"]
      BY Zenon, <2>5 DEF Reconciling
    <3>3. ProcOK(proc')
      BY ZenonT(60), <2>2, <3>1, <3>2 DEF ProcOK, ProcType, SubType, Labels, YesNo
    <3> QED BY Zenon, <1>1, <2>2, <2>5, <3>3 DEF Reconcile, TypeOK
  <2> QED BY Zenon, <2>1, <2>4, <2>5
<1>2. CASE RegisterBranch
  <2>1. proc.pc = "branch" /\ proc.snap \in Existent /\ ProcOK(proc)
    BY Zenon, <1>2 DEF RegisterBranch, TypeOK, ProcOK
  <2>2. proc.snap.ref \in Refs
    BY <2>1 DEF Existent, SubFields
  <2>3. head[proc.snap.ref] \in 0..MaxCommits
    <3>1. head \in [Refs -> 1..MaxCommits] /\ MaxCommits \in Nat
      BY ConstantsAssumption DEF TypeOK
    <3>2. head[proc.snap.ref] \in 1..MaxCommits
      BY Zenon, <2>2, <3>1
    <3> QED BY <3>1, <3>2
  <2>4. watched' \in [Refs -> 0..MaxCommits] /\ dir' \in 0..MaxCommits
    BY Zenon, <1>2, <2>3 DEF RegisterBranch, TypeOK
  <2>5. status' \in StatusType
    <3>1. HookStatus("branch", "no") \in StatusType
      BY HookStatusType DEF Phases
    <3> QED BY Zenon, <1>2, <3>1 DEF RegisterBranch, TypeOK
  <2>6. ProcOK(proc')
    <3>1. ProcOK([proc EXCEPT !.pc = "hooks"])
      BY Zenon, <2>1, ProcMoves
    <3> QED BY Zenon, <1>2, <3>1, SpecialTypes DEF RegisterBranch, Step
  <2>7. faults' \in Nat /\ lost' \in YesNo /\ queue' = queue
    BY Zenon, <1>2, Counters DEF RegisterBranch, Lose, Keep, TypeOK, YesNo
  <2> QED BY ZenonT(60), <1>2, <2>4, <2>5, <2>6, <2>7 DEF RegisterBranch, Outside, TypeOK
<1>3. CASE RegisterSubscription
  <2>1. proc.pc = "hooks" /\ ProcOK(proc)
    BY Zenon, <1>3 DEF RegisterSubscription, TypeOK
  <2>2. \/ \E l \in {"apply", "resources", "registry"} : proc' = [proc EXCEPT !.pc = l]
        \/ proc' = [proc EXCEPT !.pc = "final", !.phase = "hooks", !.passed = "no"]
    BY <1>3 DEF RegisterSubscription, AfterHooks, Finally, Step
  <2>3. ProcOK(proc')
    BY Zenon, <2>1, <2>2, ProcMoves DEF YesNo
  <2> QED BY Zenon, <1>3, <2>3 DEF RegisterSubscription, Outside, TypeOK
<1> QED BY Zenon, <1>1, <1>2, <1>3

\* The registration of the hooks: it enters an instance for each of some templates, which is
\* Blank for at most one of them.
LEMMA AddHookStep ==
    ASSUME TypeOK, AddHookToRegistry
    PROVE  /\ proc.pc = "registry"
           /\ registry' \in RegistryType
           /\ \A t \in Templates :
                registry'.inst[t] \in {registry.inst[t], Blank, Registered(t, proc.snap, proc.key)}
           /\ \E z \in YesNo :
                \/ proc' = [proc EXCEPT !.aliased = z,
                              !.pc = IF \E t \in Pre : registry'.inst[t] # Unset
                                     THEN "apply" ELSE "resources"]
                \/ proc' = [proc EXCEPT !.aliased = z, !.pc = "final", !.phase = "hooks",
                                        !.passed = "no"]
           /\ faults' \in Nat /\ lost' \in YesNo
<1> DEFINE found == GetHooks
           all == [t \in found |-> Registered(t, proc.snap, proc.key)]
           last == IF found # {} \/ registry.on = "no" THEN proc.snap ELSE registry.last
           aliased == IF found # {} \/ registry.on = "no" THEN "yes" ELSE "no"
           Enter(S, f) == registry' = [on |-> "yes", last |-> last,
                            inst |-> [t \in Templates |-> IF t \in S THEN f[t] ELSE registry.inst[t]]]
<1>1. /\ proc.pc = "registry" /\ ProcOK(proc) /\ proc.snap \in Existent /\ proc.key \in Nat
      /\ registry \in RegistryType
  BY DEF AddHookToRegistry, TypeOK, ProcOK, ProcType
<1>2. last \in SubFields(Refs \cup {0}) /\ aliased \in YesNo
  BY <1>1 DEF RegistryType, Existent, SubFields, YesNo
<1>3. \E S \in SUBSET found : \E f :
        /\ Enter(S, f)
        /\ \A t \in S : f[t] \in {Blank, Registered(t, proc.snap, proc.key)}
  <2>1. \A t \in found : all[t] \in {Blank, Registered(t, proc.snap, proc.key)}
    OBVIOUS
  <2>2. \A u \in found, t \in found :
          [all EXCEPT ![u] = Blank][t] \in {Blank, Registered(t, proc.snap, proc.key)}
    OBVIOUS
  <2>3. \/ Enter(found, all)
        \/ \E u \in found : Enter(found, [all EXCEPT ![u] = Blank])
        \/ \E S \in SUBSET found : Enter(S, all)
    BY Zenon DEF AddHookToRegistry
  <2> HIDE DEF all, found, Enter
  <2> QED BY ZenonT(60), <2>1, <2>2, <2>3
<1>g. PICK S \in SUBSET found : \E f :
        /\ Enter(S, f)
        /\ \A t \in S : f[t] \in {Blank, Registered(t, proc.snap, proc.key)}
  BY Zenon, <1>3
<1>4. PICK f :
        /\ Enter(S, f)
        /\ \A t \in S : f[t] \in {Blank, Registered(t, proc.snap, proc.key)}
  BY Zenon, <1>g
<1>5. \A t \in Templates : Registered(t, proc.snap, proc.key) \in JobType
                           /\ registry.inst[t] \in JobType
  BY Zenon, <1>1, RegisteredType DEF RegistryType
<1>6. registry' \in RegistryType
  <2> DEFINE inst == [t \in Templates |-> IF t \in S THEN f[t] ELSE registry.inst[t]]
  <2>1. inst \in [Templates -> JobType]
    BY Zenon, <1>4, <1>5, SpecialTypes
  <2>2. registry' = [on |-> "yes", last |-> last, inst |-> inst]
    BY ZenonT(60), <1>4
  <2> HIDE DEF inst, last
  <2> QED BY ZenonT(60), <1>2, <2>1, <2>2 DEF RegistryType, YesNo
<1>7. \A t \in Templates :
        registry'.inst[t] \in {registry.inst[t], Blank, Registered(t, proc.snap, proc.key)}
  BY <1>4
<1>8. \/ proc' = [proc EXCEPT !.aliased = aliased,
                              !.pc = IF \E t \in Pre : registry'.inst[t] # Unset
                                     THEN "apply" ELSE "resources"]
      \/ proc' = [proc EXCEPT !.aliased = aliased, !.pc = "final", !.phase = "hooks",
                              !.passed = "no"]
  BY DEF AddHookToRegistry
<1>9. faults' \in Nat /\ lost' \in YesNo
  <2>1. \E k : Fail(k) \/ Ok
    BY DEF AddHookToRegistry
  <2>2. lost' \in {"yes", lost}
    BY DEF AddHookToRegistry, Lose, Keep
  <2> QED BY ZenonT(60), <2>1, <2>2, Counters DEF TypeOK, YesNo
<1> HIDE DEF aliased
<1> QED BY ZenonT(60), <1>1, <1>2, <1>6, <1>7, <1>8, <1>9

\* The steps about hooks and their jobs keep the types.
LEMMA HooksType ==
    ASSUME TypeOK, AddHookToRegistry \/ ApplyPreHooks \/ IsPreHooksCompleted \/ ApplyPostHooks
    PROVE  TypeOK'
<1>0. ProcOK(proc) /\ registry \in RegistryType
  BY DEF TypeOK
<1>1. CASE AddHookToRegistry
  <2>1. PICK z \in YesNo, l \in {"apply", "resources"} :
                \/ proc' = [proc EXCEPT !.aliased = z, !.pc = l]
                \/ proc' = [proc EXCEPT !.aliased = z, !.pc = "final", !.phase = "hooks",
                                        !.passed = "no"]
    BY Zenon, <1>1, AddHookStep
  <2>2. /\ proc.new \in Existent /\ proc.pc # "idle"
        /\ l \in Busily /\ "final" \in Busily
        /\ "hooks" \in Phases /\ "no" \in YesNo
    BY Zenon, <1>0, <1>1, AddHookStep DEF ProcOK, Labels, Busily, Phases, YesNo
  <2>3. ProcOK(proc')
    <3>1. ProcOK([proc EXCEPT !.aliased = z, !.pc = l])
      BY Zenon, <1>0, <2>2, ProcFields
    <3>2. ProcOK([proc EXCEPT !.aliased = z, !.pc = "final", !.phase = "hooks", !.passed = "no"])
      BY ZenonT(60), <1>0, <2>2, ProcFields
    <3> QED BY ZenonT(60), <2>1, <3>1, <3>2
  <2> QED BY Zenon, <1>1, <2>3, AddHookStep DEF AddHookToRegistry, Outside, TypeOK
<1>2. CASE ApplyPreHooks
  <2>1. proc.pc = "apply"
    BY <1>2 DEF ApplyPreHooks
  <2>2. proc' = [proc EXCEPT !.pc = "check"]
        \/ proc' = [proc EXCEPT !.pc = "final", !.phase = "prehook", !.passed = "no"]
    BY <1>2 DEF ApplyPreHooks, ApplyJobs, Step, Finally
  <2>3. ProcOK(proc')
    BY ZenonT(60), <1>0, <2>1, <2>2, ProcMoves DEF YesNo
  <2>4. jobs' \in Seq(Entries) /\ faults' \in Nat
    BY ZenonT(60), <1>2, Applies, AppliedType, Counters DEF Templates
  <2> QED BY ZenonT(60), <1>2, <2>3, <2>4 DEF ApplyPreHooks, Outside, TypeOK
<1>3. CASE IsPreHooksCompleted
  <2>1. proc.pc = "check" /\ proc.new \in Existent /\ proc \in ProcType
    BY Zenon, <1>0, <1>3 DEF IsPreHooksCompleted, ProcOK
  <2> DEFINE n == [proc.new EXCEPT !.topo = Listed(Pre)]
  <2>2. Listed(Pre) \in SUBSET Names
    BY ListedType DEF Templates
  <2>3. n \in Existent
    <3>1. \E r : r \in Refs
      BY <2>1 DEF Existent, SubFields
    <3> QED BY ZenonT(60), <2>1, <2>2, <3>1, EditedType DEF YesNo
  <2>4. \/ proc' = [proc EXCEPT !.pc = "resources", !.phase = "PreHookSuccessful"]
        \/ proc' = [proc EXCEPT !.pc = "final", !.phase = "prehook", !.passed = "no", !.new = n]
        \/ proc' = [proc EXCEPT !.pc = "final", !.new = n, !.err = "yes"]
    BY Zenon, <1>3, <2>1 DEF IsPreHooksCompleted, ProcType
  <2>5. /\ "resources" \in Busily /\ "final" \in Busily
        /\ "PreHookSuccessful" \in Phases /\ "prehook" \in Phases
        /\ "yes" \in YesNo /\ "no" \in YesNo
    BY DEF Labels, Busily, Phases, YesNo
  <2>6. ProcOK(proc')
    <3> HIDE DEF n
    <3>1. ProcOK([proc EXCEPT !.pc = "resources", !.phase = "PreHookSuccessful"])
      BY ZenonT(60), <1>0, <2>1, <2>5, ProcFields
    <3>2. ProcOK([proc EXCEPT !.pc = "final", !.phase = "prehook", !.passed = "no", !.new = n])
      BY ZenonT(60), <1>0, <2>1, <2>3, <2>5, ProcFields
    <3>3. ProcOK([proc EXCEPT !.pc = "final", !.new = n, !.err = "yes"])
      BY ZenonT(60), <1>0, <2>1, <2>3, <2>5, ProcFields
    <3> QED BY ZenonT(60), <2>4, <3>1, <3>2, <3>3
  <2>7. faults' \in Nat
    BY Zenon, <1>3, Counters DEF IsPreHooksCompleted
  <2> QED BY Zenon, <1>3, <2>6, <2>7 DEF IsPreHooksCompleted, Outside, TypeOK
<1>4. CASE ApplyPostHooks
  <2>1. proc' = Idle
    BY <1>4 DEF ApplyPostHooks
  <2>2. jobs' \in Seq(Entries) /\ faults' \in Nat
    BY ZenonT(60), <1>4, Applies, AppliedType, Counters DEF Templates
  <2>3. queue' \in SUBSET Nat
    BY Zenon, <1>0, <1>4 DEF ApplyPostHooks, Requeue, TypeOK, ProcOK, ProcType
  <2>4. lost' \in YesNo
    BY ZenonT(60), <1>4 DEF ApplyPostHooks, ApplyJobs, Lose, Keep, TypeOK, YesNo
  <2> QED BY ZenonT(60), <1>4, <2>1, <2>2, <2>3, <2>4, SpecialTypes DEF ApplyPostHooks, Outside, TypeOK
<1> QED BY ZenonT(60), <1>1, <1>2, <1>3, <1>4

\* The resources, the propagation and finalCommit keep the types.
LEMMA EndType ==
    ASSUME TypeOK, GetGitResources \/ Propagate \/ FinalCommit
    PROVE  TypeOK'
<1>0. ProcOK(proc) /\ registry \in RegistryType
  BY DEF TypeOK
<1>1. CASE GetGitResources
  <2> DEFINE c == GetLatestCommitID(proc.snap.ref)
             n == [proc.new EXCEPT !.note = c, !.fake = "no"]
  <2>1. /\ proc.pc = "resources" /\ proc.new \in Existent /\ proc \in ProcType
        /\ proc.snap \in Existent
    BY Zenon, <1>0, <1>1 DEF GetGitResources, ProcOK
  <2>2. proc.snap.ref \in Refs
    BY <2>1 DEF Existent, SubFields
  <2>3. c \in Nat
    <3>1. watched \in [Refs -> 0..MaxCommits] /\ MaxCommits \in Nat
      BY ConstantsAssumption DEF TypeOK
    <3>2. watched[proc.snap.ref] \in 0..MaxCommits
      BY Zenon, <2>2, <3>1
    <3> QED BY <3>1, <3>2 DEF GetLatestCommitID
  <2>4. n \in Existent
    BY ZenonT(60), <2>1, <2>2, <2>3, EditedType DEF YesNo
  <2>5. \/ proc' = [proc EXCEPT !.pc = "work", !.new = n]
        \/ proc' = [proc EXCEPT !.pc = "final", !.phase = "resources", !.err = "yes"]
    BY Zenon, <1>1, <2>1 DEF GetGitResources, ProcType
  <2>6. ProcOK(proc')
    <3>1. /\ "work" \in Busily /\ "final" \in Busily
          /\ "resources" \in Phases /\ "yes" \in YesNo
      BY DEF Labels, Busily, Phases, YesNo
    <3> HIDE DEF n
    <3>2. ProcOK([proc EXCEPT !.pc = "work", !.new = n])
      BY ZenonT(60), <1>0, <2>1, <2>4, <3>1, ProcFields
    <3>3. ProcOK([proc EXCEPT !.pc = "final", !.phase = "resources", !.err = "yes"])
      BY Zenon, <1>0, <2>1, <3>1, ProcFields
    <3> QED BY Zenon, <2>5, <3>2, <3>3
  <2>7. registry' \in RegistryType
    <3>1. registry' = registry
          \/ registry' = [registry EXCEPT !.last = [registry.last EXCEPT !.note = c, !.fake = "no"]]
      BY Zenon, <1>0, <1>1 DEF GetGitResources, RegistryType
    <3>2. [registry.last EXCEPT !.note = c, !.fake = "no"] \in SubFields(Refs \cup {0})
      <4> HIDE DEF c
      <4> QED BY Zenon, <1>0, <2>3 DEF RegistryType, SubFields, YesNo
    <3> HIDE DEF c
    <3> QED BY Zenon, <1>0, <3>1, <3>2 DEF RegistryType
  <2>8. faults' \in Nat
    BY Zenon, <1>1, Counters DEF GetGitResources, ProcessRepoFails
  <2> QED BY ZenonT(60), <1>1, <2>6, <2>7, <2>8 DEF GetGitResources, Outside, TypeOK
<1>2. CASE Propagate
  <2>1. proc.pc = "work" /\ decision.clusters \in SUBSET Clusters
    BY <1>2 DEF Propagate, TypeOK
  <2>2. ProcOK(proc')
    BY Zenon, <1>0, <1>2, <2>1, ProcMoves DEF Propagate, Finally, YesNo
  <2> QED BY Zenon, <1>2, <2>1, <2>2 DEF Propagate, GetClustersByPlacement, TypeOK
<1>3. CASE FinalCommit
  <2>1. proc.pc = "final" /\ proc \in ProcType /\ proc.new \in SubType /\ proc.key \in Nat
        /\ proc.phase \in Phases
    BY Zenon, <1>0, <1>3 DEF FinalCommit, ProcOK, ProcType
  <2>2. sub' \in SubType
    BY Zenon, <1>3, <2>1 DEF FinalCommit, TypeOK
  <2>3. queue' \in SUBSET Nat
    <3>1. queue' \in {queue, queue \cup {proc.key}, queue \cup {0, proc.key}}
      BY Zenon, <1>3 DEF FinalCommit, Retry, Requeue
    <3> QED BY <2>1, <3>1 DEF TypeOK
  <2>4. status' \in StatusType
    <3>1. FinalStatus \in StatusType
      BY Zenon, <2>1, HookStatusType DEF FinalStatus
    <3> QED BY Zenon, <1>3, <3>1 DEF FinalCommit, TypeOK
  <2>5. ProcOK(proc')
    <3>1. proc' = Idle \/ proc' = [proc EXCEPT !.pc = "post"]
      BY <1>3 DEF FinalCommit, Step
    <3> QED BY ZenonT(60), <1>0, <2>1, <3>1, ProcMoves, SpecialTypes
  <2>6. faults' \in Nat /\ lost' \in YesNo
    <3>1. \E f : Fail(f) \/ Ok
      BY Zenon, <1>3 DEF FinalCommit
    <3>2. lost' \in {"yes", lost}
      BY Zenon, <1>3 DEF FinalCommit, Lose, Keep
    <3> QED BY Zenon, <3>1, <3>2, Counters DEF TypeOK, YesNo
  <2> QED BY ZenonT(60), <1>3, <2>2, <2>3, <2>4, <2>5, <2>6 DEF FinalCommit, Outside, TypeOK
<1> QED BY <1>1, <1>2, <1>3

\* Every step keeps the types.
LEMMA NextType ==
    ASSUME TypeOK, [Next]_vars
    PROVE  TypeOK'
<1>1. CASE UNCHANGED vars
  BY <1>1 DEF vars, TypeOK
<1>2. CASE Next
  BY ZenonT(60), <1>2, EnvironmentType, WatcherType, BeginType, HooksType, EndType DEF Next, Worker
<1> QED BY Zenon, <1>1, <1>2

\* Every variable of the hooks keeps to its type, whatever fails.
THEOREM TypeCorrect == Spec => []TypeOK
BY InitType, NextType, PTL DEF Spec

----------------------------------------------------------------------------
(* The jobs of a template.                                                  *)

\* All jobs of a template have succeeded.
Fresh(t) == \A i \in Of(t) : jobs[i].state = "successful"
Special == {Unset, Empty, Blank}

\* Of the jobs of one template all but the last have succeeded; and what the registry holds
\* for a template is no job, one that exists already, or one that may be created now.
JobsInv ==
    /\ \A i, j \in DOMAIN jobs :
         i < j /\ jobs[i].job.tpl = jobs[j].job.tpl => jobs[i].state = "successful"
    /\ \A t \in Templates :
         LET x == registry.inst[t]
         IN x \in Special \/ (x.tpl = t /\ (Existing(x) \/ Fresh(t)))

\* A step that leaves the jobs and the instances alone.
LEMMA JobsElsewhere ==
    ASSUME JobsInv, UNCHANGED jobs, registry'.inst = registry.inst
    PROVE  JobsInv'
BY ZenonT(60) DEF JobsInv, Existing, Fresh, Of

\* applyJobs keeps the invariant: what it creates may be created.
LEMMA AppliedJobs ==
    ASSUME TypeOK, JobsInv, NEW S \in SUBSET Templates, Applied(S), UNCHANGED registry
    PROVE  JobsInv'
<1>1. CASE UNCHANGED jobs
  BY <1>1, JobsElsewhere
<1>2. ASSUME NEW D \in SUBSET (Todo(S) \ {Blank}), Create(D) PROVE JobsInv'
  <2> DEFINE n == Len(jobs)
             m == Len(jobs')
  <2>1. /\ jobs \in Seq(Entries) /\ jobs' \in Seq(Entries) /\ n <= m
        /\ \A i \in 1..n : jobs'[i] = jobs[i]
        /\ \A i \in 1..m : i > n => jobs'[i].job \in D /\ jobs'[i].state = "running"
        /\ \A i, j \in 1..m : i > n /\ j > n /\ jobs'[i].job = jobs'[j].job => i = j
        /\ \A x \in D : \E i \in 1..m : jobs'[i].job = x
    BY Zenon, <1>2, TodoType, Created DEF TypeOK
  <2>2. n \in Nat /\ m \in Nat /\ DOMAIN jobs = 1..n /\ DOMAIN jobs' = 1..m
    BY SMTT(60), <2>1
  <2>3. ASSUME NEW x \in D
        PROVE  x.tpl \in Templates /\ x = registry.inst[x.tpl] /\ ~Existing(x) /\ Fresh(x.tpl)
    <3>1. PICK t \in S : x = registry.inst[t] /\ HasInstance(x) /\ ~Existing(x) /\ x # Blank
      BY DEF Todo
    <3>2. x \notin Special /\ t \in Templates
      BY Zenon, <3>1 DEF HasInstance, Special
    <3> QED BY Zenon, <3>1, <3>2 DEF JobsInv
  <2> HIDE DEF n, m
  <2>4. ASSUME NEW i \in 1..m, NEW j \in 1..m, i < j, jobs'[i].job.tpl = jobs'[j].job.tpl
        PROVE  jobs'[i].state = "successful"
    <3>1. CASE j <= n
      <4>1. i \in 1..n /\ j \in 1..n
        BY SMTT(60), <2>2, <2>4, <3>1
      <4> QED BY Zenon, <2>1, <2>2, <2>4, <4>1 DEF JobsInv
    <3>2. CASE j > n /\ i <= n
      <4>1. i \in 1..n /\ jobs'[i] = jobs[i] /\ jobs'[j].job \in D
        BY SMTT(60), <2>1, <2>2, <3>2
      <4>2. i \in Of(jobs'[j].job.tpl)
        BY Zenon, <2>2, <2>4, <4>1 DEF Of
      <4> QED BY Zenon, <2>3, <4>1, <4>2 DEF Fresh
    <3>3. CASE j > n /\ i > n
      <4>1. jobs'[i].job \in D /\ jobs'[j].job \in D
        BY Zenon, <2>1, <3>3
      <4>2. jobs'[i].job = jobs'[j].job
        BY Zenon, <2>3, <2>4, <4>1
      <4>3. i = j
        BY Zenon, <2>1, <3>3, <4>2
      <4> QED BY SMTT(60), <2>2, <2>4, <4>3
    <3> QED BY SMTT(60), <2>2, <3>1, <3>2, <3>3
  <2>5. ASSUME NEW t \in Templates, registry.inst[t] \notin Special
        PROVE  /\ registry.inst[t].tpl = t
               /\ Existing(registry.inst[t])' \/ Fresh(t)'
    <3> DEFINE x == registry.inst[t]
    <3>1. x.tpl = t /\ (Existing(x) \/ Fresh(t))
      BY <2>5 DEF JobsInv
    <3>2. CASE Existing(x)
      <4>1. PICK k \in 1..n : Name(jobs[k].job) = Name(x)
        BY Zenon, <2>2, <3>2 DEF Existing
      <4>2. k \in 1..m /\ jobs'[k] = jobs[k]
        BY SMTT(60), <2>1, <2>2
      <4>3. Existing(x)'
        BY Zenon, <2>2, <4>1, <4>2 DEF Existing, Name
      <4> QED BY Zenon, <3>1, <4>3
    <3>3. CASE x \in D
      <4>1. PICK k \in 1..m : jobs'[k].job = x
        BY Zenon, <2>1, <3>3
      <4>2. Existing(x)'
        BY ZenonT(60), <2>2, <4>1 DEF Existing, Name
      <4> QED BY Zenon, <3>1, <4>2
    <3>4. CASE Fresh(t) /\ x \notin D
      <4>1. ASSUME NEW k \in 1..m, jobs'[k].job.tpl = t PROVE jobs'[k].state = "successful"
        <5>1. k <= n
          BY SMTT(60), <2>1, <2>2, <2>3, <3>4, <4>1
        <5>2. k \in 1..n /\ jobs'[k] = jobs[k]
          BY SMTT(60), <2>1, <2>2, <5>1
        <5>3. k \in Of(t)
          BY Zenon, <2>2, <4>1, <5>2 DEF Of
        <5> QED BY Zenon, <3>4, <5>2, <5>3 DEF Fresh
      <4>2. Fresh(t)'
        BY Zenon, <2>2, <4>1 DEF Fresh, Of
      <4> QED BY Zenon, <3>1, <4>2
    <3> QED BY ZenonT(60), <3>1, <3>2, <3>3, <3>4
  <2> QED BY Zenon, <2>2, <2>4, <2>5 DEF JobsInv, Special
<1> QED BY <1>1, <1>2 DEF Applied

\* The registration keeps the invariant: it enters the last job, or a new one if all have
\* succeeded.
LEMMA AddedJobs ==
    ASSUME TypeOK, JobsInv, AddHookToRegistry
    PROVE  JobsInv'
<1>1. UNCHANGED jobs
  BY DEF AddHookToRegistry
<1>2. proc.snap \in Existent /\ proc.key \in Nat
  BY Zenon, AddHookStep DEF TypeOK, ProcOK, ProcType
<1>3. ASSUME NEW t \in Templates, registry'.inst[t] \notin Special
      PROVE  registry'.inst[t].tpl = t /\ (Existing(registry'.inst[t]) \/ Fresh(t))
  <2> DEFINE x == registry'.inst[t]
             r == Registered(t, proc.snap, proc.key)
  <2>1. x = registry.inst[t] \/ x = r
    BY Zenon, <1>3, AddHookStep DEF Special
  <2>2. CASE x = registry.inst[t]
    BY Zenon, <1>3, <2>2 DEF JobsInv
  <2>3. CASE x = r /\ r = NewJob(t, proc.snap, proc.key)
             /\ (Of(t) = {} \/ LastJob(t).state = "successful")
    <3>1. x.tpl = t
      BY <1>2, <2>3, NewJobType
    <3>2. Fresh(t)
      <4>1. CASE Of(t) = {}
        BY Zenon, <4>1 DEF Fresh
      <4>2. CASE Of(t) # {} /\ LastJob(t).state = "successful"
        <5>1. PICK i \in Of(t) : LastJob(t) = jobs[i] /\ \A j \in Of(t) : j <= i
          BY Zenon, <4>2, LastJobIs DEF TypeOK
        <5>2. ASSUME NEW j \in Of(t) PROVE jobs[j].state = "successful"
          <6>1. /\ i \in DOMAIN jobs /\ j \in DOMAIN jobs /\ i \in Nat /\ j \in Nat
                /\ jobs[i].job.tpl = jobs[j].job.tpl
            BY DEF Of, TypeOK
          <6>2. j = i \/ j < i
            BY SMTT(60), <5>1, <6>1
          <6> QED BY ZenonT(60), <4>2, <5>1, <6>1, <6>2 DEF JobsInv
        <5> QED BY Zenon, <5>2 DEF Fresh
      <4> QED BY ZenonT(60), <2>3, <4>1, <4>2
    <3> QED BY ZenonT(60), <3>1, <3>2
  <2>4. CASE x = r /\ Of(t) # {} /\ r = LastJob(t).job
    <3>1. PICK i \in Of(t) : LastJob(t) = jobs[i]
      BY Zenon, <2>4, LastJobIs DEF TypeOK
    <3> QED BY ZenonT(60), <2>4, <3>1 DEF Of, Existing
  <2>5. CASE x = r /\ r = Empty
    BY Zenon, <1>3, <2>5 DEF Special
  <2> QED BY ZenonT(60), <1>2, <2>1, <2>2, <2>3, <2>4, <2>5, RegisteredType
<1>4. \A x, t : (Existing(x)' <=> Existing(x)) /\ (Fresh(t)' <=> Fresh(t))
  BY <1>1 DEF Existing, Fresh, Of
<1> QED BY Zenon, <1>1, <1>3, <1>4 DEF JobsInv, Special, Existing, Fresh, Of

\* Ansible ends jobs that run, which are last ones; those of a deleted Subscription are gone.
LEMMA EndedJobs ==
    ASSUME TypeOK, JobsInv, EditSub \/ \E i \in DOMAIN jobs : EndJob(i)
    PROVE  JobsInv'
<1>1. CASE EditSub
  <2>1. (jobs' = jobs \/ jobs' = <<>>) /\ registry' = registry
    BY Zenon, <1>1 DEF EditSub, Inside
  <2>2. CASE jobs' = <<>>
    BY <2>1, <2>2 DEF JobsInv, Fresh, Of
  <2> QED BY Zenon, <2>1, <2>2, JobsElsewhere
<1>2. ASSUME NEW i \in DOMAIN jobs, EndJob(i) PROVE JobsInv'
  <2>1. PICK x : jobs' = [jobs EXCEPT ![i].state = x]
    BY Zenon, <1>2 DEF EndJob
  <2>2. jobs[i].state = "running" /\ registry' = registry
    BY Zenon, <1>2 DEF EndJob
  <2>3. /\ DOMAIN jobs' = DOMAIN jobs
        /\ \A j \in DOMAIN jobs : jobs'[j].job = jobs[j].job
        /\ \A j \in DOMAIN jobs : jobs[j].state = "successful" => jobs'[j].state = "successful"
    BY <2>1, <2>2 DEF TypeOK, Entries
  <2>4. \A j, k \in DOMAIN jobs :
          j < k /\ jobs'[j].job.tpl = jobs'[k].job.tpl => jobs'[j].state = "successful"
    BY Zenon, <2>3 DEF JobsInv
  <2>5. \A y, t : (Existing(y) => Existing(y)') /\ (Fresh(t) => Fresh(t)')
    BY Zenon, <2>3 DEF Existing, Fresh, Of, Name
  <2> QED BY ZenonT(60), <2>2, <2>3, <2>4, <2>5 DEF JobsInv, Special
<1> QED BY Zenon, <1>1, <1>2

\* JobsInv is inductive.
LEMMA NextJobs ==
    ASSUME TypeOK, JobsInv, [Next]_vars
    PROVE  JobsInv'
<1>1. CASE UNCHANGED jobs /\ registry'.inst = registry.inst
  BY Zenon, <1>1, JobsElsewhere
<1>2. CASE AddHookToRegistry
  BY Zenon, <1>2, AddedJobs
<1>3. CASE ApplyPreHooks \/ ApplyPostHooks
  <2>1. UNCHANGED registry
    BY <1>3 DEF ApplyPreHooks, ApplyPostHooks
  <2> QED BY ZenonT(60), <1>3, <2>1, Applies, AppliedJobs DEF Templates
<1>4. CASE EditSub \/ \E i \in DOMAIN jobs : EndJob(i)
  BY Zenon, <1>4, EndedJobs
<1>5. CASE Reconcile
  <2>1. CASE UNCHANGED registry
    BY Zenon, <1>1, <1>5, <2>1 DEF Reconcile
  <2>2. CASE registry' = NoRecord
    <3>1. UNCHANGED jobs
      BY Zenon, <1>5 DEF Reconcile
    <3>2. \A t \in Templates : registry'.inst[t] \in Special
      BY Zenon, <2>2 DEF NoRecord, Special
    <3> QED BY Zenon, <3>1, <3>2 DEF JobsInv, Special, Existing, Fresh, Of
  <2> QED BY Zenon, <1>5, <2>1, <2>2 DEF Reconcile
<1>6. CASE GetGitResources
  <2>1. registry'.inst = registry.inst /\ UNCHANGED jobs
    BY Zenon, <1>6 DEF GetGitResources, TypeOK, RegistryType
  <2> QED BY Zenon, <1>1, <2>1
<1>7. CASE Decide \/ Publish \/ (\E r \in Refs : Push(r) \/ WatchRef(r)) \/ GitWatch
           \/ RegisterBranch \/ RegisterSubscription \/ IsPreHooksCompleted \/ Propagate
           \/ FinalCommit \/ UNCHANGED vars
  BY Zenon, <1>1, <1>7 DEF Decide, Publish, Push, WatchRef, GitWatch, RegisterBranch,
       RegisterSubscription, IsPreHooksCompleted, Propagate, FinalCommit, Inside, vars
<1>8. CASE Restart
  <2>1. UNCHANGED jobs /\ \A t \in Templates : registry'.inst[t] \in Special
    BY <1>8 DEF Restart, NoRecord, Special
  <2> QED BY Zenon, <2>1 DEF JobsInv, Special, Existing, Fresh, Of
<1> QED BY ZenonT(60), <1>2, <1>3, <1>4, <1>5, <1>6, <1>7, <1>8 DEF Next, Worker, Watcher, Environment

\* No template ever has two AnsibleJobs that did not succeed, for any templates, placements and
\* order of edits, reconciles, restarts of the hub and ends of jobs.
THEOREM NoOverlap == Spec => []OneUnfinished
<1>1. Init => JobsInv
  <2> SUFFICES ASSUME Init PROVE JobsInv
    OBVIOUS
  <2>1. jobs = <<>> /\ \A t \in Templates : registry.inst[t] = Unset
    BY Zenon DEF Init, NoRecord
  <2> QED BY <2>1 DEF JobsInv, Special
<1>2. TypeOK /\ JobsInv => OneUnfinished
  <2> SUFFICES ASSUME TypeOK, JobsInv, NEW i \in DOMAIN jobs, NEW j \in DOMAIN jobs,
                      jobs[i].job.tpl = jobs[j].job.tpl,
                      jobs[i].state # "successful", jobs[j].state # "successful"
               PROVE  i = j
    BY Zenon DEF OneUnfinished
  <2>1. i \in Nat /\ j \in Nat
    BY DEF TypeOK
  <2>2. ~(i < j) /\ ~(j < i)
    BY DEF JobsInv
  <2> QED BY SMTT(60), <2>1, <2>2
<1> QED BY <1>1, <1>2, InitType, NextType, NextJobs, PTL DEF Spec

----------------------------------------------------------------------------
(* The pre hooks and the propagation.                                       *)

\* What HooksBeforeWork asks for of the state in which works are written.
Passed ==
    \/ \E t \in Pre : registry.inst[t] = Empty
    \/ \A t \in Pre : HasInstance(registry.inst[t]) => IsJobDone(registry.inst[t])

\* From the check of the pre hooks to the propagation they have passed; and a registry without
\* a record holds nothing.
WorkInv ==
    /\ registry.on = "no" => \A t \in Templates : registry.inst[t] = Unset
    /\ proc.pc \in {"resources", "work"} /\ Exists => Passed

\* A job that is done stays done.
LEMMA DoneStays ==
    ASSUME TypeOK, Next, Exists'
    PROVE  \A x : IsJobDone(x) => IsJobDone(x)'
<1>1. CASE UNCHANGED jobs
  BY <1>1 DEF IsJobDone, Name
<1>2. ASSUME NEW S \in SUBSET Templates, Applied(S)
      PROVE  \A x : IsJobDone(x) => IsJobDone(x)'
  <2>1. ASSUME NEW D \in SUBSET (Todo(S) \ {Blank}), Create(D)
        PROVE  \A x : IsJobDone(x) => IsJobDone(x)'
    <3>1. /\ jobs \in Seq(Entries) /\ jobs' \in Seq(Entries) /\ Len(jobs) <= Len(jobs')
          /\ \A i \in 1..Len(jobs) : jobs'[i] = jobs[i]
      BY ZenonT(60), <2>1, TodoType, Created DEF TypeOK
    <3>2. \A i \in DOMAIN jobs : i \in DOMAIN jobs' /\ jobs'[i] = jobs[i]
      BY <3>1
    <3> QED BY <3>2 DEF IsJobDone, Name
  <2> QED BY ZenonT(60), <1>1, <1>2, <2>1 DEF Applied
<1>3. ASSUME NEW i \in DOMAIN jobs, EndJob(i) PROVE \A x : IsJobDone(x) => IsJobDone(x)'
  <2>1. PICK y : jobs' = [jobs EXCEPT ![i].state = y]
    BY <1>3 DEF EndJob
  <2>2. jobs[i].state = "running"
    BY <1>3 DEF EndJob
  <2>3. /\ DOMAIN jobs' = DOMAIN jobs
        /\ \A j \in DOMAIN jobs : jobs'[j].job = jobs[j].job
        /\ \A j \in DOMAIN jobs : jobs[j].state = "successful" => jobs'[j].state = "successful"
    BY <2>1, <2>2 DEF TypeOK, Entries
  <2> QED BY Zenon, <2>3 DEF IsJobDone, Name
<1>4. CASE EditSub
  BY Zenon, <1>1, <1>4 DEF EditSub, Exists
<1>5. CASE ApplyPreHooks \/ ApplyPostHooks
  BY Zenon, <1>2, <1>5, Applies DEF Templates
<1>6. CASE Decide \/ Publish \/ Restart \/ (\E r \in Refs : Push(r) \/ WatchRef(r)) \/ GitWatch
           \/ Reconcile \/ RegisterBranch \/ RegisterSubscription \/ AddHookToRegistry
           \/ IsPreHooksCompleted \/ GetGitResources \/ Propagate \/ FinalCommit
  BY Zenon, <1>1, <1>6 DEF Decide, Publish, Restart, Push, WatchRef, GitWatch, Reconcile, RegisterBranch,
       RegisterSubscription, AddHookToRegistry, IsPreHooksCompleted, GetGitResources, Propagate,
       FinalCommit, Inside
<1> QED BY ZenonT(60), <1>3, <1>4, <1>5, <1>6 DEF Next, Worker, Watcher, Environment

\* A Subscription that is gone does not come back.
LEMMA GoneStays ==
    ASSUME TypeOK, Next, Exists'
    PROVE  Exists
<1>1. CASE UNCHANGED sub
  BY <1>1 DEF Exists
<1>2. CASE FinalCommit
  <2>1. proc.snap \in Existent
    BY ZenonT(60), <1>2 DEF FinalCommit, TypeOK, ProcOK
  <2>2. Gone \notin Existent
    BY ConstantsAssumption DEF Gone, Existent, SubFields
  <2> QED BY ZenonT(60), <1>1, <1>2, <2>1, <2>2 DEF FinalCommit, Exists
<1>3. CASE EditSub \/ \E r \in Refs : WatchRef(r)
  BY Zenon, <1>1, <1>3 DEF EditSub, WatchRef, Annotated
<1>4. CASE Decide \/ Publish \/ Restart \/ (\E r \in Refs : Push(r)) \/ GitWatch
           \/ (\E i \in DOMAIN jobs : EndJob(i))
           \/ Reconcile \/ RegisterBranch \/ RegisterSubscription \/ AddHookToRegistry
           \/ ApplyPreHooks \/ IsPreHooksCompleted \/ GetGitResources \/ Propagate
           \/ ApplyPostHooks
  BY ZenonT(60), <1>1, <1>4 DEF Decide, Publish, Restart, Push, GitWatch, EndJob, Reconcile, RegisterBranch,
       RegisterSubscription, AddHookToRegistry, ApplyPreHooks, IsPreHooksCompleted,
       GetGitResources, Propagate, ApplyPostHooks
<1> QED BY Zenon, <1>2, <1>3, <1>4 DEF Next, Worker, Watcher, Environment

\* WorkInv is inductive.
LEMMA NextWork ==
    ASSUME TypeOK, WorkInv, Next
    PROVE  WorkInv'
<1>0. registry \in RegistryType /\ ProcOK(proc) /\ Pre \subseteq Templates
  BY DEF TypeOK, Templates
<1>1. ASSUME registry'.inst = registry.inst, registry'.on = registry.on,
             proc' = proc \/ proc'.pc \notin {"resources", "work"}
                \/ proc.pc \in {"resources", "work"}
      PROVE  WorkInv'
  <2>1. ASSUME Exists', proc'.pc \in {"resources", "work"} PROVE Passed'
    <3>1. Passed
      BY Zenon, <1>1, <2>1, GoneStays DEF WorkInv
    <3>2. \A x : IsJobDone(x) => IsJobDone(x)'
      BY Zenon, <2>1, DoneStays
    <3> QED BY ZenonT(60), <1>1, <3>1, <3>2 DEF Passed
  <2> QED BY ZenonT(60), <1>1, <2>1 DEF WorkInv
<1>2. CASE Environment \/ Watcher
  <2>1. CASE UNCHANGED <<registry, proc>>
    BY Zenon, <1>1, <2>1
  <2>2. CASE registry' = NoRecord /\ proc' = Idle
    <3>1. proc'.pc = "idle"
      BY Zenon, <2>2 DEF Idle, Reconciling
    <3> QED BY Zenon, <2>2, <3>1 DEF WorkInv, NoRecord
  <2> QED BY Zenon, <1>2, <2>1, <2>2 DEF Environment, Watcher, EditSub, Decide, Publish, Restart, Push,
            EndJob, GitWatch, WatchRef, Inside
<1>3. CASE Reconcile
  <2>1. CASE UNCHANGED registry
    <3>1. proc' = proc \/ proc'.pc = "branch"
      BY Zenon, <1>3 DEF Reconcile, Reconciling
    <3> QED BY Zenon, <1>1, <2>1, <3>1
  <2>2. CASE registry' = NoRecord /\ proc' = proc
    <3>1. proc.pc = "idle"
      BY Zenon, <1>3 DEF Reconcile
    <3> QED BY Zenon, <2>2, <3>1 DEF WorkInv, NoRecord
  <2> QED BY Zenon, <1>3, <2>1, <2>2 DEF Reconcile
<1>4. CASE RegisterBranch
  <2>1. registry' = registry /\ proc'.pc \in {"hooks", "idle"}
    BY <1>0, <1>4 DEF RegisterBranch, Step, Idle, Reconciling, ProcOK, ProcType
  <2> QED BY Zenon, <1>1, <2>1
<1>5. CASE RegisterSubscription
  <2>1. registry' = registry /\ jobs' = jobs /\ sub' = sub
    BY Zenon, <1>5 DEF RegisterSubscription
  <2>2. CASE proc'.pc \in {"apply", "registry", "final"}
    BY Zenon, <1>1, <2>1, <2>2
  <2>3. CASE ~HasHooks(Pre) /\ proc'.pc = "resources"
    <3>1. \A t \in Pre : registry.inst[t] = Unset
      BY Zenon, <1>0, <2>3 DEF HasHooks, WorkInv, RegistryType, YesNo
    <3>2. Passed'
      BY Zenon, <2>1, <3>1 DEF Passed, HasInstance
    <3> QED BY Zenon, <2>1, <3>2 DEF WorkInv
  <2> QED BY ZenonT(60), <1>0, <1>5, <2>2, <2>3
        DEF RegisterSubscription, AfterHooks, Finally, Step, ProcOK, ProcType
<1>6. CASE AddHookToRegistry
  <2>1. registry'.on = "yes"
    BY <1>6 DEF AddHookToRegistry
  <2>2. CASE proc'.pc \in {"apply", "final"}
    BY Zenon, <2>1, <2>2 DEF WorkInv
  <2>3. CASE \A t \in Pre : registry'.inst[t] = Unset
    <3>1. Passed'
      BY Zenon, <2>3 DEF Passed, HasInstance
    <3> QED BY Zenon, <2>1, <3>1 DEF WorkInv
  <2>4. proc'.pc \in {"apply", "final"} \/ \A t \in Pre : registry'.inst[t] = Unset
    BY Zenon, <1>0, <1>6, AddHookStep DEF ProcOK, ProcType
  <2> QED BY Zenon, <2>2, <2>3, <2>4
<1>7. CASE ApplyPreHooks
  <2>1. registry' = registry /\ proc'.pc \in {"check", "final"}
    BY Zenon, <1>0, <1>7 DEF ApplyPreHooks, ApplyJobs, Step, Finally, ProcOK, ProcType
  <2> QED BY Zenon, <1>1, <2>1
<1>8. CASE IsPreHooksCompleted
  <2>1. registry' = registry /\ jobs' = jobs
    BY Zenon, <1>8 DEF IsPreHooksCompleted
  <2>2. CASE proc'.pc = "final"
    BY ZenonT(60), <1>1, <2>1, <2>2
  <2>3. CASE TRUE \in JobsCompleted(Pre)
    <3>1. Passed
      BY Zenon, <2>3 DEF JobsCompleted, Passed, HasInstance
    <3>2. Passed'
      BY Zenon, <2>1, <3>1 DEF Passed, IsJobDone
    <3> QED BY ZenonT(60), <2>1, <3>2 DEF WorkInv
  <2> QED BY ZenonT(60), <1>0, <1>8, <2>2, <2>3 DEF IsPreHooksCompleted, ProcOK, ProcType
<1>9. CASE GetGitResources
  <2>1. registry'.inst = registry.inst /\ registry'.on = registry.on /\ proc.pc = "resources"
    BY Zenon, <1>0, <1>9 DEF GetGitResources, RegistryType
  <2> QED BY Zenon, <1>1, <2>1
<1>10. CASE Propagate
  BY Zenon, <1>1, <1>10 DEF Propagate
<1>11. CASE FinalCommit \/ ApplyPostHooks
  <2>1. registry' = registry /\ proc'.pc \in {"idle", "post"}
    BY <1>0, <1>11 DEF FinalCommit, ApplyPostHooks, Step, Idle, Reconciling, ProcOK, ProcType
  <2> QED BY Zenon, <1>1, <2>1
<1> QED BY ZenonT(60), <1>2, <1>3, <1>4, <1>5, <1>6, <1>7, <1>8, <1>9, <1>10, <1>11 DEF Next, Worker

\* A Subscription that exists reaches a cluster only when the pre hooks that the reconcile
\* holds have succeeded, whatever users, placements, Ansible and the watcher do meanwhile, and
\* however often the hub starts again.
THEOREM HooksComeFirst == Spec => HooksBeforeWork
<1> DEFINE First == Exists /\ ~(works' \subseteq works) =>
               \/ \E t \in Pre : registry.inst[t] = Empty
               \/ \A t \in Pre : HasInstance(registry.inst[t]) => IsJobDone(registry.inst[t])
<1>1. Init => WorkInv
  <2> SUFFICES ASSUME Init PROVE WorkInv
    OBVIOUS
  <2>1. registry = NoRecord /\ proc = Idle
    BY Zenon DEF Init
  <2>2. proc.pc = "idle" /\ \A t \in Templates : registry.inst[t] = Unset
    BY Zenon, <2>1 DEF NoRecord, Idle, Reconciling
  <2> QED BY <2>2 DEF WorkInv
<1>2. TypeOK /\ WorkInv /\ [Next]_vars => WorkInv'
  <2>1. CASE UNCHANGED vars
    BY Zenon, <2>1 DEF vars, WorkInv, Exists, Passed, HasInstance, IsJobDone
  <2> QED BY Zenon, <2>1, NextWork
<1>3. TypeOK /\ WorkInv /\ [Next]_vars => [First]_vars
  <2> SUFFICES ASSUME WorkInv, Next, Exists, ~(works' \subseteq works) PROVE First
    BY DEF vars
  <2>1. proc.pc = "work"
    BY Zenon DEF Next, Worker, Watcher, Environment, Reconcile, RegisterBranch, RegisterSubscription,
         AddHookToRegistry, ApplyPreHooks, IsPreHooksCompleted, GetGitResources, Propagate,
         FinalCommit, ApplyPostHooks, GitWatch, WatchRef, EditSub, Decide, Publish, Restart, Push,
         EndJob, Inside
  <2> QED BY Zenon, <2>1 DEF WorkInv, Passed
<1> QED BY <1>1, <1>2, <1>3, TypeCorrect, PTL DEF Spec, HooksBeforeWork
=============================================================================
