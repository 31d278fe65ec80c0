------------------------ MODULE HelmSubscriberProofs ------------------------
(***************************************************************************)
(* The theorems of HelmSubscriber: its types, the invariant that ties the   *)
(* copy a reconcile works on, the release records, the objects and their    *)
(* owners together, and the refinement of ReleaseLifecycle, for any charts, *)
(* any worlds and any number of failures, edits and restarts.               *)
(***************************************************************************)
EXTENDS HelmSubscriber, Integers, TLAPS

----------------------------------------------------------------------------
(* The latest version.                                                       *)

\* The latest of some versions is one of them, or 0 when there are none.
LEMMA NewestIsOne ==
  ASSUME NEW vs, vs \subseteq Versions
  PROVE  Newest(vs) \in vs \cup {0}
<1>1. \E v \in vs \cup {0} : \A w \in vs : w <= v BY Zenon, ChartAssumption
<1> QED BY <1>1 DEF Newest

\* FilterCharts selects versions, whatever is offered and whatever is asked for.
LEMMA SelectionType ==
  ASSUME TypeOK
  PROVE  FilterCharts \in [Pkgs -> Versions \cup {0}]
<1> SUFFICES ASSUME NEW p \in Pkgs PROVE Selected(Matching(p)) \in Versions \cup {0}
  BY DEF FilterCharts
<1>1. index[p] \subseteq Versions BY SubscriberAssumption DEF TypeOK
<1>2. Matching(p) \subseteq Versions BY <1>1 DEF Matching
<1> QED BY <1>2, NewestIsOne DEF Selected

----------------------------------------------------------------------------
(* Objects and their names.                                                  *)

\* The names of more objects are more names.
LEMMA NamesGrow ==
  ASSUME NEW A, NEW B, A \subseteq B
  PROVE  Names(A) \subseteq Names(B)
BY DEF Names

\* No objects, no names.
LEMMA NamesEmpty == Names({}) = {}
BY DEF Names

\* What is taken away by name, and nothing else, is gone.
LEMMA NamesWithout ==
  ASSUME NEW O, NEW ns
  PROVE  Without(O, ns) \subseteq O /\ Names(Without(O, ns)) = Names(O) \ ns
BY DEF Names, Without

\* What is applied is there, with everything that was there.
LEMMA NamesApply ==
  ASSUME NEW O, NEW m
  PROVE  /\ m \subseteq Apply(O, m) /\ Apply(O, m) \subseteq O \cup m
         /\ Names(Apply(O, m)) = Names(O) \cup Names(m)
BY DEF Names, Apply

\* Applying nothing changes nothing.
LEMMA ApplyNothing ==
  ASSUME NEW O
  PROVE  Apply(O, {}) = O
BY DEF Names, Apply

\* A version renders something that is not a CRD, so that a release record is
\* never emptied by stripping the CRDs.
LEMMA ManifestFacts ==
  ASSUME NEW v \in Versions
  PROVE  /\ Manifest(v) \in Manifests /\ Manifest(v) \subseteq Rendering
         /\ Manifest(v) # {} /\ StripCRDs(Manifest(v)) # {}
         /\ Names(Manifest(v)) \subseteq Objects
<1>1. PICK o : o \in Chart[v] /\ o \notin Crds BY ChartAssumption
<1>2. <<o, v>> \in Manifest(v) BY <1>1 DEF Manifest
<1>3. <<o, v>> \in StripCRDs(Manifest(v)) BY <1>1, <1>2 DEF StripCRDs, Without
<1>4. Manifest(v) \in Manifests BY DEF Manifests
<1>5. Names(Manifest(v)) \subseteq Objects BY DEF Names, Manifest, Objects
<1> QED BY <1>2, <1>3, <1>4, <1>5 DEF Rendering

\* Stripping the CRDs of a release record again does nothing more.
LEMMA StripTwice ==
  ASSUME NEW m
  PROVE  StripCRDs(StripCRDs(m)) = StripCRDs(m) /\ StripCRDs(m) \subseteq m
BY DEF StripCRDs, Without

\* A release record is part of what a version renders, and stays one when the
\* CRDs are stripped.
LEMMA RecordedFacts ==
  ASSUME NEW r \in Recorded
  PROVE  /\ StripCRDs(r) \in Recorded /\ (r # {} => StripCRDs(r) # {})
         /\ r \subseteq Rendering /\ Names(r) \subseteq Objects
         /\ r = {} \/ \E v \in Versions : r \subseteq Manifest(v)
<1> DEFINE Goal == /\ StripCRDs(r) \in Recorded /\ (r # {} => StripCRDs(r) # {})
                   /\ r \subseteq Rendering /\ Names(r) \subseteq Objects
                   /\ r = {} \/ \E v \in Versions : r \subseteq Manifest(v)
<1>1. CASE r = {}
  <2>1. StripCRDs({}) = {} BY DEF StripCRDs, Without
  <2> QED BY <1>1, <2>1, NamesEmpty DEF Recorded
<1>2. ASSUME NEW v \in Versions, r = Manifest(v) PROVE  Goal
  <2>1. StripCRDs(r) \in Recorded BY <1>2, ManifestFacts DEF Recorded
  <2> QED BY <1>2, <2>1, ManifestFacts
<1>3. ASSUME NEW v \in Versions, r = StripCRDs(Manifest(v)) PROVE  Goal
  <2>1. r \subseteq Manifest(v) /\ StripCRDs(r) = r BY <1>3, StripTwice
  <2>2. Names(r) \subseteq Names(Manifest(v)) BY <2>1, NamesGrow
  <2> QED BY <2>1, <2>2, ManifestFacts
<1> QED BY <1>1, <1>2, <1>3 DEF Recorded, Manifests

----------------------------------------------------------------------------
(* The steps of ReleaseLifecycle, in terms of the state here.                *)

\* A step of ReleaseLifecycle, or none.
LifeStep == [L!Next]_(L!vars)

\* The other packages keep their HelmRelease and their objects.
Elsewhere(p) == \A q \in Pkgs \ {p} : crs'[q] = crs[q] /\ objs'[q] = objs[q]

\* Nothing that ReleaseLifecycle sees has changed.
LEMMA StepNone ==
  ASSUME \A q \in Pkgs : crs'[q].st = crs[q].st /\ crs'[q].dep = crs[q].dep,
         objs' = objs, lost' = lost
  PROVE  LifeStep
BY DEF LifeStep, L!vars

\* HelmReleases are deleted: one without a finalizer is gone, one with it leaves.
LEMMA StepWithdraw ==
  ASSUME \A q \in Pkgs :
           \/ crs'[q].st = crs[q].st /\ crs'[q].dep = crs[q].dep
           \/ crs[q].st = "held" /\ crs'[q].st = "leaving" /\ crs'[q].dep = crs[q].dep
           \/ crs[q].st = "open" /\ crs'[q].st = "none" /\ crs'[q].dep = {},
         objs' = objs, lost' = lost
  PROVE  LifeStep
BY DEF LifeStep, L!Next, L!Withdraw

\* A HelmRelease is created.
LEMMA StepAsk ==
  ASSUME NEW p \in Pkgs, Elsewhere(p),
         crs[p].st = "none", crs'[p].st \in {"open", "held"}, crs'[p].dep = {},
         objs' = objs, lost' = lost
  PROVE  LifeStep
BY DEF LifeStep, Elsewhere, L!Next, L!Only, L!Ask

\* Its finalizer goes on, and an interrupted upgrade may be given up.
LEMMA StepHold ==
  ASSUME NEW p \in Pkgs, Elsewhere(p),
         crs[p].st = "open", crs'[p].st = "held", crs'[p].dep = crs[p].dep,
         objs' = objs, lost' \in {lost, lost \cup {<<p, "upgrade">>}}
  PROVE  LifeStep
BY DEF LifeStep, Elsewhere, L!Next, L!Only, L!Hold

\* Its finalizer is overwritten.
LEMMA StepOverwrite ==
  ASSUME NEW p \in Pkgs, Elsewhere(p),
         \/ crs[p].st = "held" /\ crs'[p].st = "open" /\ crs'[p].dep = crs[p].dep
         \/ crs[p].st = "leaving" /\ crs'[p].st = "none" /\ crs'[p].dep = {},
         objs' = objs, lost' = lost \cup {<<p, "finalizer">>}
  PROVE  LifeStep
BY DEF LifeStep, Elsewhere, L!Next, L!Only, L!Overwrite

\* An interrupted upgrade is given up.
LEMMA StepGiveUp ==
  ASSUME NEW p \in Pkgs, crs' = crs, objs' = objs, lost' = lost \cup {<<p, "upgrade">>}
  PROVE  LifeStep
BY DEF LifeStep, L!Next, L!Only, L!GiveUp

\* Objects are created or changed, or a version is in place.
LEMMA StepDeploy ==
  ASSUME NEW p \in Pkgs, Elsewhere(p), crs' = crs,
         objs'[p] \subseteq objs[p] \cup Rendering,
         \/ Names(objs[p]) \subseteq Names(objs'[p]) /\ lost' = lost
         \/ /\ lost' = lost \ {<<p, "upgrade">>}
            /\ \E m \in Manifests : m \subseteq objs'[p]
                    /\ Names(m) \cap (Names(objs[p]) \ Names(objs'[p])) = {}
  PROVE  LifeStep
BY DEF LifeStep, Elsewhere, Rendering, Names, L!Next, L!Only, L!Deploy, L!Rendered, L!Removed, L!Names

\* The status claims what is there.
LEMMA StepClaim ==
  ASSUME NEW p \in Pkgs, Elsewhere(p), crs[p].st # "none", crs'[p].st = crs[p].st,
         objs'[p] \subseteq objs[p] \cup Rendering,
         Names(objs[p]) \subseteq Names(objs'[p]), lost' = lost,
         \/ <<p, "finalizer">> \in lost \/ <<p, "upgrade">> \in lost
         \/ Names(crs'[p].dep) \subseteq Names(objs'[p])
  PROVE  LifeStep
BY Zenon DEF LifeStep, Elsewhere, Rendering, Names, L!Next, L!Only, L!Claim, L!Rendered, L!Removed, L!Names, L!Lost

\* Objects are taken away.
LEMMA StepShrink ==
  ASSUME NEW p \in Pkgs, Elsewhere(p), crs' = crs, objs'[p] \subseteq objs[p], lost' = lost,
         \/ crs[p].st \in {"none", "leaving"} \/ <<p, "finalizer">> \in lost
         \/ Names(objs[p]) \cap Names(crs[p].dep) \subseteq Names(objs'[p])
  PROVE  LifeStep
BY Zenon DEF LifeStep, Elsewhere, Names, L!Next, L!Only, L!Shrink, L!Removed, L!Names

\* The HelmRelease is let go.
LEMMA StepDrop ==
  ASSUME NEW p \in Pkgs, Elsewhere(p),
         crs[p].st = "leaving", crs'[p].st = "none", crs'[p].dep = {},
         \/ <<p, "finalizer">> \in lost
         \/ Names(crs[p].dep) \cap Names(objs[p]) \subseteq Keep,
         objs' = objs, lost' = lost
  PROVE  LifeStep
BY DEF LifeStep, Elsewhere, Names, L!Next, L!Only, L!Drop, L!Names

----------------------------------------------------------------------------
(* Types.                                                                    *)

\* What a reconcile needs to go on.
Working == ctl.pc # "idle" => ctl.p \in Pkgs /\ ctl.cr.st # "none" /\ ctl.cr.v # 0

\* The copy that a reconcile works on is of a package and has a version.
LEMMA CopyType ==
  ASSUME TypeOK, ctl.pc # "idle"
  PROVE  /\ ctl.p \in Pkgs /\ ctl.cr \in HelmReleases /\ ctl.cr.v \in Versions
         /\ ctl.cr.dep \subseteq Rendering /\ ctl \in Reconciles
         /\ crs[ctl.p] \in HelmReleases /\ rel[ctl.p] \in Releases
         /\ objs[ctl.p] \subseteq Rendering /\ Unique(objs[ctl.p])
BY DEF TypeOK, Reconciles, HelmReleases

\* The reconcile goes on at another label, or ends.
LEMMA ControlType ==
  ASSUME TypeOK, ctl.pc # "idle",
         Requeue \/ Done \/ \E l \in Labels \ {"idle"} : Goto(l)
  PROVE  ctl' \in Reconciles /\ Working' /\ queue' \subseteq Pkgs
<1>1. Idle \in Reconciles BY DEF Idle, Reconciles, NoCR, HelmReleases, Labels, Flags, Phases
<1>2. ctl.p \in Pkgs /\ queue \subseteq Pkgs BY DEF TypeOK
<1>3. CASE ctl' = Idle /\ queue' \subseteq queue \cup {ctl.p}
  BY <1>1, <1>2, <1>3 DEF Working, Idle
<1>4. ASSUME NEW l \in Labels \ {"idle"}, Goto(l)
      PROVE  ctl' \in Reconciles /\ Working' /\ queue' \subseteq Pkgs
  BY <1>2, <1>4 DEF TypeOK, Goto, Reconciles, Working
<1> QED BY <1>3, <1>4 DEF Requeue, Done

\* A call fails or does not.
LEMMA FaultType ==
  ASSUME TypeOK, Ok \/ \E f \in FaultKinds : Fail(f)
  PROVE  faults' \in Nat
BY DEF TypeOK, Ok, Fail

\* What is written to the SubscriptionStatus.
LEMMA RecordType ==
  ASSUME NEW p \in Pkgs
  PROVE  Populated(p) \in Records /\ PopulatedError(p) \in Records /\ NoRecord \in Records
BY DEF Populated, PopulatedError, NoRecord, Records

\* The updates of the release records.
LEMMA ReleaseType ==
  ASSUME NEW r \in Releases
  PROVE  /\ StrippedRel(r) \in Releases /\ NoRelease \in Releases /\ Deployed(r) \in Releases
         /\ [cur |-> r.new, new |-> {}] \in Releases /\ [cur |-> {}, new |-> r.cur] \in Releases
         /\ [r EXCEPT !.cur = {}] \in Releases
         /\ \A m \in Recorded : [r EXCEPT !.new = m] \in Releases
<1>1. {} \in Recorded BY DEF Recorded
<1>2. r.cur \in Recorded /\ r.new \in Recorded BY DEF Releases
<1>3. Stripped(r.cur) \in Recorded /\ Stripped(r.new) \in Recorded
  BY <1>2, RecordedFacts DEF Stripped
<1> QED BY <1>1, <1>2, <1>3 DEF Releases, StrippedRel, NoRelease, Deployed

\* A part of what a version renders is applied.
LEMMA ApplyType ==
  ASSUME NEW O, O \subseteq Rendering, Unique(O), NEW r \in Recorded, NEW m, m \subseteq r
  PROVE  Apply(O, m) \subseteq Rendering /\ Unique(Apply(O, m)) /\ Names(m) \subseteq Objects
<1>1. r \subseteq Rendering /\ Names(r) \subseteq Objects BY RecordedFacts
<1>2. Unique(m)
  <2>1. r = {} \/ \E v \in Versions : r \subseteq Manifest(v) BY RecordedFacts
  <2> QED BY <2>1 DEF Unique, Manifest
<1>3. Unique(Apply(O, m)) BY <1>2 DEF Unique, Apply, Names
<1> QED BY <1>1, <1>3, NamesApply, NamesGrow

\* Objects are taken away.
LEMMA WithoutType ==
  ASSUME NEW O, O \subseteq Rendering, Unique(O), NEW ns
  PROVE  Without(O, ns) \subseteq Rendering /\ Unique(Without(O, ns))
BY DEF Without, Unique

\* Owner references are set.
LEMMA OwnedType ==
  ASSUME TypeOK, NEW p \in Pkgs, NEW m, Names(m) \subseteq Objects
  PROVE  Owned(p, m) \in [Pkgs -> SUBSET Ownable(Objects)]
<1>1. Ownable(Names(m)) \subseteq Ownable(Objects) BY DEF Ownable
<1> QED BY <1>1 DEF TypeOK, Owned

\* The objects of a package have names of the charts.
LEMMA RenderingNames ==
  ASSUME NEW O, O \subseteq Rendering
  PROVE  Names(O) \subseteq Objects
BY DEF Names, Rendering, Manifests, Manifest, Objects

\* The objects of one package are replaced.
LEMMA ObjectsType ==
  ASSUME TypeOK, NEW p \in Pkgs, NEW O, O \subseteq Rendering, Unique(O),
         objs' = [objs EXCEPT ![p] = O]
  PROVE  objs' \in [Pkgs -> SUBSET Rendering] /\ \A q \in Pkgs : Unique(objs'[q])
BY DEF TypeOK

\* One HelmRelease is written: its status, its finalizer, or it goes.
LEMMA HelmReleaseType ==
  ASSUME TypeOK, NEW p \in Pkgs,
         \/ crs' = crs \/ crs' = [crs EXCEPT ![p] = NoCR]
         \/ crs[p].st # "none" /\ crs' = [crs EXCEPT ![p].st = "held"]
         \/ \E m \in SUBSET Rendering : crs' = [crs EXCEPT ![p].dep = m]
  PROVE  crs' \in [Pkgs -> HelmReleases] /\ \A q \in Pkgs : Versioned(crs'[q])
<1>1. crs \in [Pkgs -> HelmReleases] /\ \A q \in Pkgs : Versioned(crs[q]) BY DEF TypeOK
<1>2. CASE crs' = crs BY <1>1, <1>2
<1>3. CASE crs' = [crs EXCEPT ![p] = NoCR]
  <2>1. NoCR \in HelmReleases /\ Versioned(NoCR) BY DEF NoCR, HelmReleases, Phases, Versioned
  <2> QED BY <1>1, <1>3, <2>1
<1>4. CASE crs[p].st # "none" /\ crs' = [crs EXCEPT ![p].st = "held"]
  <2>1. [crs[p] EXCEPT !.st = "held"] \in HelmReleases /\ Versioned([crs[p] EXCEPT !.st = "held"])
    BY <1>1, <1>4 DEF HelmReleases, Phases, Versioned
  <2> QED BY <1>1, <1>4, <2>1
<1>5. ASSUME NEW m \in SUBSET Rendering, crs' = [crs EXCEPT ![p].dep = m]
      PROVE  crs' \in [Pkgs -> HelmReleases] /\ \A q \in Pkgs : Versioned(crs'[q])
  <2>1. [crs[p] EXCEPT !.dep = m] \in HelmReleases /\ Versioned([crs[p] EXCEPT !.dep = m])
    BY <1>1 DEF HelmReleases, Versioned
  <2> QED BY <1>1, <1>5, <2>1
<1> QED BY <1>2, <1>3, <1>4, <1>5

\* The types of what the controller writes.
ReleaseTyped ==
  /\ crs \in [Pkgs -> HelmReleases] /\ \A p \in Pkgs : Versioned(crs[p])
  /\ rel \in [Pkgs -> Releases]
  /\ objs \in [Pkgs -> SUBSET Rendering] /\ \A p \in Pkgs : Unique(objs[p])
  /\ orphans \in [Pkgs -> SUBSET Ownable(Objects)]
  /\ ctl \in Reconciles /\ Working /\ queue \subseteq Pkgs
  /\ record \in Records /\ lost \subseteq Pkgs \X {"finalizer", "upgrade"}
  /\ faults \in Nat

\* They follow from the type invariant.
LEMMA TypedFacts == TypeOK => ReleaseTyped
BY DEF TypeOK, ReleaseTyped, Working

\* The release record of one package is replaced.
LEMMA RelType ==
  ASSUME TypeOK, NEW p \in Pkgs, NEW r \in Releases, rel' = [rel EXCEPT ![p] = r]
  PROVE  rel' \in [Pkgs -> Releases]
BY DEF TypeOK

\* A HelmRelease is taken from the queue.
LEMMA ReconcileType ==
  ASSUME TypeOK, NEW p \in Pkgs, Reconcile(p)
  PROVE  ReleaseTyped'
<1>1. UNCHANGED <<crs, rel, objs, orphans, record, lost, faults>> /\ queue' \subseteq queue
  BY DEF Reconcile
<1>2. crs[p] \in HelmReleases /\ Versioned(crs[p]) BY DEF TypeOK
<1>3. ctl' \in Reconciles /\ Working'
  <2>1. CASE ctl' = ctl BY <2>1 DEF TypeOK, Working
  <2>2. CASE crs[p].st # "none" /\ ctl' = [Idle EXCEPT !.pc = "manager", !.p = p, !.cr = crs[p]]
    <3>1. /\ ctl'.pc = "manager" /\ ctl'.p = p /\ ctl'.cr = crs[p]
          /\ ctl' \in Reconciles
      BY Zenon, <1>2, <2>2 DEF Idle, Reconciles, Labels, Flags
    <3> QED BY <1>2, <2>2, <3>1 DEF Working, Versioned
  <2> QED BY <2>1, <2>2 DEF Reconcile
<1> QED BY <1>1, <1>3, TypedFacts DEF ReleaseTyped

\* The managers are made.
LEMMA NewManagerType ==
  ASSUME TypeOK, NewManager
  PROVE  ReleaseTyped' /\ broken' \subseteq Pkgs \X Versions
<1> DEFINE p == ctl.p
           status == Stripped(ctl.cr.dep)
<1>1. ctl.pc # "idle" BY DEF NewManager
<1>2. /\ p \in Pkgs /\ ctl.cr \in HelmReleases /\ ctl.cr.v \in Versions
      /\ ctl.cr.dep \subseteq Rendering /\ ctl \in Reconciles /\ rel[p] \in Releases
  BY <1>1, CopyType
<1>3. status \in SUBSET Rendering BY <1>2, StripTwice DEF Stripped
<1>4. UNCHANGED <<objs, orphans, lost>> BY DEF NewManager
<1>5. faults' \in Nat /\ broken' \subseteq Pkgs \X Versions
  <2>1. Ok \/ \E f \in FaultKinds : Fail(f)
    BY DEF NewManager, DownloadFails, FaultKinds
  <2>2. broken \subseteq Pkgs \X Versions BY DEF TypeOK
  <2>3. broken' \subseteq broken \cup {Archive} BY DEF NewManager, DownloadFails, Downloaded
  <2> QED BY <1>2, <2>1, <2>2, <2>3, FaultType DEF Archive
<1>6. CASE Requeue /\ (record' = PopulatedError(p) \/ record' = record)
           /\ crs' = crs /\ (rel' = rel \/ rel' = [rel EXCEPT ![p] = StrippedRel(@)])
  <2>1. rel' \in [Pkgs -> Releases] BY Zenon, <1>2, <1>6, ReleaseType, RelType, TypedFacts DEF ReleaseTyped
  <2> QED BY <1>1, <1>2, <1>4, <1>5, <1>6, <2>1, ControlType, RecordType, TypedFacts DEF ReleaseTyped
<1>7. CASE /\ rel' = [rel EXCEPT ![p] = StrippedRel(@)]
           /\ crs' = IF status # ctl.cr.dep THEN [crs EXCEPT ![p].dep = status] ELSE crs
           /\ record' = IF ctl.cr.st = "leaving" THEN NoRecord ELSE record
           /\ ctl' = [ctl EXCEPT
                       !.pc = IF ctl.cr.st = "leaving" THEN "uninstall" ELSE "sync",
                       !.cr.dep = status,
                       !.chart = IF crs[p].st = "leaving" THEN "no" ELSE "yes",
                       !.owner = "live"]
           /\ UNCHANGED queue
  <2>1. rel' \in [Pkgs -> Releases] BY Zenon, <1>2, <1>7, ReleaseType, RelType
  <2>2. crs' \in [Pkgs -> HelmReleases] /\ \A q \in Pkgs : Versioned(crs'[q])
    BY Zenon, <1>2, <1>3, <1>7, HelmReleaseType
  <2>3. ctl' \in Reconciles /\ Working'
    <3>1. [ctl.cr EXCEPT !.dep = status] \in HelmReleases BY <1>2, <1>3 DEF HelmReleases
    <3>2. ctl'.p = p /\ ctl'.cr = [ctl.cr EXCEPT !.dep = status] BY <1>2, <1>7 DEF Reconciles
    <3>3. ctl'.cr.st = ctl.cr.st /\ ctl'.cr.v = ctl.cr.v BY <1>2, <3>2 DEF HelmReleases
    <3>4. ctl' \in Reconciles
      <4> HIDE DEF status
      <4> QED BY Zenon, <1>2, <1>7, <3>1 DEF Reconciles, Labels, Uninstalling, Flags
    <3>5. ctl.cr.st # "none" /\ ctl.cr.v # 0 BY <1>1 DEF TypeOK
    <3> QED BY <1>2, <3>2, <3>3, <3>4, <3>5 DEF Working
  <2> QED BY <1>2, <1>4, <1>5, <1>7, <2>1, <2>2, <2>3, RecordType, TypedFacts DEF ReleaseTyped
<1> QED BY <1>6, <1>7 DEF NewManager

\* The records that are not deployed go, and the finalizer goes on a HelmRelease
\* that is there, if the copy of it is still the current one.
LEMMA SyncType ==
  ASSUME TypeOK, Sync, ctl.fresh = "yes" => crs[ctl.p].st = ctl.cr.st
  PROVE  ReleaseTyped'
<1> DEFINE p == ctl.p
           cur == rel[p].cur
<1>1. ctl.pc # "idle" BY DEF Sync
<1>2. /\ p \in Pkgs /\ ctl.cr \in HelmReleases /\ ctl.cr.v \in Versions
      /\ ctl \in Reconciles /\ rel[p] \in Releases
  BY <1>1, CopyType
<1>3. UNCHANGED <<objs, orphans>> /\ rel' \in [Pkgs -> Releases]
  BY Zenon, <1>2, ReleaseType, RelType DEF Sync
<1>4. lost' \subseteq Pkgs \X {"finalizer", "upgrade"}
  <2>1. lost \subseteq Pkgs \X {"finalizer", "upgrade"} BY DEF TypeOK
  <2>2. lost' \subseteq lost \cup {<<p, "upgrade">>} BY DEF Sync
  <2> QED BY <1>2, <2>1, <2>2
<1>5. faults' \in Nat
  <2>1. Ok \/ \E f \in FaultKinds : Fail(f) BY DEF Sync, FaultKinds
  <2> QED BY <2>1, FaultType
<1>6. CASE Requeue /\ crs' = crs /\ (record' = PopulatedError(p) \/ record' = record)
  BY Zenon, <1>1, <1>2, <1>3, <1>4, <1>5, <1>6, ControlType, RecordType, TypedFacts DEF ReleaseTyped
<1>7. ASSUME ~(ctl.cr.st = "open" /\ ctl.fresh = "no"), record' = record, UNCHANGED queue,
             crs' = IF ctl.cr.st = "open" THEN [crs EXCEPT ![p].st = "held"] ELSE crs,
             ctl' = [ctl EXCEPT !.pc = IF cur = {} THEN "install"
                                       ELSE IF cur # Candidate THEN "upgrade" ELSE "ensure",
                                !.cr.st = "held"]
      PROVE  ReleaseTyped'
  <2>1. crs' \in [Pkgs -> HelmReleases] /\ \A q \in Pkgs : Versioned(crs'[q])
    <3>1. ctl.fresh \in Flags BY <1>2 DEF Reconciles
    <3>2. ctl.cr.st = "open" => crs[p].st # "none" BY <1>7, <3>1 DEF Flags
    <3> QED BY Zenon, <1>2, <1>7, <3>2, HelmReleaseType
  <2>2. ctl'.p = p /\ ctl'.cr = [ctl.cr EXCEPT !.st = "held"] BY <1>2, <1>7 DEF Reconciles
  <2>3. ctl'.cr \in HelmReleases /\ ctl'.cr.st = "held" /\ ctl'.cr.v = ctl.cr.v
    BY <1>2, <2>2 DEF HelmReleases, Phases
  <2>4. ctl' \in Reconciles
    <3> HIDE DEF cur
    <3> QED BY Zenon, <1>2, <1>7, <2>2, <2>3 DEF Reconciles, Labels, Installing, Upgrading
  <2>5. ctl.cr.v # 0 BY <1>1 DEF TypeOK
  <2> QED BY <1>2, <1>3, <1>4, <1>5, <1>7, <2>1, <2>2, <2>3, <2>4, <2>5, TypedFacts
      DEF ReleaseTyped, Working
<1> QED BY <1>6, <1>7 DEF Sync

\* A release is installed, in whole or in part.
LEMMA InstallReleaseType ==
  ASSUME TypeOK, InstallRelease
  PROVE  ReleaseTyped'
<1> DEFINE p == ctl.p
<1>1. ctl.pc # "idle" BY DEF InstallRelease
<1>2. /\ p \in Pkgs /\ ctl.cr.v \in Versions /\ rel[p] \in Releases
      /\ objs[p] \subseteq Rendering /\ Unique(objs[p])
  BY <1>1, CopyType
<1>3. UNCHANGED crs BY DEF InstallRelease
<1>4. Candidate \in Recorded BY <1>2, ManifestFacts DEF Candidate, Recorded
<1>5. faults' \in Nat
  <2>1. Ok \/ \E f \in FaultKinds : Fail(f) BY DEF InstallRelease, FaultKinds
  <2> QED BY <2>1, FaultType
<1>6. CASE Requeue /\ UNCHANGED <<rel, objs, orphans, lost>> /\ record' = PopulatedError(p)
  BY <1>1, <1>2, <1>3, <1>5, <1>6, ControlType, RecordType, TypedFacts DEF ReleaseTyped
<1>7. ASSUME record' = Populated(p), rel' = [rel EXCEPT ![p].new = Candidate],
             NEW m \in SUBSET Candidate,
             objs' = [objs EXCEPT ![p] = Apply(@, m)], orphans' = Owned(p, m),
             \/ Goto("installed") /\ lost' = Whole(p)
             \/ Goto("installfailed") /\ UNCHANGED lost
      PROVE  ReleaseTyped'
  <2>1. rel' \in [Pkgs -> Releases] BY Zenon, <1>2, <1>4, <1>7, ReleaseType, RelType
  <2>2. /\ Apply(objs[p], m) \subseteq Rendering /\ Unique(Apply(objs[p], m))
        /\ Names(m) \subseteq Objects
    BY <1>2, <1>4, ApplyType
  <2>3. objs' \in [Pkgs -> SUBSET Rendering] /\ \A q \in Pkgs : Unique(objs'[q])
    BY Zenon, <1>2, <1>7, <2>2, ObjectsType
  <2>4. orphans' \in [Pkgs -> SUBSET Ownable(Objects)] BY <1>2, <1>7, <2>2, OwnedType
  <2>5. lost' \subseteq lost BY <1>7 DEF Whole
  <2>6. ctl' \in Reconciles /\ Working' /\ queue' \subseteq Pkgs
    BY <1>1, <1>7, ControlType DEF Labels, Installing
  <2>7. crs' \in [Pkgs -> HelmReleases] /\ \A q \in Pkgs : Versioned(crs'[q])
    BY <1>3, TypedFacts DEF ReleaseTyped
  <2>8. record' \in Records BY <1>2, <1>7, RecordType
  <2>9. lost' \subseteq Pkgs \X {"finalizer", "upgrade"} BY <2>5, TypedFacts DEF ReleaseTyped
  <2> QED BY <1>5, <2>1, <2>3, <2>4, <2>6, <2>7, <2>8, <2>9 DEF ReleaseTyped
<1> QED BY <1>6, <1>7 DEF InstallRelease

\* A first install that failed is rolled back.
LEMMA InstallFailedType ==
  ASSUME TypeOK, InstallFailed
  PROVE  ReleaseTyped'
<1> DEFINE p == ctl.p
<1>1. ctl.pc # "idle" BY DEF InstallFailed
<1>2. p \in Pkgs /\ rel[p] \in Releases /\ objs[p] \subseteq Rendering /\ Unique(objs[p])
  BY <1>1, CopyType
<1>3. UNCHANGED <<crs, orphans, lost>> /\ Requeue /\ record' = PopulatedError(p)
  BY DEF InstallFailed
<1>4. faults' \in Nat
  <2>1. Ok \/ \E f \in FaultKinds : Fail(f) BY DEF InstallFailed, FaultKinds
  <2> QED BY <2>1, FaultType
<1>5. rel' \in [Pkgs -> Releases]
  <2>1. \/ rel' = rel \/ rel' = [rel EXCEPT ![p] = NoRelease]
        \/ rel' = [rel EXCEPT ![p] = StrippedRel(@)]
    BY DEF InstallFailed
  <2> QED BY Zenon, <1>2, <2>1, ReleaseType, RelType, TypedFacts DEF ReleaseTyped
<1>6. objs' \in [Pkgs -> SUBSET Rendering] /\ \A q \in Pkgs : Unique(objs'[q])
  <2>1. objs' = objs \/ \E ns : objs' = [objs EXCEPT ![p] = Without(@, ns)]
    BY DEF InstallFailed
  <2> QED BY <1>2, <2>1, WithoutType, ObjectsType, TypedFacts DEF ReleaseTyped
<1> QED BY <1>1, <1>2, <1>3, <1>4, <1>5, <1>6, ControlType, RecordType, TypedFacts DEF ReleaseTyped

\* The status of the copy is written.
LEMMA WriteStatusType ==
  ASSUME TypeOK, ctl.pc # "idle", NEW m \in Recorded, WriteStatus(m)
  PROVE  /\ crs' \in [Pkgs -> HelmReleases] /\ \A q \in Pkgs : Versioned(crs'[q])
         /\ ctl' \in Reconciles /\ Working' /\ queue' \subseteq Pkgs /\ faults' \in Nat
<1>1. ctl.p \in Pkgs BY CopyType
<1>2. m \in SUBSET Rendering BY RecordedFacts
<1>3. Ok \/ \E f \in FaultKinds : Fail(f) BY DEF WriteStatus, FaultKinds
<1>4. faults' \in Nat BY <1>3, FaultType
<1>5. crs' = crs \/ crs' = [crs EXCEPT ![ctl.p].dep = m] BY DEF WriteStatus, StatusWritten
<1>6. Requeue \/ Done BY DEF WriteStatus
<1> QED BY <1>1, <1>2, <1>4, <1>5, <1>6, HelmReleaseType, ControlType

\* The release is marked as deployed, then the status is written.
LEMMA InstalledType ==
  ASSUME TypeOK, Installed
  PROVE  ReleaseTyped'
<1> DEFINE p == ctl.p
<1>1. ctl.pc # "idle" BY DEF Installed
<1>2. p \in Pkgs /\ rel[p] \in Releases BY <1>1, CopyType
<1>3. UNCHANGED <<objs, orphans, lost>> BY DEF Installed
<1>4. CASE /\ rel' = [rel EXCEPT ![p] = [cur |-> @.new, new |-> {}]]
           /\ Goto("installstatus") /\ UNCHANGED <<crs, record, faults>>
  <2>1. rel' \in [Pkgs -> Releases] BY Zenon, <1>2, <1>4, ReleaseType, RelType
  <2>2. ctl' \in Reconciles /\ Working' /\ queue' \subseteq Pkgs
    BY <1>1, <1>4, ControlType DEF Labels, Installing
  <2> QED BY <1>3, <1>4, <2>1, <2>2, TypedFacts DEF ReleaseTyped
<1>5. CASE /\ WriteStatus(rel[p].cur) /\ UNCHANGED rel
           /\ record' = IF ctl.fresh = "no" THEN record ELSE Populated(p)
  <2>1. rel[p].cur \in Recorded BY <1>2 DEF Releases
  <2>2. /\ crs' \in [Pkgs -> HelmReleases] /\ \A q \in Pkgs : Versioned(crs'[q])
        /\ ctl' \in Reconciles /\ Working' /\ queue' \subseteq Pkgs /\ faults' \in Nat
    BY <1>1, <1>5, <2>1, WriteStatusType
  <2> QED BY <1>2, <1>3, <1>5, <2>2, RecordType, TypedFacts DEF ReleaseTyped
<1> QED BY <1>4, <1>5 DEF Installed

\* A release is upgraded, in whole or in part.
LEMMA UpgradeReleaseType ==
  ASSUME TypeOK, UpgradeRelease
  PROVE  ReleaseTyped'
<1> DEFINE p == ctl.p
           gone == (Names(rel[p].cur) \ Names(Candidate)) \ Keep
<1>1. ctl.pc # "idle" BY DEF UpgradeRelease
<1>2. /\ p \in Pkgs /\ ctl.cr.v \in Versions /\ rel[p] \in Releases
      /\ objs[p] \subseteq Rendering /\ Unique(objs[p])
  BY <1>1, CopyType
<1>3. UNCHANGED <<crs, record>> /\ rel' = [rel EXCEPT ![p].new = Candidate]
  BY DEF UpgradeRelease
<1>4. Candidate \in Recorded BY <1>2, ManifestFacts DEF Candidate, Recorded
<1>5. faults' \in Nat
  <2>1. Ok \/ \E f \in FaultKinds : Fail(f) BY DEF UpgradeRelease, FaultKinds
  <2> QED BY <2>1, FaultType
<1>6. PICK m \in SUBSET Candidate :
        /\ orphans' = Owned(p, m)
        /\ \/ /\ objs' = [objs EXCEPT ![p] = Without(Apply(@, m), gone)]
              /\ Goto("upgraded") /\ lost' = Whole(p)
           \/ /\ objs' = [objs EXCEPT ![p] = Apply(@, m)]
              /\ Goto("upgradefailed") /\ UNCHANGED lost
  BY DEF UpgradeRelease
<1> HIDE DEF gone
<1>7. rel' \in [Pkgs -> Releases] BY Zenon, <1>2, <1>3, <1>4, ReleaseType, RelType
<1>8. /\ Apply(objs[p], m) \subseteq Rendering /\ Unique(Apply(objs[p], m))
      /\ Names(m) \subseteq Objects
  BY <1>2, <1>4, ApplyType
<1>9. objs' \in [Pkgs -> SUBSET Rendering] /\ \A q \in Pkgs : Unique(objs'[q])
  BY <1>2, <1>6, <1>8, WithoutType, ObjectsType
<1>10. orphans' \in [Pkgs -> SUBSET Ownable(Objects)] BY <1>2, <1>6, <1>8, OwnedType
<1>11. lost' \subseteq lost BY <1>6 DEF Whole
<1>12. ctl' \in Reconciles /\ Working' /\ queue' \subseteq Pkgs
  BY <1>1, <1>6, ControlType DEF Labels, Upgrading
<1>13. /\ crs' \in [Pkgs -> HelmReleases] /\ \A q \in Pkgs : Versioned(crs'[q])
       /\ record' \in Records /\ lost' \subseteq Pkgs \X {"finalizer", "upgrade"}
  BY <1>3, <1>11, TypedFacts DEF ReleaseTyped
<1> QED BY <1>5, <1>7, <1>9, <1>10, <1>12, <1>13 DEF ReleaseTyped

\* An upgrade has failed, or goes through its last steps.
LEMMA UpgradedType ==
  ASSUME TypeOK, UpgradeFailed \/ Upgraded
  PROVE  ReleaseTyped'
<1> DEFINE p == ctl.p
<1>1. ctl.pc # "idle" BY DEF UpgradeFailed, Upgraded
<1>2. p \in Pkgs /\ rel[p] \in Releases BY <1>1, CopyType
<1>3. UNCHANGED <<objs, orphans, lost>> BY DEF UpgradeFailed, Upgraded
<1>4. CASE /\ \/ rel' = [rel EXCEPT ![p] = StrippedRel(@)]
              \/ rel' = [rel EXCEPT ![p].cur = {}]
              \/ rel' = [rel EXCEPT ![p] = [cur |-> @.new, new |-> {}]]
           /\ Requeue \/ Goto("superseded") \/ Goto("upgradestatus")
           /\ record' \in {record, PopulatedError(p)} /\ UNCHANGED <<crs, faults>>
  <2>1. rel' \in [Pkgs -> Releases] BY Zenon, <1>2, <1>4, ReleaseType, RelType
  <2>2. ctl' \in Reconciles /\ Working' /\ queue' \subseteq Pkgs
    BY <1>1, <1>4, ControlType DEF Labels, Upgrading
  <2> QED BY <1>2, <1>3, <1>4, <2>1, <2>2, RecordType, TypedFacts DEF ReleaseTyped
<1>5. CASE WriteStatus(rel[p].cur) /\ UNCHANGED rel /\ record' = Populated(p)
  <2>1. rel[p].cur \in Recorded BY <1>2 DEF Releases
  <2>2. /\ crs' \in [Pkgs -> HelmReleases] /\ \A q \in Pkgs : Versioned(crs'[q])
        /\ ctl' \in Reconciles /\ Working' /\ queue' \subseteq Pkgs /\ faults' \in Nat
    BY <1>1, <1>5, <2>1, WriteStatusType
  <2> QED BY <1>2, <1>3, <1>5, <2>2, RecordType, TypedFacts DEF ReleaseTyped
<1> QED BY <1>4, <1>5 DEF UpgradeFailed, Upgraded

\* A release is reapplied, in whole, in part or not at all.
LEMMA EnsureType ==
  ASSUME TypeOK, Ensure
  PROVE  ReleaseTyped'
<1> DEFINE p == ctl.p
<1>1. ctl.pc # "idle" BY DEF Ensure
<1>2. p \in Pkgs /\ rel[p] \in Releases /\ objs[p] \subseteq Rendering /\ Unique(objs[p])
  BY <1>1, CopyType
<1>3. UNCHANGED <<rel, lost>> BY DEF Ensure
<1>4. rel[p].cur \in Recorded BY <1>2 DEF Releases
<1>5. PICK m \in SUBSET rel[p].cur :
        /\ objs' = [objs EXCEPT ![p] = Apply(@, m)] /\ orphans' = Owned(p, m)
        /\ \/ Fail("apply") /\ Requeue /\ UNCHANGED <<crs, record>>
           \/ record' \in {record, Populated(p)} /\ WriteStatus(rel[p].cur)
  BY Zenon DEF Ensure, EnsureStatusReasonPopulated
<1>6. /\ Apply(objs[p], m) \subseteq Rendering /\ Unique(Apply(objs[p], m))
      /\ Names(m) \subseteq Objects
  BY <1>2, <1>4, ApplyType
<1>7. objs' \in [Pkgs -> SUBSET Rendering] /\ \A q \in Pkgs : Unique(objs'[q])
  BY Zenon, <1>2, <1>5, <1>6, ObjectsType
<1>8. orphans' \in [Pkgs -> SUBSET Ownable(Objects)] BY <1>2, <1>5, <1>6, OwnedType
<1>9. /\ crs' \in [Pkgs -> HelmReleases] /\ \A q \in Pkgs : Versioned(crs'[q])
      /\ ctl' \in Reconciles /\ Working' /\ queue' \subseteq Pkgs /\ faults' \in Nat
  <2>1. CASE Fail("apply") /\ Requeue /\ UNCHANGED <<crs, record>>
    <3>1. faults' \in Nat BY <2>1, FaultType DEF FaultKinds
    <3> QED BY <1>1, <2>1, <3>1, ControlType, TypedFacts DEF ReleaseTyped
  <2>2. CASE WriteStatus(rel[p].cur) BY Zenon, <1>1, <1>4, <2>2, WriteStatusType
  <2> QED BY <1>5, <2>1, <2>2
<1>10. record' \in Records BY <1>2, <1>5, RecordType, TypedFacts DEF ReleaseTyped
<1> QED BY Zenon, <1>3, <1>7, <1>8, <1>9, <1>10, TypedFacts DEF ReleaseTyped

\* A release is uninstalled, what is left is deleted, and the HelmRelease is let go.
LEMMA UninstallType ==
  ASSUME TypeOK, UninstallRelease \/ CheckRemoved \/ RemoveFinalizer
  PROVE  ReleaseTyped'
<1> DEFINE p == ctl.p
<1>1. ctl.pc # "idle" BY DEF UninstallRelease, CheckRemoved, RemoveFinalizer
<1>2. p \in Pkgs /\ rel[p] \in Releases /\ objs[p] \subseteq Rendering /\ Unique(objs[p])
  BY Zenon, <1>1, CopyType
<1>3. UNCHANGED lost /\ record' \in {record, PopulatedError(p)}
  BY DEF UninstallRelease, CheckRemoved, RemoveFinalizer
<1>4. faults' \in Nat
  <2>1. Ok \/ \E f \in FaultKinds : Fail(f)
    BY DEF UninstallRelease, CheckRemoved, RemoveFinalizer, FaultKinds, Ok
  <2> QED BY <2>1, FaultType
<1>5. rel' \in [Pkgs -> Releases]
  <2>1. \/ rel' = rel \/ rel' = [rel EXCEPT ![p] = NoRelease]
        \/ rel' = [rel EXCEPT ![p] = IF @.new # {} THEN @ ELSE [cur |-> {}, new |-> @.cur]]
    BY DEF UninstallRelease, CheckRemoved, RemoveFinalizer
  <2> QED BY Zenon, <1>2, <2>1, ReleaseType, RelType, TypedFacts DEF ReleaseTyped
<1>6. objs' \in [Pkgs -> SUBSET Rendering] /\ \A q \in Pkgs : Unique(objs'[q])
  <2>1. objs' = objs \/ \E ns : objs' = [objs EXCEPT ![p] = Without(@, ns)]
    BY DEF UninstallRelease, CheckRemoved, RemoveFinalizer
  <2> QED BY Zenon, <1>2, <2>1, WithoutType, ObjectsType, TypedFacts DEF ReleaseTyped
<1>7. /\ crs' \in [Pkgs -> HelmReleases] /\ \A q \in Pkgs : Versioned(crs'[q])
      /\ orphans' \in [Pkgs -> SUBSET Ownable(Objects)]
  <2>1. \/ UNCHANGED <<crs, orphans>>
        \/ /\ crs' = [crs EXCEPT ![p] = NoCR]
           /\ orphans' = [orphans EXCEPT ![p] = Ownable(Names(objs[p]))]
    BY DEF UninstallRelease, CheckRemoved, RemoveFinalizer
  <2>2. Ownable(Names(objs[p])) \subseteq Ownable(Objects)
    BY <1>2, RenderingNames DEF Ownable
  <2> QED BY Zenon, <1>2, <2>1, <2>2, HelmReleaseType, TypedFacts DEF ReleaseTyped
<1>8. ctl' \in Reconciles /\ Working' /\ queue' \subseteq Pkgs
  <2>1. Requeue \/ Goto("check") \/ Goto("letgo")
    BY DEF UninstallRelease, CheckRemoved, RemoveFinalizer
  <2> QED BY Zenon, <1>1, <2>1, ControlType DEF Labels, Uninstalling
<1> QED BY Zenon, <1>2, <1>3, <1>4, <1>5, <1>6, <1>7, <1>8, RecordType, TypedFacts DEF ReleaseTyped

\* HelmReleases are written by others than the controller.
LEMMA WriteType ==
  ASSUME TypeOK, NEW new, new \in [Pkgs -> HelmReleases], \A p \in Pkgs : Versioned(new[p]),
         Write(new)
  PROVE  /\ crs' \in [Pkgs -> HelmReleases] /\ \A p \in Pkgs : Versioned(crs'[p])
         /\ orphans' \in [Pkgs -> SUBSET Ownable(Objects)]
         /\ ctl' \in Reconciles /\ Working' /\ queue' \subseteq Pkgs
<1>1. crs' = new BY DEF Write
<1>2. orphans' \in [Pkgs -> SUBSET Ownable(Objects)]
  <2>1. \A p \in Pkgs : Ownable(Names(objs[p])) \subseteq Ownable(Objects)
    BY RenderingNames DEF TypeOK, Ownable
  <2>2. orphans \in [Pkgs -> SUBSET Ownable(Objects)] BY DEF TypeOK
  <2> QED BY ZenonT(60), <2>1, <2>2 DEF Write
<1>3. queue' \subseteq Pkgs BY DEF Write, TypeOK
<1>4. ctl' \in Reconciles /\ Working'
  <2>1. \/ ctl' = ctl
        \/ \E o : ctl' = [ctl EXCEPT !.fresh = "no", !.owner = o] /\ o \in {"gone", ctl.owner}
    BY Zenon DEF Write
  <2>2. ctl \in Reconciles /\ Working BY DEF TypeOK, Working
  <2> QED BY Zenon, <2>1, <2>2 DEF Reconciles, Flags, Working
<1> QED BY <1>1, <1>2, <1>3, <1>4

\* HelmReleases are deleted.
LEMMA DeletedType ==
  ASSUME TypeOK, NEW ps
  PROVE  Deleted(ps) \in [Pkgs -> HelmReleases] /\ \A p \in Pkgs : Versioned(Deleted(ps)[p])
<1> SUFFICES ASSUME NEW p \in Pkgs
             PROVE  Deleted(ps)[p] \in HelmReleases /\ Versioned(Deleted(ps)[p])
  BY DEF Deleted
<1>1. crs[p] \in HelmReleases /\ Versioned(crs[p]) BY DEF TypeOK
<1>2. NoCR \in HelmReleases /\ Versioned(NoCR) BY DEF NoCR, HelmReleases, Phases, Versioned
<1>3. crs[p].st = "held" => /\ [crs[p] EXCEPT !.st = "leaving"] \in HelmReleases
                            /\ Versioned([crs[p] EXCEPT !.st = "leaving"])
  BY Zenon, <1>1 DEF HelmReleases, Phases, Versioned
<1> QED BY <1>1, <1>2, <1>3 DEF Deleted

\* A HelmRelease is created or updated from its template.
LEMMA UpdatedType ==
  ASSUME TypeOK, NEW p \in Pkgs, p \in item.todo
  PROVE  LET new == [crs EXCEPT ![p] = Updated(@, p)]
         IN  new \in [Pkgs -> HelmReleases] /\ \A q \in Pkgs : Versioned(new[q])
<1>1. crs[p] \in HelmReleases /\ Versioned(crs[p]) BY DEF TypeOK
<1>2. NoCR \in HelmReleases /\ Versioned(NoCR) BY Zenon DEF NoCR, HelmReleases, Phases, Versioned
<1>3. item.list[p] \in Versions \cup {0} /\ item.list[p] # 0 BY DEF TypeOK, Items, Listed
<1>4. ASSUME NEW st \in Phases \ {"none"}
      PROVE  /\ [crs[p] EXCEPT !.v = item.list[p], !.st = st] \in HelmReleases
             /\ Versioned([crs[p] EXCEPT !.v = item.list[p], !.st = st])
  BY Zenon, <1>1, <1>3 DEF HelmReleases, Versioned
<1>5. Updated(crs[p], p) \in HelmReleases /\ Versioned(Updated(crs[p], p))
  BY Zenon, <1>2, <1>4 DEF Updated, Phases
<1> QED BY Zenon, <1>5 DEF TypeOK

\* The type of the item, and what is left of its round.
ItemTyped == item \in Items /\ item.todo \subseteq Listed(item.list)

\* An item that holds nothing of a round.
Blank(pc, left, restart) ==
  [pc |-> pc, left |-> left, list |-> NoList, tpl |-> NoTemplate, todo |-> {},
   named |-> {}, failed |-> {}, error |-> "no", restart |-> restart]

\* The round of the item ends, or the next attempt begins.
LEMMA RestingType ==
  ASSUME NEW pc \in {"idle", "fetch", "gone"}, NEW left \in Nat, NEW restart \in Flags,
         item' = Blank(pc, left, restart)
  PROVE  ItemTyped'
<1>1. NoList \in [Pkgs -> Versions \cup {0}] /\ NoTemplate \in [Pkgs -> Phases]
  BY Zenon DEF NoList, NoTemplate, Phases
<1>2. item' \in Items BY Zenon, <1>1 DEF Blank, Items, Flags
<1>3. item'.todo = {} BY DEF Blank
<1> QED BY <1>2, <1>3 DEF ItemTyped

\* An attempt has ended.
LEMMA EndedType ==
  ASSUME TypeOK, NEW ok \in BOOLEAN, Ended(ok)
  PROVE  ItemTyped'
<1>1. item.left \in Nat /\ item.restart \in Flags BY DEF TypeOK, Items
<1>2. CASE item' = [Resting EXCEPT !.restart = item.restart]
  <2>1. item' = Blank("idle", 0, item.restart) BY <1>2 DEF Resting, Blank
  <2> QED BY <1>1, <2>1, RestingType
<1>3. CASE /\ item.left # 0
           /\ item' = [Resting EXCEPT !.restart = item.restart, !.pc = "fetch", !.left = item.left - 1]
  <2>1. item' = Blank("fetch", item.left - 1, item.restart) BY Zenon, <1>3 DEF Resting, Blank
  <2>2. item.left - 1 \in Nat BY <1>1, <1>3
  <2> QED BY <1>1, <2>1, <2>2, RestingType
<1> QED BY Zenon, <1>2, <1>3 DEF Ended

\* HelmReleases are written, and the controller's other state is left alone.
LEMMA TypedWrite ==
  ASSUME TypeOK, NEW new, new \in [Pkgs -> HelmReleases], \A p \in Pkgs : Versioned(new[p]),
         Write(new), rel' = rel, objs' = objs, record' \in Records, faults' \in Nat,
         lost' \subseteq Pkgs \X {"finalizer", "upgrade"}
  PROVE  ReleaseTyped'
<1>1. /\ crs' \in [Pkgs -> HelmReleases] /\ \A q \in Pkgs : Versioned(crs'[q])
      /\ orphans' \in [Pkgs -> SUBSET Ownable(Objects)]
      /\ ctl' \in Reconciles /\ Working' /\ queue' \subseteq Pkgs
  BY Zenon, WriteType
<1>2. rel' \in [Pkgs -> Releases] /\ objs' \in [Pkgs -> SUBSET Rendering] BY Zenon DEF TypeOK
<1>3. \A q \in Pkgs : Unique(objs'[q]) BY DEF TypeOK
<1> QED BY <1>1, <1>2, <1>3 DEF ReleaseTyped

\* The controller's state is left alone.
LEMMA TypedSame ==
  ASSUME TypeOK, crs' = crs, rel' = rel, objs' = objs, orphans' = orphans, queue' = queue,
         ctl' = ctl, lost' = lost,
         record' \in Records, faults' \in Nat
  PROVE  ReleaseTyped'
<1>1. Working' <=> Working BY DEF Working
<1>2. ReleaseTyped BY TypedFacts
<1> QED BY <1>1, <1>2 DEF ReleaseTyped

\* The round reads the index, and makes templates or purges.
LEMMA DoSubscriptionType ==
  ASSUME TypeOK, DoSubscription
  PROVE  ReleaseTyped' /\ ItemTyped'
<1>0. record \in Records /\ lost \subseteq Pkgs \X {"finalizer", "upgrade"} BY DEF TypeOK
<1>1. rel' = rel /\ objs' = objs /\ lost' = lost BY DEF DoSubscription
<1>2. faults' \in Nat
  <2>1. Ok \/ \E f \in FaultKinds : Fail(f)
    BY Zenon DEF DoSubscription, GetHelmRepoIndexFails, CreateHelmCRManifestFails, Purge, FaultKinds
  <2> QED BY <2>1, FaultType
<1>3. ASSUME Purge PROVE ReleaseTyped'
  <2>1. PICK ps : Write(Deleted(ps)) BY Zenon, <1>3 DEF Purge
  <2>2. record' \in Records BY <1>3 DEF Purge, NoRecord, Records
  <2> QED BY Zenon, <1>0, <1>1, <1>2, <2>1, <2>2, DeletedType, TypedWrite
<1>4. ASSUME UNCHANGED <<crs, orphans, queue, ctl, record>> PROVE ReleaseTyped'
  BY <1>0, <1>1, <1>2, <1>4, TypedSame
<1>5. ReleaseTyped' BY Zenon, <1>3, <1>4 DEF DoSubscription
<1>6. ASSUME NEW ok \in BOOLEAN, Ended(ok) PROVE ItemTyped' BY <1>6, EndedType
<1>7. ASSUME NEW failed, ManageHelmCR(FilterCharts, failed) PROVE ItemTyped'
  <2>1. FilterCharts \in [Pkgs -> Versions \cup {0}] BY Zenon, SelectionType
  <2>2. [p \in Pkgs |-> CreateOrUpdateHelmChart(p)] \in [Pkgs -> Phases]
    BY DEF CreateOrUpdateHelmChart, TypeOK, HelmReleases
  <2>3. item'.list = FilterCharts /\ item'.todo = Listed(FilterCharts) \ failed
    BY <1>7 DEF ManageHelmCR, TypeOK, Items
  <2>4. item'.todo \subseteq Listed(item'.list) BY <2>3
  <2>5. Listed(FilterCharts) \ failed \subseteq Pkgs BY DEF Listed
  <2>6. item' \in Items
    BY Zenon, <1>7, <2>1, <2>2, <2>5 DEF ManageHelmCR, TypeOK, Items, Flags
  <2> QED BY <2>4, <2>6 DEF ItemTyped
<1>8. ItemTyped' BY Zenon, <1>6, <1>7 DEF DoSubscription
<1> QED BY Zenon, <1>5, <1>8

\* A template is applied.
LEMMA ApplyTemplateType ==
  ASSUME TypeOK, NEW p \in Pkgs, ApplyTemplate(p)
  PROVE  ReleaseTyped' /\ ItemTyped'
<1>0. record \in Records BY DEF TypeOK
<1>1. rel' = rel /\ objs' = objs /\ record' = record /\ p \in item.todo BY DEF ApplyTemplate
<1>2. faults' \in Nat
  <2>1. Ok \/ \E f \in FaultKinds : Fail(f) BY DEF ApplyTemplate, FaultKinds
  <2> QED BY <2>1, FaultType
<1>3. ASSUME UNCHANGED <<crs, orphans, queue, ctl, lost>> PROVE ReleaseTyped'
  BY <1>0, <1>1, <1>2, <1>3, TypedSame
<1>4. ASSUME Write([crs EXCEPT ![p] = Updated(@, p)]),
             lost' = IF HasFinalizer(crs[p].st) /\ ~HasFinalizer(item.tpl[p])
                     THEN lost \cup {<<p, "finalizer">>} ELSE lost
      PROVE  ReleaseTyped'
  <2>1. lost' \subseteq Pkgs \X {"finalizer", "upgrade"} BY SMTT(60), <1>4 DEF TypeOK
  <2> DEFINE new == [crs EXCEPT ![p] = Updated(@, p)]
  <2>2. new \in [Pkgs -> HelmReleases] /\ \A q \in Pkgs : Versioned(new[q])
    BY Zenon, <1>1, UpdatedType
  <2>3. Write(new) BY Zenon, <1>4
  <2> HIDE DEF new
  <2> QED BY Zenon, <1>0, <1>1, <1>2, <2>1, <2>2, <2>3, TypedWrite
<1>5. ItemTyped'
  <2>1. PICK named \in SUBSET Pkgs, failed \in SUBSET Pkgs :
          item' = [item EXCEPT !.todo = @ \ {p}, !.named = named, !.failed = failed]
    <3>1. item.named \cup {p} \subseteq Pkgs /\ item.failed \cup {p} \subseteq Pkgs
          /\ item.named \subseteq Pkgs /\ item.failed \subseteq Pkgs /\ item \in Items
      BY DEF TypeOK, Items
    <3>2. item' \in {[item EXCEPT !.todo = @ \ {p}, !.failed = @ \cup {p}],
                     [item EXCEPT !.todo = @ \ {p}, !.failed = @ \cup {p}, !.named = @ \cup {p}],
                     [item EXCEPT !.todo = @ \ {p}, !.named = @ \cup {p}]}
      BY DEF ApplyTemplate
    <3>3. CASE item' = [item EXCEPT !.todo = @ \ {p}, !.failed = @ \cup {p}]
      <4>1. item' = [item EXCEPT !.todo = @ \ {p}, !.named = item.named, !.failed = item.failed \cup {p}]
        BY Zenon, <3>1, <3>3 DEF Items
      <4> QED BY Zenon, <3>1, <4>1
    <3>4. CASE item' = [item EXCEPT !.todo = @ \ {p}, !.failed = @ \cup {p}, !.named = @ \cup {p}]
      <4>1. item' = [item EXCEPT !.todo = @ \ {p}, !.named = item.named \cup {p},
                                 !.failed = item.failed \cup {p}]
        BY Zenon, <3>1, <3>4 DEF Items
      <4> QED BY Zenon, <3>1, <4>1
    <3>5. CASE item' = [item EXCEPT !.todo = @ \ {p}, !.named = @ \cup {p}]
      <4>1. item' = [item EXCEPT !.todo = @ \ {p}, !.named = item.named \cup {p}, !.failed = item.failed]
        BY Zenon, <3>1, <3>5 DEF Items
      <4> QED BY Zenon, <3>1, <4>1
    <3> QED BY ZenonT(60), <3>2, <3>3, <3>4, <3>5
  <2>2. item \in Items /\ item.todo \subseteq Listed(item.list) BY DEF TypeOK
  <2>3. item' \in Items BY Zenon, <2>1, <2>2 DEF Items
  <2>4. item'.list = item.list /\ item'.todo \subseteq item.todo BY <2>1, <2>2 DEF Items
  <2> QED BY <2>2, <2>3, <2>4 DEF ItemTyped
<1> QED BY Zenon, <1>3, <1>4, <1>5 DEF ApplyTemplate

\* The record is written, what it had and the list has not is deleted.
LEMMA SyncRecordType ==
  ASSUME TypeOK, SyncRecord
  PROVE  ReleaseTyped' /\ ItemTyped'
<1>0. record \in Records /\ lost \subseteq Pkgs \X {"finalizer", "upgrade"} BY DEF TypeOK
<1>1. rel' = rel /\ objs' = objs /\ lost' = lost BY DEF SyncRecord
<1>2. faults' \in Nat
  <2>1. Ok \/ \E f \in FaultKinds : Fail(f) BY Zenon DEF SyncRecord, FaultKinds
  <2> QED BY <2>1, FaultType
<1>3. PICK ok \in BOOLEAN : Ended(ok) BY Zenon DEF SyncRecord
<1>4. ItemTyped' BY <1>3, EndedType
<1>5. ASSUME UNCHANGED <<crs, orphans, queue, ctl, record>> PROVE ReleaseTyped'
  BY <1>0, <1>1, <1>2, <1>5, TypedSame
<1>6. ASSUME NEW undeleted \in SUBSET (record.hrs \ item.named), NEW ps, Write(Deleted(ps)),
             NEW first \in item.named \cup item.failed,
             record' = [hrs |-> item.named \cup undeleted,
                        first |-> IF first \in item.named THEN first ELSE "object"]
      PROVE  ReleaseTyped'
  <2>1. record' \in Records BY Zenon, <1>6 DEF TypeOK, Records, Items
  <2> QED BY Zenon, <1>0, <1>1, <1>2, <1>6, <2>1, DeletedType, TypedWrite
<1>7. ReleaseTyped' BY Zenon, <1>5, <1>6 DEF SyncRecord
<1> QED BY Zenon, <1>4, <1>7

\* The item goes with its Subscription, and the garbage collector follows.
LEMMA PurgeType ==
  ASSUME TypeOK, Purge \/ \E p \in Pkgs : CollectRelease(p),
         rel' = rel, objs' = objs, lost' = lost
  PROVE  ReleaseTyped'
<1>1. PICK ps : Write(Deleted(ps)) BY Zenon DEF Purge, CollectRelease
<1>2. faults' \in Nat
  <2>1. Ok \/ \E f \in FaultKinds : Fail(f) BY Zenon DEF Purge, CollectRelease, FaultKinds, Ok
  <2> QED BY <2>1, FaultType
<1>3. record \in Records /\ lost \subseteq Pkgs \X {"finalizer", "upgrade"} BY DEF TypeOK
<1>4. record' = record \/ record' = NoRecord BY Zenon DEF Purge, CollectRelease
<1>5. NoRecord \in Records BY DEF NoRecord, Records
<1> QED BY <1>1, <1>2, <1>3, <1>4, <1>5, DeletedType, TypedWrite

\* The types of what the user and the repository write.
OutsideTyped ==
  /\ world \in Worlds /\ index \in world.indexes
  /\ sub \in [filter : world.filters, rate : {"on", "off"}, paused : Flags]
  /\ broken \subseteq Pkgs \X Versions /\ parent \in Flags /\ edits \in Nat

\* The types are those of the controller, of the item and of the outside.
LEMMA TypeParts ==
  /\ TypeOK <=> ReleaseTyped /\ ItemTyped /\ OutsideTyped
  /\ TypeOK' <=> ReleaseTyped' /\ ItemTyped' /\ OutsideTyped'
BY Zenon DEF TypeOK, ReleaseTyped, ItemTyped, OutsideTyped, Working

\* The outside is left alone.
LEMMA OutsideSame ==
  ASSUME OutsideTyped, world' = world, index' = index, sub' = sub, broken' = broken,
         parent' = parent, edits' = edits
  PROVE  OutsideTyped'
BY DEF OutsideTyped

\* The item is left alone.
LEMMA ItemSame ==
  ASSUME ItemTyped, item' = item
  PROVE  ItemTyped'
BY DEF ItemTyped

\* The steps of the controller keep the types.
LEMMA ControlledType ==
  ASSUME TypeOK, Controlled,
         ctl.pc # "idle" /\ ctl.fresh = "yes" => crs[ctl.p].st = ctl.cr.st
  PROVE  TypeOK'
<1>0. ReleaseTyped /\ ItemTyped /\ OutsideTyped BY TypeParts
<1>1. world' = world /\ index' = index /\ sub' = sub /\ item' = item /\ edits' = edits
  BY DEF Controlled
<1>2. ItemTyped' BY <1>0, <1>1, ItemSame
<1>3. parent' = parent
  <2>1. ASSUME NewManager PROVE parent' = parent BY <2>1 DEF NewManager
  <2>2. ASSUME NEW p \in Pkgs, Reconcile(p) PROVE parent' = parent BY <2>2 DEF Reconcile
  <2>3. ASSUME Released PROVE parent' = parent
    BY Zenon, <2>3 DEF Released, Sync, InstallRelease, InstallFailed, Installed, UpgradeRelease,
      UpgradeFailed, Upgraded, Ensure, UninstallRelease, CheckRemoved, RemoveFinalizer
  <2> QED BY <2>1, <2>2, <2>3 DEF Controlled, Controller
<1>4. ReleaseTyped' /\ broken' \subseteq Pkgs \X Versions
  <2>1. ASSUME NewManager PROVE ReleaseTyped' /\ broken' \subseteq Pkgs \X Versions
    BY <2>1, NewManagerType
  <2>2. ASSUME NEW p \in Pkgs, Reconcile(p) PROVE ReleaseTyped' BY <2>2, ReconcileType
  <2>3. ASSUME Released PROVE ReleaseTyped'
    <3>1. ASSUME Sync PROVE ReleaseTyped'
      <4>1. ctl.pc # "idle" BY <3>1 DEF Sync
      <4> QED BY <3>1, <4>1, SyncType
    <3> QED
      BY Zenon, <2>3, <3>1, InstallReleaseType, InstallFailedType, InstalledType, UpgradeReleaseType,
        UpgradedType, EnsureType, UninstallType DEF Released
  <2>4. broken \subseteq Pkgs \X Versions BY <1>0 DEF OutsideTyped
  <2> QED BY <2>1, <2>2, <2>3, <2>4 DEF Controlled, Controller
<1>5. OutsideTyped' BY <1>0, <1>1, <1>3, <1>4 DEF OutsideTyped
<1> QED BY <1>2, <1>4, <1>5, TypeParts

\* The steps of the item and of the garbage collector keep the types.
LEMMA SubscribedType ==
  ASSUME TypeOK, Subscribed \/ \E p \in Pkgs : Cleaned(p)
  PROVE  TypeOK'
<1>0. ReleaseTyped /\ ItemTyped /\ OutsideTyped BY TypeParts
<1>1. /\ world' = world /\ index' = index /\ sub' = sub /\ edits' = edits /\ broken' = broken
      /\ parent' = parent
  <2>1. ASSUME Subscribed PROVE /\ world' = world /\ index' = index /\ sub' = sub
                                /\ edits' = edits /\ broken' = broken /\ parent' = parent
    BY ZenonT(60), <2>1 DEF Subscribed, Subscriber, Start, DoSubscription, SyncRecord, UnsubscribeItem,
      ApplyTemplate
  <2>2. ASSUME NEW p \in Pkgs, Cleaned(p)
        PROVE  /\ world' = world /\ index' = index /\ sub' = sub
               /\ edits' = edits /\ broken' = broken /\ parent' = parent
    BY <2>2 DEF Cleaned, CollectRelease, Collect
  <2> QED BY <2>1, <2>2
<1>2. OutsideTyped' BY <1>0, <1>1, OutsideSame
<1>3. ASSUME Start PROVE ReleaseTyped' /\ ItemTyped'
  <2>1. item' = Blank("fetch", Retries, "no") BY Zenon, <1>3 DEF Start, Resting, Blank
  <2>2. ItemTyped' BY <2>1, RestingType, SubscriberAssumption DEF Flags
  <2>3. /\ crs' = crs /\ rel' = rel /\ objs' = objs /\ orphans' = orphans /\ queue' = queue
        /\ ctl' = ctl /\ lost' = lost /\ record' \in Records /\ faults' \in Nat
    BY <1>0, <1>3 DEF Start, ReleaseTyped
  <2> QED BY <2>2, <2>3, TypedSame
<1>4. ASSUME UnsubscribeItem PROVE ReleaseTyped' /\ ItemTyped'
  <2>1. item' = Blank("gone", 0, "no") BY <1>4 DEF UnsubscribeItem, Resting, Blank
  <2>2. ItemTyped' BY <2>1, RestingType DEF Flags
  <2>3. Purge /\ rel' = rel /\ objs' = objs /\ lost' = lost BY <1>4 DEF UnsubscribeItem
  <2> QED BY <2>2, <2>3, PurgeType
<1>5. ASSUME NEW p \in Pkgs, CollectRelease(p) PROVE ReleaseTyped' /\ ItemTyped'
  <2>1. item' = item /\ rel' = rel /\ objs' = objs /\ lost' = lost BY ZenonT(60), <1>5 DEF CollectRelease
  <2> QED BY <1>0, <1>5, <2>1, ItemSame, PurgeType
<1>6. ASSUME NEW p \in Pkgs, Collect(p) PROVE ReleaseTyped'
  <2>1. /\ crs' = crs /\ rel' = rel /\ ctl' = ctl /\ queue' = queue /\ record' = record
        /\ lost' = lost /\ faults' = faults
        /\ objs' = [objs EXCEPT ![p] = Without(@, orphans[p])]
        /\ orphans' = [orphans EXCEPT ![p] = {}]
    BY <1>6 DEF Collect
  <2>2. objs' \in [Pkgs -> SUBSET Rendering] /\ \A q \in Pkgs : Unique(objs'[q])
    <3>1. objs[p] \subseteq Rendering /\ Unique(objs[p]) BY <1>0 DEF ReleaseTyped
    <3> QED BY Zenon, <2>1, <3>1, WithoutType, ObjectsType
  <2>3. orphans' \in [Pkgs -> SUBSET Ownable(Objects)] BY <1>0, <2>1 DEF ReleaseTyped
  <2> QED BY <1>0, <2>1, <2>2, <2>3 DEF ReleaseTyped, Working
<1>7. ReleaseTyped' /\ ItemTyped'
  <2>1. CASE Subscribed
    BY <1>3, <1>4, <2>1, DoSubscriptionType, SyncRecordType, ApplyTemplateType
    DEF Subscribed, Subscriber
  <2>2. ASSUME NEW p \in Pkgs, Cleaned(p) PROVE ReleaseTyped' /\ ItemTyped'
    BY <1>0, <1>5, <1>6, <2>2, ItemSame DEF Cleaned
  <2> QED BY <2>1, <2>2
<1> QED BY <1>2, <1>7, TypeParts

\* So do the user, the repository and a restart.
LEMMA OutsideType ==
  ASSUME TypeOK,
         \/ (PublishIndex \/ SubscribeItem \/ DeleteSubscription) /\ UNCHANGED <<world, broken>>
         \/ Restart /\ UNCHANGED world
  PROVE  TypeOK'
<1>0. ReleaseTyped /\ ItemTyped /\ OutsideTyped BY TypeParts
<1>1. CASE Restart /\ UNCHANGED world
  <2>1. /\ ctl' = Idle /\ crs' = crs /\ rel' = rel /\ objs' = objs /\ orphans' = orphans
        /\ record' = record /\ parent' = parent /\ lost' = lost /\ index' = index /\ sub' = sub
        /\ edits' = edits /\ world' = world /\ queue' \subseteq Pkgs /\ broken' \subseteq broken
        /\ Fail("restart")
    BY <1>1 DEF Restart
  <2>2. faults' \in Nat BY Zenon, <2>1, FaultType DEF FaultKinds
  <2>3. Idle \in Reconciles BY Zenon DEF Idle, Reconciles, NoCR, HelmReleases, Labels, Flags, Phases
  <2>4. ReleaseTyped' BY <1>0, <2>1, <2>2, <2>3 DEF ReleaseTyped, Working, Idle
  <2>5. ItemTyped'
    <3>1. \/ item' = Blank("idle", 0, "yes") \/ item' = Blank("gone", 0, "no")
      BY Zenon, <1>1 DEF Restart, Resting, Blank
    <3> QED BY <3>1, RestingType DEF Flags
  <2>6. OutsideTyped' BY <1>0, <2>1 DEF OutsideTyped
  <2> QED BY <2>4, <2>5, <2>6, TypeParts
<1>2. CASE (PublishIndex \/ SubscribeItem \/ DeleteSubscription) /\ UNCHANGED <<world, broken>>
  <2>1. /\ crs' = crs /\ rel' = rel /\ objs' = objs /\ orphans' = orphans /\ queue' = queue
        /\ ctl' = ctl /\ lost' = lost /\ record' = record /\ faults' = faults
        /\ world' = world /\ broken' = broken
    BY Zenon, <1>2 DEF PublishIndex, SubscribeItem, DeleteSubscription
  <2>2. ReleaseTyped' BY <1>0, <2>1, TypedSame DEF ReleaseTyped
  <2>3. ItemTyped'
    <3>1. item' = item \/ item' = [item EXCEPT !.restart = "yes"]
      BY <1>2 DEF PublishIndex, SubscribeItem, DeleteSubscription
    <3> QED BY <1>0, <3>1 DEF ItemTyped, Items, Flags
  <2>4. index' \in world.indexes BY Zenon, <1>0, <1>2 DEF PublishIndex, SubscribeItem, DeleteSubscription, OutsideTyped
  <2>5. edits' \in Nat /\ parent' \in Flags
    BY <1>0, <1>2 DEF PublishIndex, SubscribeItem, DeleteSubscription, OutsideTyped, Edit, Flags
  <2>6. sub' \in [filter : world.filters, rate : {"on", "off"}, paused : Flags]
    <3>1. CASE sub' = sub BY <1>0, <3>1 DEF OutsideTyped
    <3>2. CASE SubscribeItem BY Zenon, <1>0, <3>2 DEF OutsideTyped, SubscribeItem, Flags
    <3> QED BY Zenon, <1>2, <3>1, <3>2 DEF PublishIndex, DeleteSubscription
  <2>7. OutsideTyped' BY ZenonT(60), <1>0, <2>1, <2>4, <2>5, <2>6 DEF OutsideTyped
  <2> QED BY <2>2, <2>3, <2>7, TypeParts
<1> QED BY <1>1, <1>2

----------------------------------------------------------------------------
(* The invariant.                                                            *)

\* Another writer removed the finalizer, and the promises with it; or an
\* interrupted upgrade was given up, and it is not known what is there.
Unheld(p) == <<p, "finalizer">> \in lost
Unknown(p) == Unheld(p) \/ <<p, "upgrade">> \in lost

\* The copy that is reconciled: its status is that of the HelmRelease, unless that
\* is a new one; a fresh copy is true; the HelmRelease cannot have gone away from
\* under a copy with a finalizer.  Past the managers the status has no CRDs to strip.
CopyOf(p) ==
  /\ crs[p].dep \in {ctl.cr.dep, {}}
  /\ ctl.fresh = "yes" => crs[p].dep = ctl.cr.dep /\ crs[p].st = ctl.cr.st
  /\ ctl.owner = "gone" => ctl.fresh = "no" /\ (Unheld(p) \/ ctl.cr.st = "open")
  /\ ctl.cr.st = "leaving" => Unheld(p) \/ crs[p].st = "leaving"
  /\ ctl.cr.st = "held" => Unheld(p) \/ crs[p].st \in {"held", "leaving"}
  /\ ctl.pc \in Uninstalling => ctl.cr.st = "leaving"
  /\ ctl.pc \in Installing \cup Upgrading \cup {"ensure"} => ctl.cr.st = "held"
  /\ ctl.pc = "sync" => ctl.cr.st # "leaving"
  /\ ctl.pc # "manager" => (IsMultiClusterHubOwned => StripCRDs(ctl.cr.dep) = ctl.cr.dep)

\* Where the reconcile is: what was installed or upgraded is there and not up for
\* collection, until the status is written; what is to be let go is gone.
ProgressOf(p) ==
  /\ ctl.pc \in {"installed", "upgraded", "superseded"} =>
       Unheld(p) \/ /\ Names(rel[p].new) \subseteq Names(objs[p])
                    /\ Names(rel[p].new) \cap orphans[p] = {}
  /\ ctl.pc \in {"installstatus", "upgradestatus"} =>
       Unheld(p) \/ Names(rel[p].cur) \subseteq Names(objs[p])
  /\ ctl.pc = "ensure" => rel[p].new = {}
  /\ ctl.pc \in {"check", "letgo"} => rel[p] = NoRelease
  /\ ctl.pc = "letgo" => Names(ctl.cr.dep) \cap Names(objs[p]) \subseteq Keep

\* While the finalizer is respected a release record has its HelmRelease, and
\* neither what the record nor what the status names is up for collection.
Kept(p) == ~Unheld(p) =>
  /\ crs[p].st \in {"none", "open"} => rel[p] = NoRelease
  /\ orphans[p] \cap Names(crs[p].dep) = {}
  /\ orphans[p] \cap Names(rel[p].cur) = {}

\* What is recorded as deployed is there, if nothing is unfinished and nobody
\* reapplies it; and so is a status that still has CRDs to strip.
There(p) == ~Unknown(p) =>
  /\ world.watch = "no" /\ rel[p].new = {} => Names(rel[p].cur) \subseteq Names(objs[p])
  /\ IsMultiClusterHubOwned /\ StripCRDs(crs[p].dep) # crs[p].dep
       => Names(crs[p].dep) \subseteq Names(objs[p])

At(p) == ctl.pc # "idle" /\ ctl.p = p
PkgInv(p) == Kept(p) /\ There(p) /\ (At(p) => CopyOf(p) /\ ProgressOf(p))
HelmInv == \A p \in Pkgs : PkgInv(p)

----------------------------------------------------------------------------
(* What a step leaves alone.                                                 *)

\* The step is about p.
Frame(p) ==
  /\ \A q \in Pkgs \ {p} : /\ crs'[q] = crs[q] /\ rel'[q] = rel[q]
                           /\ objs'[q] = objs[q] /\ orphans'[q] = orphans[q]
                           /\ Unheld(q)' = Unheld(q) /\ Unknown(q)' = Unknown(q)
  /\ world' = world /\ parent' = parent

\* A package that the step is not about keeps its part of the invariant.
LEMMA OtherPackage ==
  ASSUME NEW q \in Pkgs, PkgInv(q), crs'[q] = crs[q], rel'[q] = rel[q],
         objs'[q] = objs[q], orphans'[q] = orphans[q],
         Unheld(q)' = Unheld(q), Unknown(q)' = Unknown(q),
         world' = world, parent' = parent \/ parent' # "yes",
         ~At(q)' \/ (At(q) /\ ctl' = ctl)
  PROVE  PkgInv(q)'
<1>1. Kept(q)' BY ZenonT(60) DEF PkgInv, Kept
<1>2. IsMultiClusterHubOwned' => IsMultiClusterHubOwned BY DEF IsMultiClusterHubOwned
<1>3. There(q)' BY Zenon, <1>2 DEF PkgInv, There
<1>4. ASSUME At(q), ctl' = ctl PROVE CopyOf(q)'
  BY Zenon, <1>2, <1>4 DEF PkgInv, CopyOf
<1>5. ASSUME At(q), ctl' = ctl PROVE ProgressOf(q)'
  BY ZenonT(60), <1>5 DEF PkgInv, ProgressOf
<1> QED BY ZenonT(60), <1>1, <1>3, <1>4, <1>5 DEF PkgInv

\* A step of the controller has to be looked at for its package only.
LEMMA OnePackage ==
  ASSUME HelmInv, NEW p \in Pkgs, Frame(p), PkgInv(p)', ctl'.pc = "idle" \/ ctl'.p = p
  PROVE  HelmInv'
<1> SUFFICES ASSUME NEW q \in Pkgs, q # p PROVE PkgInv(q)' BY DEF HelmInv
<1>1. ~At(q)' BY DEF At
<1> QED BY Zenon, <1>1, OtherPackage DEF HelmInv, Frame

\* The reconcile ends: nothing has to be shown of the copy.
LEMMA EndsWell ==
  ASSUME NEW p, Kept(p)', There(p)', ctl' = Idle
  PROVE  PkgInv(p)'
BY Zenon DEF PkgInv, At, Idle

\* The step leaves the HelmRelease, the record and the objects of p alone.
LEMMA KeptFrame ==
  ASSUME NEW p \in Pkgs, Kept(p), There(p), crs'[p] = crs[p], rel'[p] = rel[p],
         objs'[p] = objs[p], orphans'[p] = orphans[p],
         Unheld(p)' = Unheld(p), Unknown(p)' = Unknown(p), world' = world, parent' = parent
  PROVE  Kept(p)' /\ There(p)'
<1>1. Kept(p)' BY Zenon DEF Kept
<1>2. There(p)' BY Zenon DEF There, IsMultiClusterHubOwned
<1> QED BY Zenon, <1>1, <1>2

----------------------------------------------------------------------------
(* The steps of the controller.                                              *)

\* A HelmRelease is read.
LEMMA ReconcileStep ==
  ASSUME TypeOK, HelmInv, NEW p \in Pkgs, Reconcile(p), UNCHANGED world
  PROVE  HelmInv' /\ LifeStep
<1>1. /\ crs' = crs /\ rel' = rel /\ objs' = objs /\ orphans' = orphans /\ lost' = lost
      /\ parent' = parent /\ world' = world /\ ctl.pc = "idle"
  BY DEF Reconcile
<1>2. LifeStep BY <1>1, StepNone
<1>3. PkgInv(p) BY DEF HelmInv
<1>4. Frame(p) BY ZenonT(60), <1>1 DEF Frame, Unheld, Unknown
<1>5. Kept(p)' /\ There(p)' BY Zenon, <1>1, <1>3, KeptFrame DEF PkgInv, Unheld, Unknown
<1>6. CASE ctl' = ctl
  <2>1. PkgInv(p)' BY Zenon, <1>1, <1>5, <1>6 DEF PkgInv, At
  <2> QED BY Zenon, <1>1, <1>2, <1>4, <1>6, <2>1, OnePackage
<1>7. CASE ctl' = [Idle EXCEPT !.pc = "manager", !.p = p, !.cr = crs[p]]
  <2>1. /\ ctl'.pc = "manager" /\ ctl'.p = p /\ ctl'.cr = crs[p]
        /\ ctl'.fresh = "yes" /\ ctl'.owner = "live"
    BY Zenon, <1>7 DEF Idle
  <2>2. CopyOf(p)' BY Zenon, <1>1, <2>1 DEF CopyOf, Uninstalling, Installing, Upgrading
  <2>3. ProgressOf(p)' BY <2>1 DEF ProgressOf
  <2>4. PkgInv(p)' BY Zenon, <1>5, <2>2, <2>3 DEF PkgInv
  <2> QED BY <1>2, <1>4, <2>1, <2>4, OnePackage
<1> QED BY <1>6, <1>7 DEF Reconcile

\* What is known of the package whose HelmRelease is reconciled.
LEMMA Reconciled ==
  ASSUME TypeOK, HelmInv, NEW p, p = ctl.p, ctl.pc # "idle"
  PROVE  /\ p \in Pkgs /\ PkgInv(p) /\ Kept(p) /\ There(p) /\ CopyOf(p) /\ ProgressOf(p)
         /\ ctl \in Reconciles /\ ctl.cr \in HelmReleases /\ ctl.cr.v \in Versions
         /\ crs \in [Pkgs -> HelmReleases] /\ crs[p] \in HelmReleases
         /\ rel \in [Pkgs -> Releases] /\ rel[p] \in Releases
         /\ rel[p].cur \in Recorded /\ rel[p].new \in Recorded
         /\ objs \in [Pkgs -> SUBSET Rendering] /\ orphans \in [Pkgs -> SUBSET Ownable(Objects)]
         /\ world \in Worlds
<1>1. p \in Pkgs /\ ctl.cr \in HelmReleases /\ ctl.cr.v \in Versions /\ ctl \in Reconciles
  BY CopyType
<1>2. PkgInv(p) /\ At(p) BY <1>1 DEF HelmInv, At
<1>3. Kept(p) /\ There(p) /\ CopyOf(p) /\ ProgressOf(p) BY Zenon, <1>2 DEF PkgInv
<1>4. /\ crs \in [Pkgs -> HelmReleases] /\ crs[p] \in HelmReleases
      /\ rel \in [Pkgs -> Releases] /\ rel[p] \in Releases
      /\ objs \in [Pkgs -> SUBSET Rendering] /\ orphans \in [Pkgs -> SUBSET Ownable(Objects)]
      /\ world \in Worlds
  BY <1>1 DEF TypeOK
<1>5. rel[p].cur \in Recorded /\ rel[p].new \in Recorded BY <1>4 DEF Releases
<1> QED BY Zenon, <1>1, <1>2, <1>3, <1>4, <1>5

\* Stripping the CRDs of the records leaves what is recorded and unfinished so.
LEMMA StripFacts ==
  ASSUME NEW r \in Releases
  PROVE  /\ StrippedRel(r) \in Releases
         /\ Names(StrippedRel(r).cur) \subseteq Names(r.cur)
         /\ Names(StrippedRel(r).new) \subseteq Names(r.new)
         /\ StrippedRel(r).new = {} <=> r.new = {}
         /\ r = NoRelease => StrippedRel(r) = NoRelease
<1>1. r.cur \in Recorded /\ r.new \in Recorded BY DEF Releases
<1>2. Stripped(r.cur) \subseteq r.cur /\ Stripped(r.new) \subseteq r.new
  BY Zenon, StripTwice DEF Stripped
<1>3. Stripped(r.new) = {} <=> r.new = {} BY Zenon, <1>1, <1>2, RecordedFacts DEF Stripped
<1>4. StrippedRel(r).cur = Stripped(r.cur) /\ StrippedRel(r).new = Stripped(r.new)
  BY DEF StrippedRel
<1>5. r = NoRelease => StrippedRel(r) = NoRelease
  BY <1>2 DEF StrippedRel, NoRelease
<1> QED BY Zenon, <1>2, <1>3, <1>4, <1>5, NamesGrow, ReleaseType

\* The records are stripped, and nothing else of p changes that the invariant names.
LEMMA StripKeeps ==
  ASSUME NEW p \in Pkgs, rel \in [Pkgs -> Releases], Kept(p), There(p),
         rel' = [rel EXCEPT ![p] = StrippedRel(@)],
         crs' = crs, objs' = objs, orphans' = orphans, lost' = lost, world' = world,
         parent' = parent
  PROVE  Kept(p)' /\ There(p)'
<1>1. rel'[p] = StrippedRel(rel[p]) /\ rel[p] \in Releases BY Zenon
<1>2. /\ Names(rel'[p].cur) \subseteq Names(rel[p].cur) /\ (rel'[p].new = {} <=> rel[p].new = {})
      /\ rel[p] = NoRelease => rel'[p] = NoRelease
  BY Zenon, <1>1, StripFacts
<1>3. Kept(p)' BY <1>2 DEF Kept, Unheld
<1>4. There(p)' BY Zenon, <1>2 DEF There, Unknown, Unheld, IsMultiClusterHubOwned
<1> QED BY <1>3, <1>4

\* The CRDs of the status and of the records are stripped; the status that is
\* written claims less than the one that was there.
LEMMA NewManagerStep ==
  ASSUME TypeOK, HelmInv, NEW p, p = ctl.p, NewManager, UNCHANGED world
  PROVE  HelmInv' /\ LifeStep
<1> DEFINE status == Stripped(ctl.cr.dep)
<1>0. ctl.pc = "manager" BY Zenon DEF NewManager
<1>1. /\ p \in Pkgs /\ Kept(p) /\ There(p) /\ CopyOf(p) /\ ctl \in Reconciles
      /\ ctl.cr \in HelmReleases /\ crs \in [Pkgs -> HelmReleases] /\ crs[p] \in HelmReleases
      /\ rel \in [Pkgs -> Releases]
  BY Zenon, <1>0, Reconciled
<1>2. objs' = objs /\ orphans' = orphans /\ lost' = lost /\ parent' = parent /\ world' = world
  BY Zenon DEF NewManager
<1>3. CASE /\ Requeue /\ crs' = crs
           /\ rel' = rel \/ rel' = [rel EXCEPT ![p] = StrippedRel(@)]
  <2>1. Kept(p)' /\ There(p)'
    <3>1. CASE rel' = rel BY Zenon, <1>1, <1>2, <1>3, <3>1, KeptFrame DEF Unheld, Unknown
    <3>2. CASE rel' = [rel EXCEPT ![p] = StrippedRel(@)] BY ZenonT(60), <1>1, <1>2, <1>3, <3>2, StripKeeps
    <3> QED BY Zenon, <1>3, <3>1, <3>2
  <2>2. ctl' = Idle BY Zenon, <1>3 DEF Requeue
  <2>3. Frame(p) BY Zenon, <1>1, <1>2, <1>3 DEF Frame, Unheld, Unknown
  <2>4. LifeStep BY <1>2, <1>3, StepNone
  <2>5. PkgInv(p)' BY ZenonT(60), <2>1, <2>2, EndsWell
  <2> QED BY Zenon, <1>1, <2>2, <2>3, <2>4, <2>5, OnePackage DEF Idle
<1>4. ASSUME crs[p].st # "none", rel' = [rel EXCEPT ![p] = StrippedRel(@)],
             ~(status # ctl.cr.dep /\ ctl.fresh = "no"),
             crs' = IF status # ctl.cr.dep THEN [crs EXCEPT ![p].dep = status] ELSE crs,
             ctl' = [ctl EXCEPT !.pc = IF ctl.cr.st = "leaving" THEN "uninstall" ELSE "sync",
                       !.cr.dep = status,
                       !.chart = IF crs[p].st = "leaving" THEN "no" ELSE "yes",
                       !.owner = "live"]
      PROVE  HelmInv' /\ LifeStep
  <2>1. /\ ctl'.pc = (IF ctl.cr.st = "leaving" THEN "uninstall" ELSE "sync")
        /\ ctl'.p = p /\ ctl'.fresh = ctl.fresh /\ ctl'.owner = "live"
        /\ ctl'.cr.st = ctl.cr.st /\ ctl'.cr.dep = status
    <3> HIDE DEF status
    <3> QED BY <1>1, <1>4 DEF Reconciles, HelmReleases
  <2>2. /\ rel'[p] = StrippedRel(rel[p]) /\ Names(rel'[p].cur) \subseteq Names(rel[p].cur)
        /\ (rel'[p].new = {} <=> rel[p].new = {})
        /\ rel[p] = NoRelease => rel'[p] = NoRelease
    BY Zenon, <1>1, <1>4, StripFacts
  <2>3. /\ IsMultiClusterHubOwned => StripCRDs(status) = status
        /\ status # ctl.cr.dep => IsMultiClusterHubOwned
        /\ Names(status) \subseteq Names(ctl.cr.dep)
    <3>1. status \subseteq ctl.cr.dep BY StripTwice DEF Stripped
    <3> QED BY <3>1, StripTwice, NamesGrow DEF Stripped
  <2>4. IsMultiClusterHubOwned' <=> IsMultiClusterHubOwned BY <1>2 DEF IsMultiClusterHubOwned
  <2>5. crs'[p].st = crs[p].st /\ crs'[p].dep = (IF status # ctl.cr.dep THEN status ELSE crs[p].dep)
    <3> HIDE DEF status
    <3> QED BY Zenon, <1>1, <1>4 DEF HelmReleases
  <2>6. status # ctl.cr.dep => crs[p].dep = ctl.cr.dep
    <3>1. ctl.fresh \in Flags BY <1>1 DEF Reconciles
    <3> QED BY <1>1, <1>4, <3>1 DEF CopyOf, Flags
  <2>7. Frame(p) BY Zenon, <1>1, <1>2, <1>4 DEF Frame, Unheld, Unknown
  <2>8. Unheld(p)' = Unheld(p) /\ Unknown(p)' = Unknown(p) BY Zenon, <1>2 DEF Unheld, Unknown
  <2> HIDE DEF status
  <2>9. Names(crs'[p].dep) \subseteq Names(crs[p].dep) BY <2>3, <2>5, <2>6
  <2>10. Kept(p)' BY Zenon, <1>1, <1>2, <2>2, <2>5, <2>8, <2>9 DEF Kept
  <2>11. There(p)' BY Zenon, <1>1, <1>2, <2>2, <2>3, <2>4, <2>5, <2>8 DEF There
  <2>12. CopyOf(p)'
    BY ZenonT(60), <1>1, <1>2, <2>1, <2>3, <2>4, <2>5, <2>6, <2>8
    DEF CopyOf, Uninstalling, Installing, Upgrading
  <2>13. ProgressOf(p)' BY <2>1 DEF ProgressOf
  <2>14. PkgInv(p)' BY <2>10, <2>11, <2>12, <2>13 DEF PkgInv
  <2>15. LifeStep
    <3>1. Elsewhere(p) BY <2>7 DEF Elsewhere, Frame
    <3>2. CASE status = ctl.cr.dep BY Zenon, <1>2, <1>4, <3>2, StepNone
    <3>3. CASE status # ctl.cr.dep
      <4>1. StripCRDs(crs[p].dep) # crs[p].dep
        BY Zenon, <2>3, <2>6, <3>3 DEF status, Stripped
      <4>2. Unknown(p) \/ Names(crs[p].dep) \subseteq Names(objs[p])
        BY Zenon, <1>1, <2>3, <3>3, <4>1 DEF There
      <4>3. Unknown(p) \/ Names(crs'[p].dep) \subseteq Names(objs'[p]) BY <1>2, <2>9, <4>2
      <4> QED BY Zenon, <1>1, <1>2, <1>4, <2>5, <3>1, <4>3, StepClaim DEF Unknown, Unheld
    <3> QED BY Zenon, <3>2, <3>3
  <2> QED BY Zenon, <1>1, <2>1, <2>7, <2>14, <2>15, OnePackage
<1> QED BY <1>3, <1>4 DEF NewManager

\* The unfinished record is deleted: what is deployed is there, or an upgrade is
\* given up; and the finalizer goes on if the copy is fresh.
LEMMA SyncStep ==
  ASSUME TypeOK, HelmInv, NEW p, p = ctl.p, Sync, UNCHANGED world
  PROVE  HelmInv' /\ LifeStep
<1>0. ctl.pc = "sync" BY DEF Sync
<1>1. /\ p \in Pkgs /\ Kept(p) /\ There(p) /\ CopyOf(p) /\ ctl \in Reconciles
      /\ ctl.cr \in HelmReleases /\ crs \in [Pkgs -> HelmReleases] /\ crs[p] \in HelmReleases
      /\ rel \in [Pkgs -> Releases] /\ rel[p] \in Releases
  BY Zenon, <1>0, Reconciled
<1>2. /\ objs' = objs /\ orphans' = orphans /\ parent' = parent /\ world' = world
      /\ rel' = [rel EXCEPT ![p] = Deployed(@)]
      /\ lost' = IF rel[p].new # {} /\ world.watch = "no"
                      /\ ~(Names(rel[p].cur) \subseteq Names(objs[p]))
                 THEN lost \cup {<<p, "upgrade">>} ELSE lost
  BY Zenon DEF Sync
<1>3. /\ rel'[p].cur = rel[p].cur /\ rel'[p].new = {}
      /\ rel[p] = NoRelease => rel'[p] = NoRelease
      /\ \A q \in Pkgs \ {p} : rel'[q] = rel[q]
  <2>1. rel'[p] = [cur |-> rel[p].cur, new |-> {}] BY ZenonT(60), <1>1, <1>2 DEF Deployed, Releases
  <2> QED BY <1>1, <1>2, <2>1 DEF NoRelease
<1>4. /\ \A q \in Pkgs : Unheld(q)' = Unheld(q)
      /\ \A q \in Pkgs \ {p} : Unknown(q)' = Unknown(q)
      /\ Unknown(p) => Unknown(p)'
      /\ ~Unknown(p)' => lost' = lost
      /\ lost' \in {lost, lost \cup {<<p, "upgrade">>}}
  BY <1>2 DEF Unheld, Unknown
<1>5. \/ Requeue /\ crs' = crs
      \/ /\ ~(ctl.cr.st = "open" /\ ctl.fresh = "no")
         /\ crs' = IF ctl.cr.st = "open" THEN [crs EXCEPT ![p].st = "held"] ELSE crs
         /\ ctl' = [ctl EXCEPT !.pc = IF rel[p].cur = {} THEN "install"
                                      ELSE IF rel[p].cur # Candidate THEN "upgrade" ELSE "ensure",
                               !.cr.st = "held"]
  BY DEF Sync
<1>6. ctl.fresh \in Flags /\ ctl.cr.st \in {"open", "held"}
  <2>1. ctl.cr.st \in Phases /\ ctl.cr.st # "none" /\ ctl.cr.st # "leaving"
    BY Zenon, <1>0, <1>1 DEF TypeOK, HelmReleases, CopyOf
  <2> QED BY <1>1, <2>1 DEF Reconciles, Phases
<1>7. /\ crs'[p].dep = crs[p].dep /\ \A q \in Pkgs \ {p} : crs'[q] = crs[q]
      /\ crs' = crs \/ (crs[p].st = "open" /\ crs'[p].st = "held")
  BY <1>1, <1>5, <1>6 DEF CopyOf, Flags, HelmReleases
<1>8. Frame(p) BY Zenon, <1>2, <1>3, <1>4, <1>7 DEF Frame
<1>9. Kept(p)' BY Zenon, <1>1, <1>2, <1>3, <1>4, <1>7 DEF Kept
<1>10. There(p)'
  <2>1. ~Unknown(p)' /\ world.watch = "no" => Names(rel[p].cur) \subseteq Names(objs[p])
    BY Zenon, <1>1, <1>2, <1>4 DEF There, Unknown
  <2> QED BY Zenon, <1>1, <1>2, <1>3, <1>4, <1>7, <2>1 DEF There, IsMultiClusterHubOwned
<1>11. LifeStep
  <2>1. Elsewhere(p) BY Zenon, <1>2, <1>7 DEF Elsewhere
  <2>2. CASE crs' = crs BY Zenon, <1>1, <1>2, <1>4, <2>2, StepNone, StepGiveUp
  <2>3. CASE crs[p].st = "open" /\ crs'[p].st = "held"
    BY ZenonT(60), <1>1, <1>2, <1>4, <1>7, <2>1, <2>3, StepHold
  <2> QED BY <1>7, <2>2, <2>3
<1>12. CASE Requeue
  <2>1. ctl' = Idle BY <1>12 DEF Requeue
  <2>2. PkgInv(p)' BY ZenonT(60), <1>9, <1>10, <2>1, EndsWell
  <2> QED BY Zenon, <1>1, <1>8, <1>11, <2>1, <2>2, OnePackage DEF Idle
<1>13. CASE /\ ~(ctl.cr.st = "open" /\ ctl.fresh = "no")
            /\ crs' = IF ctl.cr.st = "open" THEN [crs EXCEPT ![p].st = "held"] ELSE crs
            /\ ctl' = [ctl EXCEPT !.pc = IF rel[p].cur = {} THEN "install"
                                         ELSE IF rel[p].cur # Candidate THEN "upgrade" ELSE "ensure",
                                  !.cr.st = "held"]
  <2>1. /\ ctl'.pc \in {"install", "upgrade", "ensure"} /\ ctl'.p = p
        /\ ctl'.fresh = ctl.fresh /\ ctl'.owner = ctl.owner
        /\ ctl'.cr.st = "held" /\ ctl'.cr.dep = ctl.cr.dep
    BY <1>1, <1>13 DEF Reconciles, HelmReleases
  <2>2. crs'[p].st = (IF ctl.cr.st = "open" THEN "held" ELSE crs[p].st)
    BY Zenon, <1>1, <1>13 DEF HelmReleases
  <2>3. IsMultiClusterHubOwned' <=> IsMultiClusterHubOwned BY Zenon, <1>2 DEF IsMultiClusterHubOwned
  <2>4. CopyOf(p)'
    BY ZenonT(60), <1>0, <1>1, <1>4, <1>6, <1>7, <1>13, <2>1, <2>2, <2>3
    DEF CopyOf, Uninstalling, Installing, Upgrading, Flags
  <2>5. ProgressOf(p)' BY Zenon, <1>3, <2>1 DEF ProgressOf
  <2>6. PkgInv(p)' BY <1>9, <1>10, <2>4, <2>5 DEF PkgInv
  <2> QED BY Zenon, <1>1, <1>8, <1>11, <2>1, <2>6, OnePackage
<1> QED BY <1>5, <1>12, <1>13

\* Past the managers, the status of the HelmRelease has no CRDs to strip.
LEMMA StatusStripped ==
  ASSUME NEW p, CopyOf(p), ctl.pc # "manager", IsMultiClusterHubOwned
  PROVE  StripCRDs(crs[p].dep) = crs[p].dep
<1>1. StripCRDs({}) = {} BY DEF StripCRDs, Without
<1> QED BY <1>1 DEF CopyOf

\* The copy, when the reconcile goes on at another label.
LEMMA CopyGoes ==
  ASSUME NEW p, p = ctl.p, CopyOf(p), ctl \in Reconciles, ctl.pc # "manager",
         NEW l, l # "sync", Goto(l),
         l \in Uninstalling => ctl.pc \in Uninstalling,
         l \in Installing \cup Upgrading => ctl.pc \in Installing \cup Upgrading,
         l # "ensure",
         crs'[p] = crs[p], Unheld(p)' = Unheld(p), world' = world, parent' = parent
  PROVE  CopyOf(p)' /\ ctl'.pc = l /\ ctl'.p = p
<1>1. /\ ctl'.pc = l /\ ctl'.p = p /\ ctl'.cr = ctl.cr /\ ctl'.fresh = ctl.fresh
      /\ ctl'.owner = ctl.owner
  BY ZenonT(60) DEF Goto, Reconciles
<1>2. IsMultiClusterHubOwned' <=> IsMultiClusterHubOwned BY DEF IsMultiClusterHubOwned
<1> QED BY Zenon, <1>1, <1>2 DEF CopyOf

\* Helm applies a part of the candidate, or all of it and then removes what the
\* candidate does not have; the record of the candidate is unfinished.
LEMMA HelmApplies ==
  ASSUME TypeOK, HelmInv, NEW p, p = ctl.p, ctl.pc \in {"install", "upgrade"},
         world' = world, parent' = parent, crs' = crs,
         rel' = [rel EXCEPT ![p].new = Candidate],
         NEW m, m \subseteq Candidate, orphans' = Owned(p, m),
         NEW gone, gone \cap Names(Candidate) = {},
         objs' = [objs EXCEPT ![p] = Without(Apply(@, m), gone)],
         NEW l, Goto(l),
         \/ m = Candidate /\ l \in {"installed", "upgraded"} /\ lost' = Whole(p)
         \/ gone = {} /\ l \in {"installfailed", "upgradefailed"} /\ lost' = lost
  PROVE  HelmInv' /\ LifeStep
<1>1. /\ p \in Pkgs /\ Kept(p) /\ There(p) /\ CopyOf(p) /\ ctl \in Reconciles
      /\ ctl.cr.v \in Versions /\ rel \in [Pkgs -> Releases] /\ rel[p] \in Releases
      /\ objs \in [Pkgs -> SUBSET Rendering] /\ orphans \in [Pkgs -> SUBSET Ownable(Objects)]
  BY Reconciled
<1>2. Candidate \in Manifests /\ Candidate \subseteq Rendering /\ Candidate # {}
  BY <1>1, ManifestFacts DEF Candidate
<1>3. /\ rel'[p].cur = rel[p].cur /\ rel'[p].new = Candidate
      /\ \A q \in Pkgs \ {p} : rel'[q] = rel[q]
  BY <1>1 DEF Releases
<1>4. /\ objs'[p] = Without(Apply(objs[p], m), gone)
      /\ \A q \in Pkgs \ {p} : objs'[q] = objs[q]
  BY <1>1
<1>5. /\ Names(objs'[p]) = (Names(objs[p]) \cup Names(m)) \ gone
      /\ objs'[p] \subseteq objs[p] \cup m
      /\ m = Candidate => Candidate \subseteq objs'[p]
  <2>1. m = Candidate => Candidate \subseteq objs'[p]
    BY <1>4, NamesApply DEF Without, Names
  <2> QED BY <1>4, <2>1, NamesApply, NamesWithout
<1>6. /\ \A q \in Pkgs : Unheld(q)' = Unheld(q)
      /\ \A q \in Pkgs \ {p} : Unknown(q)' = Unknown(q)
      /\ Unknown(p)' => Unknown(p)
  BY DEF Unheld, Unknown, Whole
<1>7. /\ \A q \in Pkgs \ {p} : orphans'[q] = orphans[q]
      /\ Unheld(p) \/ orphans'[p] = orphans[p] \ Names(m)
  <2>1. ctl.cr.st = "held" BY <1>1 DEF CopyOf, Installing, Upgrading
  <2>2. ctl.owner = "gone" => Unheld(p) BY Zenon, <1>1, <2>1 DEF CopyOf
  <2> QED BY <1>1, <2>2 DEF Owned
<1>8. Frame(p) BY Zenon, <1>3, <1>4, <1>6, <1>7 DEF Frame
<1>9. Unheld(p) \/ crs[p].st \in {"held", "leaving"}
  BY Zenon, <1>1 DEF CopyOf, Installing, Upgrading
<1>10. Kept(p)' BY Zenon, <1>1, <1>3, <1>6, <1>7, <1>9 DEF Kept
<1>11. There(p)'
  <2>1. IsMultiClusterHubOwned' <=> IsMultiClusterHubOwned BY DEF IsMultiClusterHubOwned
  <2>2. IsMultiClusterHubOwned' => StripCRDs(crs'[p].dep) = crs'[p].dep
    BY <1>1, <2>1, StatusStripped
  <2> QED BY <1>2, <1>3, <2>2 DEF There
<1>12. CopyOf(p)' /\ ctl'.pc = l /\ ctl'.p = p
  <2>1. l \in Installing \cup Upgrading /\ l \notin Uninstalling /\ l # "sync" /\ l # "ensure"
    BY DEF Installing, Upgrading, Uninstalling
  <2>2. ctl.pc \in Installing \cup Upgrading BY DEF Installing, Upgrading
  <2> QED BY Zenon, <1>1, <1>6, <2>1, <2>2, CopyGoes
<1>13. ProgressOf(p)'
  <2>1. l \in {"installed", "upgraded"} =>
          Unheld(p) \/ /\ Names(Candidate) \subseteq Names(objs'[p])
                       /\ Names(Candidate) \cap orphans'[p] = {}
    BY <1>5, <1>7
  <2>2. CASE l \in {"installed", "upgraded"}
    BY Zenon, <1>1, <1>3, <1>6, <1>12, <2>1, <2>2 DEF ProgressOf
  <2>3. CASE l \in {"installfailed", "upgradefailed"}
    BY <1>12, <2>3 DEF ProgressOf
  <2> QED BY <2>2, <2>3
<1>14. PkgInv(p)' BY Zenon, <1>10, <1>11, <1>12, <1>13 DEF PkgInv
<1>15. LifeStep
  <2>1. Elsewhere(p) BY <1>4 DEF Elsewhere
  <2>2. objs'[p] \subseteq objs[p] \cup Rendering BY <1>2, <1>5
  <2>3. CASE m = Candidate /\ lost' = Whole(p)
    <3>1. Names(m) \cap (Names(objs[p]) \ Names(objs'[p])) = {} BY <1>5, <2>3
    <3>2. \E n \in Manifests : n \subseteq objs'[p]
                /\ Names(n) \cap (Names(objs[p]) \ Names(objs'[p])) = {}
      BY Zenon, <1>2, <1>5, <2>3, <3>1
    <3> QED BY Zenon, <1>1, <2>1, <2>2, <2>3, <3>2, StepDeploy DEF Whole
  <2>4. CASE gone = {} /\ lost' = lost
    <3>1. Names(objs[p]) \subseteq Names(objs'[p]) BY Zenon, <1>5, <2>4
    <3> QED BY Zenon, <1>1, <2>1, <2>2, <2>4, <3>1, StepDeploy
  <2> QED BY <2>3, <2>4
<1> QED BY Zenon, <1>1, <1>8, <1>12, <1>14, <1>15, OnePackage

\* Nothing but the reconcile ends.
LEMMA GivesUp ==
  ASSUME TypeOK, HelmInv, NEW p, p = ctl.p, ctl.pc # "idle", ctl' = Idle,
         crs' = crs, rel' = rel, objs' = objs, orphans' = orphans, lost' = lost,
         world' = world, parent' = parent
  PROVE  HelmInv' /\ LifeStep
<1>1. p \in Pkgs /\ Kept(p) /\ There(p) BY Zenon, Reconciled
<1>2. Unheld(p)' = Unheld(p) /\ Unknown(p)' = Unknown(p) BY Zenon DEF Unheld, Unknown
<1>3. Kept(p)' /\ There(p)' BY Zenon, <1>1, <1>2, KeptFrame
<1>4. Frame(p) BY DEF Frame, Unheld, Unknown
<1>5. PkgInv(p)' BY <1>3, EndsWell
<1>6. LifeStep BY StepNone
<1> QED BY <1>1, <1>4, <1>5, <1>6, OnePackage DEF Idle

\* The candidate is installed, or a part of it.
LEMMA InstallReleaseStep ==
  ASSUME TypeOK, HelmInv, NEW p, p = ctl.p, InstallRelease, UNCHANGED world
  PROVE  HelmInv' /\ LifeStep
<1>1. ctl.pc = "install" /\ crs' = crs /\ parent' = parent /\ world' = world
  BY DEF InstallRelease
<1>2. CASE Requeue /\ rel' = rel /\ objs' = objs /\ orphans' = orphans /\ lost' = lost
  BY <1>1, <1>2, GivesUp DEF Requeue
<1>3. ASSUME rel' = [rel EXCEPT ![p].new = Candidate], NEW m \in SUBSET Candidate,
             objs' = [objs EXCEPT ![p] = Apply(@, m)], orphans' = Owned(p, m),
             \/ m = Candidate /\ Goto("installed") /\ lost' = Whole(p)
             \/ Goto("installfailed") /\ lost' = lost
      PROVE  HelmInv' /\ LifeStep
  <2>1. \A O : Without(O, {}) = O BY DEF Without
  <2>2. objs' = [objs EXCEPT ![p] = Without(Apply(@, m), {})] BY Zenon, <1>3, <2>1
  <2>3. {} \cap Names(Candidate) = {} OBVIOUS
  <2>4. CASE m = Candidate /\ Goto("installed") /\ lost' = Whole(p)
    BY Zenon, <1>1, <1>3, <2>2, <2>3, <2>4, HelmApplies
  <2>5. CASE Goto("installfailed") /\ lost' = lost
    BY ZenonT(60), <1>1, <1>3, <2>2, <2>3, <2>5, HelmApplies
  <2> QED BY <1>3, <2>4, <2>5
<1> QED BY <1>2, <1>3 DEF InstallRelease

\* The candidate takes the place of what is deployed, or a part of it does.
LEMMA UpgradeReleaseStep ==
  ASSUME TypeOK, HelmInv, NEW p, p = ctl.p, UpgradeRelease, UNCHANGED world
  PROVE  HelmInv' /\ LifeStep
<1> DEFINE gone == (Names(rel[p].cur) \ Names(Candidate)) \ Keep
<1>1. /\ ctl.pc = "upgrade" /\ crs' = crs /\ parent' = parent /\ world' = world
      /\ rel' = [rel EXCEPT ![p].new = Candidate]
  BY DEF UpgradeRelease
<1>2. gone \cap Names(Candidate) = {} OBVIOUS
<1> HIDE DEF gone
<1>3. ASSUME NEW m \in SUBSET Candidate, orphans' = Owned(p, m), m = Candidate,
             objs' = [objs EXCEPT ![p] = Without(Apply(@, m), gone)],
             Goto("upgraded"), lost' = Whole(p)
      PROVE  HelmInv' /\ LifeStep
  BY Zenon, <1>1, <1>2, <1>3, HelmApplies
<1>4. ASSUME NEW m \in SUBSET Candidate, orphans' = Owned(p, m),
             objs' = [objs EXCEPT ![p] = Apply(@, m)],
             Goto("upgradefailed"), lost' = lost
      PROVE  HelmInv' /\ LifeStep
  <2>1. \A O : Without(O, {}) = O BY DEF Without
  <2>2. objs' = [objs EXCEPT ![p] = Without(Apply(@, m), {})] BY Zenon, <1>4, <2>1
  <2> QED BY <1>1, <1>4, <2>2, HelmApplies, ZenonT(60)
<1> QED BY Zenon, <1>3, <1>4 DEF UpgradeRelease, gone

\* What a failed first install left is removed; nothing of it was claimed.
LEMMA InstallFailedStep ==
  ASSUME TypeOK, HelmInv, NEW p, p = ctl.p, InstallFailed, UNCHANGED world
  PROVE  HelmInv' /\ LifeStep
<1> DEFINE failed == StrippedRel(rel[p]).new
<1>1. /\ ctl.pc = "installfailed" /\ crs' = crs /\ orphans' = orphans /\ parent' = parent
      /\ lost' = lost /\ world' = world /\ ctl' = Idle
  BY DEF InstallFailed, Requeue
<1>2. /\ p \in Pkgs /\ Kept(p) /\ There(p) /\ CopyOf(p)
      /\ rel \in [Pkgs -> Releases] /\ rel[p] \in Releases
      /\ objs \in [Pkgs -> SUBSET Rendering]
  BY Zenon, <1>1, Reconciled
<1>3. CASE rel' = rel /\ objs' = objs BY Zenon, <1>1, <1>3, GivesUp
<1>4. ASSUME ctl.cr.dep = {}, NEW ns, ns \subseteq Names(failed),
             objs' = [objs EXCEPT ![p] = Without(@, ns)],
             NEW r \in {NoRelease, StrippedRel(rel[p])}, rel' = [rel EXCEPT ![p] = r]
      PROVE  HelmInv' /\ LifeStep
  <2>1. crs[p].dep = {} BY Zenon, <1>2, <1>4 DEF CopyOf
  <2>2. /\ rel'[p] = r /\ \A q \in Pkgs \ {p} : rel'[q] = rel[q]
        /\ objs'[p] = Without(objs[p], ns) /\ \A q \in Pkgs \ {p} : objs'[q] = objs[q]
    BY ZenonT(60), <1>2, <1>4
  <2>3. /\ Names(r.cur) \subseteq Names(rel[p].cur)
        /\ rel[p] = NoRelease => r = NoRelease
        /\ r = NoRelease \/ (r.new = {} => rel[p].new = {} /\ ns = {})
    <3>1. CASE r = NoRelease BY Zenon, <3>1, NamesEmpty DEF NoRelease
    <3>2. CASE r = StrippedRel(rel[p]) BY Zenon, <1>2, <1>4, <3>2, StripFacts, NamesEmpty
    <3> QED BY <1>4, <3>1, <3>2
  <2>4. objs'[p] \subseteq objs[p] /\ Names(objs'[p]) = Names(objs[p]) \ ns
    <3>1. Without(objs[p], ns) \subseteq objs[p] /\ Names(Without(objs[p], ns)) = Names(objs[p]) \ ns
      BY Zenon, NamesWithout
    <3>2. objs'[p] = Without(objs[p], ns) BY ZenonT(60), <2>2
    <3> QED BY Zenon, <3>1, <3>2
  <2> HIDE DEF failed
  <2>5. \A q \in Pkgs : Unheld(q)' = Unheld(q) /\ Unknown(q)' = Unknown(q)
    BY ZenonT(60), <1>1 DEF Unheld, Unknown
  <2>6. Frame(p) BY <1>1, <2>2, <2>5 DEF Frame
  <2>7. Kept(p)' BY Zenon, <1>1, <1>2, <2>2, <2>3, <2>5 DEF Kept
  <2>8. There(p)'
    <3>1. StripCRDs({}) = {} BY Zenon DEF StripCRDs, Without
    <3>2. Names(NoRelease.cur) = {} BY Zenon, NamesEmpty DEF NoRelease
    <3> QED BY ZenonT(60), <1>1, <1>2, <2>1, <2>2, <2>3, <2>4, <2>5, <3>1, <3>2 DEF There
  <2>9. PkgInv(p)' BY <1>1, <2>7, <2>8, EndsWell
  <2>10. LifeStep
    <3>1. Elsewhere(p) BY Zenon, <1>1, <2>2 DEF Elsewhere
    <3>2. Names(objs[p]) \cap Names(crs[p].dep) \subseteq Names(objs'[p]) BY <2>1, NamesEmpty
    <3> QED BY ZenonT(60), <1>1, <1>2, <2>4, <3>1, <3>2, StepShrink
  <2> QED BY <1>1, <1>2, <2>6, <2>9, <2>10, OnePackage DEF Idle
<1>5. \/ rel' = rel /\ objs' = objs
      \/ /\ ctl.cr.dep = {}
         /\ \E ns \in SUBSET Names(failed) :
              /\ objs' = [objs EXCEPT ![p] = Without(@, ns)]
              /\ \E r \in {NoRelease, StrippedRel(rel[p])} : rel' = [rel EXCEPT ![p] = r]
  <2>1. CASE ctl.cr.dep # {} BY <2>1 DEF InstallFailed
  <2>2. CASE ctl.cr.dep = {} /\ rel' = [rel EXCEPT ![p] = NoRelease]
             /\ objs' = [objs EXCEPT ![p] = Without(@, Names(failed) \ Keep)]
    <3>1. Names(failed) \ Keep \in SUBSET Names(failed) OBVIOUS
    <3> HIDE DEF failed
    <3> QED BY Zenon, <2>2, <3>1
  <2>3. CASE /\ ctl.cr.dep = {} /\ rel' = [rel EXCEPT ![p] = StrippedRel(@)]
             /\ \E ns \in SUBSET (Names(failed) \ Keep) : objs' = [objs EXCEPT ![p] = Without(@, ns)]
    <3>1. PICK ns \in SUBSET (Names(failed) \ Keep) : objs' = [objs EXCEPT ![p] = Without(@, ns)]
      BY Zenon, <2>3
    <3>2. ns \in SUBSET Names(failed) BY Zenon, <3>1
    <3>3. rel' = [rel EXCEPT ![p] = StrippedRel(rel[p])] BY ZenonT(60), <2>3
    <3> HIDE DEF failed
    <3> QED BY Zenon, <2>3, <3>1, <3>2, <3>3
  <2> QED BY ZenonT(60), <2>1, <2>2, <2>3 DEF InstallFailed
<1> HIDE DEF failed
<1> QED BY <1>3, <1>4, <1>5

\* The status is written, or not: it claims what the record says, which is there.
LEMMA StatusStep ==
  ASSUME TypeOK, HelmInv, NEW p, p = ctl.p, ctl.pc # "idle", ctl' = Idle,
         world' = world, parent' = parent, rel' = rel, lost' = lost,
         Frame(p), objs'[p] \subseteq objs[p] \cup Rendering,
         Names(objs[p]) \subseteq Names(objs'[p]),
         Unheld(p) \/ orphans'[p] \subseteq orphans[p],
         \/ crs' = crs
         \/ /\ ctl.fresh = "yes" /\ crs' = StatusWritten(p, rel[p].cur)
            /\ Unknown(p) \/ Names(rel[p].cur) \subseteq Names(objs'[p])
  PROVE  HelmInv' /\ LifeStep
<1>1. /\ p \in Pkgs /\ Kept(p) /\ There(p) /\ CopyOf(p) /\ ctl \in Reconciles
      /\ crs \in [Pkgs -> HelmReleases] /\ crs[p] \in HelmReleases
  BY ZenonT(60), Reconciled
<1>2. Unheld(p)' = Unheld(p) /\ Unknown(p)' = Unknown(p) BY Zenon DEF Unheld, Unknown
<1>3. IsMultiClusterHubOwned' <=> IsMultiClusterHubOwned BY Zenon DEF IsMultiClusterHubOwned
<1>4. Elsewhere(p) BY DEF Elsewhere, Frame
<1>5. CASE crs' = crs
  <2>1. Kept(p)' BY Zenon, <1>1, <1>2, <1>5 DEF Kept
  <2>2. There(p)' BY Zenon, <1>1, <1>2, <1>3, <1>5 DEF There
  <2>3. PkgInv(p)' BY Zenon, <2>1, <2>2, EndsWell
  <2>4. LifeStep BY ZenonT(60), <1>1, <1>4, <1>5, StepDeploy
  <2> QED BY Zenon, <1>1, <2>3, <2>4, OnePackage DEF Idle
<1>6. CASE /\ ctl.fresh = "yes" /\ crs' = StatusWritten(p, rel[p].cur)
           /\ Unknown(p) \/ Names(rel[p].cur) \subseteq Names(objs'[p])
  <2>1. crs'[p].st = crs[p].st /\ crs'[p].dep = rel[p].cur
    BY <1>1, <1>6 DEF StatusWritten, HelmReleases
  <2>2. Kept(p)' BY Zenon, <1>1, <1>2, <2>1 DEF Kept
  <2>3. There(p)' BY Zenon, <1>1, <1>2, <1>3, <1>6, <2>1 DEF There
  <2>4. PkgInv(p)' BY Zenon, <2>2, <2>3, EndsWell
  <2>5. crs[p].st # "none" BY Zenon, <1>1, <1>6 DEF CopyOf, TypeOK
  <2>6. LifeStep BY Zenon, <1>1, <1>4, <1>6, <2>1, <2>5, StepClaim DEF Unknown, Unheld
  <2> QED BY Zenon, <1>1, <2>4, <2>6, OnePackage DEF Idle
<1> QED BY Zenon, <1>5, <1>6

\* The records of what is in place change: the old one is superseded, the new one
\* is deployed.
LEMMA RecordStep ==
  ASSUME TypeOK, HelmInv, NEW p, p = ctl.p,
         world' = world, parent' = parent, crs' = crs, objs' = objs, orphans' = orphans,
         lost' = lost,
         \/ /\ ctl.pc = "upgraded" /\ Goto("superseded")
            /\ rel' = [rel EXCEPT ![p].cur = {}]
         \/ /\ \/ ctl.pc = "installed" /\ Goto("installstatus")
               \/ ctl.pc = "superseded" /\ Goto("upgradestatus")
            /\ rel' = [rel EXCEPT ![p] = [cur |-> @.new, new |-> {}]]
  PROVE  HelmInv' /\ LifeStep
<1>1. /\ p \in Pkgs /\ Kept(p) /\ There(p) /\ CopyOf(p) /\ ProgressOf(p) /\ ctl \in Reconciles
      /\ rel \in [Pkgs -> Releases] /\ rel[p] \in Releases
  BY Reconciled
<1>2. \A q \in Pkgs : Unheld(q)' = Unheld(q) /\ Unknown(q)' = Unknown(q) BY DEF Unheld, Unknown
<1>3. Frame(p) BY <1>1, <1>2 DEF Frame
<1>4. LifeStep BY StepNone
<1>5. /\ ctl.pc \in Installing \cup Upgrading
      /\ Unheld(p) \/ crs[p].st \in {"held", "leaving"}
      /\ Unheld(p) \/ /\ Names(rel[p].new) \subseteq Names(objs[p])
                      /\ Names(rel[p].new) \cap orphans[p] = {}
  BY <1>1 DEF CopyOf, ProgressOf, Installing, Upgrading
<1>6. \/ ctl'.pc = "superseded" /\ rel'[p].cur = {} /\ rel'[p].new = rel[p].new
      \/ /\ ctl'.pc \in {"installstatus", "upgradestatus"}
         /\ rel'[p].cur = rel[p].new /\ rel'[p].new = {}
  BY <1>1 DEF Goto, Reconciles, Releases
<1>7. CopyOf(p)' /\ ctl'.p = p
  <2>1. PICK l \in {"superseded", "installstatus", "upgradestatus"} : Goto(l) OBVIOUS
  <2>2. l \in Installing \cup Upgrading /\ l \notin Uninstalling
    BY DEF Installing, Upgrading, Uninstalling
  <2> QED BY <1>1, <1>2, <1>5, <2>1, <2>2, CopyGoes DEF Installing, Upgrading
<1>8. Kept(p)' BY ZenonT(60), <1>1, <1>2, <1>5, <1>6, NamesEmpty DEF Kept
<1>9. There(p)'
  <2>1. Unheld(p) => Unknown(p) BY DEF Unknown
  <2>2. IsMultiClusterHubOwned' <=> IsMultiClusterHubOwned BY DEF IsMultiClusterHubOwned
  <2>3. Unheld(p) \/ rel'[p].new # {} \/ Names(rel'[p].cur) \subseteq Names(objs[p])
    BY Zenon, <1>5, <1>6, NamesEmpty
  <2> QED BY <1>1, <1>2, <2>1, <2>2, <2>3 DEF There
<1>10. ProgressOf(p)'
  <2>1. CASE ctl'.pc = "superseded" /\ rel'[p].cur = {} /\ rel'[p].new = rel[p].new
    BY Zenon, <1>1, <1>2, <1>5, <2>1 DEF ProgressOf
  <2>2. CASE /\ ctl'.pc \in {"installstatus", "upgradestatus"}
             /\ rel'[p].cur = rel[p].new /\ rel'[p].new = {}
    BY <1>1, <1>2, <1>5, <2>2 DEF ProgressOf
  <2> QED BY Zenon, <1>6, <2>1, <2>2
<1>11. PkgInv(p)' BY <1>7, <1>8, <1>9, <1>10 DEF PkgInv
<1> QED BY <1>1, <1>3, <1>4, <1>7, <1>11, OnePackage

\* The status is written after an install or an upgrade.
LEMMA WriteStatusStep ==
  ASSUME TypeOK, HelmInv, NEW p, p = ctl.p, ctl.pc \in {"installstatus", "upgradestatus"},
         WriteStatus(rel[p].cur), world' = world, parent' = parent, rel' = rel,
         objs' = objs, orphans' = orphans, lost' = lost
  PROVE  HelmInv' /\ LifeStep
<1>1. ctl' = Idle /\ (crs' = crs \/ (ctl.fresh = "yes" /\ crs' = StatusWritten(p, rel[p].cur)))
  BY Zenon DEF WriteStatus, Done, Requeue
<1>2. p \in Pkgs /\ ProgressOf(p) /\ crs \in [Pkgs -> HelmReleases] BY Zenon, Reconciled
<1>3. Unknown(p) \/ Names(rel[p].cur) \subseteq Names(objs'[p])
  BY Zenon, <1>2 DEF ProgressOf, Unknown
<1>4. Frame(p) BY <1>1, <1>2 DEF Frame, Unheld, Unknown, StatusWritten
<1> QED BY Zenon, <1>1, <1>3, <1>4, StatusStep

\* The new release is deployed, then the status is written.
LEMMA InstalledStep ==
  ASSUME TypeOK, HelmInv, NEW p, p = ctl.p, Installed, UNCHANGED world
  PROVE  HelmInv' /\ LifeStep
<1>1. objs' = objs /\ orphans' = orphans /\ parent' = parent /\ lost' = lost /\ world' = world
  BY DEF Installed
<1>2. CASE /\ ctl.pc = "installed" /\ rel' = [rel EXCEPT ![p] = [cur |-> @.new, new |-> {}]]
           /\ Goto("installstatus") /\ crs' = crs
  BY Zenon, <1>1, <1>2, RecordStep
<1>3. CASE ctl.pc = "installstatus" /\ WriteStatus(rel[p].cur) /\ rel' = rel
  BY Zenon, <1>1, <1>3, WriteStatusStep
<1> QED BY <1>2, <1>3 DEF Installed

\* A failed upgrade leaves the record of the candidate unfinished.
LEMMA UpgradeFailedStep ==
  ASSUME TypeOK, HelmInv, NEW p, p = ctl.p, UpgradeFailed, UNCHANGED world
  PROVE  HelmInv' /\ LifeStep
<1>1. /\ objs' = objs /\ orphans' = orphans /\ parent' = parent /\ lost' = lost
      /\ world' = world /\ crs' = crs /\ rel' = [rel EXCEPT ![p] = StrippedRel(@)]
      /\ ctl' = Idle /\ ctl.pc # "idle"
  BY DEF UpgradeFailed, Requeue
<1>2. p \in Pkgs /\ Kept(p) /\ There(p) /\ rel \in [Pkgs -> Releases] BY Zenon, <1>1, Reconciled
<1>3. Kept(p)' /\ There(p)' BY Zenon, <1>1, <1>2, StripKeeps
<1>4. PkgInv(p)' BY Zenon, <1>1, <1>3, EndsWell
<1>5. Frame(p) BY Zenon, <1>1, <1>2 DEF Frame, Unheld, Unknown
<1>6. LifeStep BY <1>1, StepNone
<1> QED BY Zenon, <1>1, <1>2, <1>4, <1>5, <1>6, OnePackage DEF Idle

\* The old release is superseded, the new one is deployed, the status is written.
LEMMA UpgradedStep ==
  ASSUME TypeOK, HelmInv, NEW p, p = ctl.p, Upgraded, UNCHANGED world
  PROVE  HelmInv' /\ LifeStep
<1>1. objs' = objs /\ orphans' = orphans /\ parent' = parent /\ lost' = lost /\ world' = world
  BY DEF Upgraded
<1>2. CASE /\ ctl.pc = "upgraded" /\ rel' = [rel EXCEPT ![p].cur = {}]
           /\ Goto("superseded") /\ crs' = crs
  BY Zenon, <1>1, <1>2, RecordStep
<1>3. CASE /\ ctl.pc = "superseded" /\ rel' = [rel EXCEPT ![p] = [cur |-> @.new, new |-> {}]]
           /\ Goto("upgradestatus") /\ crs' = crs
  BY ZenonT(60), <1>1, <1>3, RecordStep
<1>4. CASE ctl.pc = "upgradestatus" /\ WriteStatus(rel[p].cur) /\ rel' = rel
  BY <1>1, <1>4, WriteStatusStep
<1> QED BY <1>2, <1>3, <1>4 DEF Upgraded

\* What is deployed is reapplied if it is watched, and claimed.
LEMMA EnsureStep ==
  ASSUME TypeOK, HelmInv, NEW p, p = ctl.p, Ensure, UNCHANGED world
  PROVE  HelmInv' /\ LifeStep
<1>1. ctl.pc = "ensure" /\ rel' = rel /\ parent' = parent /\ lost' = lost /\ world' = world
  BY Zenon DEF Ensure
<1>2. /\ p \in Pkgs /\ Kept(p) /\ There(p) /\ CopyOf(p) /\ ProgressOf(p) /\ rel[p].cur \in Recorded
      /\ crs \in [Pkgs -> HelmReleases] /\ world \in Worlds
      /\ objs \in [Pkgs -> SUBSET Rendering] /\ orphans \in [Pkgs -> SUBSET Ownable(Objects)]
  BY Zenon, <1>1, Reconciled
<1>3. PICK m \in SUBSET rel[p].cur :
        /\ objs' = [objs EXCEPT ![p] = Apply(@, m)] /\ orphans' = Owned(p, m)
        /\ \/ Requeue /\ crs' = crs
           \/ /\ m = IF world.watch = "yes" THEN rel[p].cur ELSE {}
              /\ WriteStatus(rel[p].cur)
  BY Zenon, <1>1 DEF Ensure, EnsureStatusReasonPopulated
<1>4. m \subseteq Rendering BY Zenon, <1>2, <1>3, RecordedFacts
<1>5. /\ objs'[p] = Apply(objs[p], m) /\ \A q \in Pkgs \ {p} : objs'[q] = objs[q]
      /\ Names(objs'[p]) = Names(objs[p]) \cup Names(m)
      /\ objs'[p] \subseteq objs[p] \cup Rendering
  <2>1. objs'[p] = Apply(objs[p], m) /\ \A q \in Pkgs \ {p} : objs'[q] = objs[q] BY Zenon, <1>2, <1>3
  <2>2. Apply(objs[p], m) \subseteq objs[p] \cup m /\ Names(Apply(objs[p], m)) = Names(objs[p]) \cup Names(m)
    BY Zenon, NamesApply
  <2> QED BY Zenon, <1>4, <2>1, <2>2
<1>6. /\ \A q \in Pkgs \ {p} : orphans'[q] = orphans[q]
      /\ Unheld(p) \/ orphans'[p] \subseteq orphans[p]
  <2>1. ctl.cr.st = "held" BY Zenon, <1>1, <1>2 DEF CopyOf
  <2>2. ctl.owner = "gone" => Unheld(p) BY Zenon, <1>2, <2>1 DEF CopyOf
  <2> QED BY Zenon, <1>2, <1>3, <2>2 DEF Owned
<1>7. /\ ctl' = Idle
      /\ crs' = crs \/ /\ ctl.fresh = "yes" /\ crs' = StatusWritten(p, rel[p].cur)
                       /\ m = IF world.watch = "yes" THEN rel[p].cur ELSE {}
  BY Zenon, <1>3 DEF WriteStatus, Done, Requeue
<1>8. Frame(p) BY Zenon, <1>1, <1>2, <1>5, <1>6, <1>7 DEF Frame, Unheld, Unknown, StatusWritten
<1>9. ASSUME m = IF world.watch = "yes" THEN rel[p].cur ELSE {}
      PROVE  Unknown(p) \/ Names(rel[p].cur) \subseteq Names(objs'[p])
  <2>1. world.watch \in {"yes", "no"} BY Zenon, <1>2, ChartAssumption
  <2>2. rel[p].new = {} BY Zenon, <1>1, <1>2 DEF ProgressOf
  <2> QED BY Zenon, <1>2, <1>5, <1>9, <2>1, <2>2 DEF There
<1> QED BY Zenon, <1>1, <1>5, <1>6, <1>7, <1>8, <1>9, StatusStep

\* A HelmRelease that leaves: objects are taken away, with the record or without.
LEMMA LeavingShrinks ==
  ASSUME TypeOK, HelmInv, NEW p, p = ctl.p, ctl.pc \in {"uninstall", "check"},
         world' = world, parent' = parent, crs' = crs, orphans' = orphans, lost' = lost,
         \A q \in Pkgs \ {p} : rel'[q] = rel[q] /\ objs'[q] = objs[q],
         objs'[p] \subseteq objs[p],
         rel'[p] = NoRelease \/ (rel'[p].cur \in {rel[p].cur, {}} /\ rel'[p].new # {})
  PROVE  p \in Pkgs /\ Frame(p) /\ Kept(p)' /\ There(p)' /\ LifeStep
<1>1. p \in Pkgs /\ Kept(p) /\ There(p) /\ CopyOf(p) BY ZenonT(60), Reconciled
<1>2. \A q \in Pkgs : Unheld(q)' = Unheld(q) /\ Unknown(q)' = Unknown(q) BY Zenon DEF Unheld, Unknown
<1>3. Frame(p) BY <1>2 DEF Frame
<1>4. Unheld(p) \/ crs[p].st = "leaving" BY Zenon, <1>1 DEF CopyOf, Uninstalling
<1>5. NoRelease.cur = {} /\ NoRelease.new = {} BY Zenon DEF NoRelease
<1>6. Kept(p)' BY Zenon, <1>1, <1>2, <1>4, <1>5, NamesEmpty DEF Kept
<1>7. There(p)'
  <2>1. IsMultiClusterHubOwned' <=> IsMultiClusterHubOwned BY Zenon DEF IsMultiClusterHubOwned
  <2>2. IsMultiClusterHubOwned' => StripCRDs(crs'[p].dep) = crs'[p].dep
    BY Zenon, <1>1, <2>1, StatusStripped
  <2> QED BY Zenon, <1>5, <2>2, NamesEmpty DEF There
<1>8. Elsewhere(p) BY Zenon DEF Elsewhere
<1>9. LifeStep BY ZenonT(60), <1>1, <1>4, <1>8, StepShrink DEF Unheld
<1> QED BY Zenon, <1>1, <1>3, <1>6, <1>7, <1>9

\* Helm uninstalls the release.
LEMMA UninstallReleaseStep ==
  ASSUME TypeOK, HelmInv, NEW p, p = ctl.p, UninstallRelease, UNCHANGED world
  PROVE  HelmInv' /\ LifeStep
<1> DEFINE last == Latest(rel[p])
           leave == IF ctl.cr.dep = {} THEN "letgo" ELSE "check"
<1>1. /\ ctl.pc = "uninstall" /\ crs' = crs /\ orphans' = orphans /\ parent' = parent
      /\ lost' = lost /\ world' = world
  BY DEF UninstallRelease
<1>2. /\ p \in Pkgs /\ CopyOf(p) /\ ctl \in Reconciles
      /\ rel \in [Pkgs -> Releases] /\ rel[p] \in Releases
      /\ objs \in [Pkgs -> SUBSET Rendering]
  BY ZenonT(60), <1>1, Reconciled
<1>3. \E ns : objs' = [objs EXCEPT ![p] = Without(@, ns)] BY DEF UninstallRelease
<1>4. objs'[p] \subseteq objs[p] /\ \A q \in Pkgs \ {p} : objs'[q] = objs[q]
  BY SMTT(60), <1>2, <1>3, NamesWithout
<1>5. CASE /\ last # {} /\ Requeue
           /\ rel' = [rel EXCEPT ![p] = IF @.new # {} THEN @ ELSE [cur |-> {}, new |-> @.cur]]
  <2>1. /\ rel'[p] = IF rel[p].new # {} THEN rel[p] ELSE [cur |-> {}, new |-> rel[p].cur]
        /\ \A q \in Pkgs \ {p} : rel'[q] = rel[q]
    BY Zenon, <1>2, <1>5
  <2>2. rel'[p].cur \in {rel[p].cur, {}} /\ rel'[p].new # {} BY <1>5, <2>1 DEF Latest
  <2>3. ctl' = Idle BY <1>5 DEF Requeue
  <2>4. p \in Pkgs /\ Frame(p) /\ Kept(p)' /\ There(p)' /\ LifeStep
    BY ZenonT(60), <1>1, <1>4, <2>1, <2>2, LeavingShrinks
  <2>5. PkgInv(p)' BY <2>3, <2>4, EndsWell
  <2> QED BY Zenon, <2>3, <2>4, <2>5, OnePackage DEF Idle
<1>6. CASE rel' = [rel EXCEPT ![p] = NoRelease] /\ Goto(leave)
  <2>1. rel'[p] = NoRelease /\ \A q \in Pkgs \ {p} : rel'[q] = rel[q] BY Zenon, <1>2, <1>6
  <2>2. p \in Pkgs /\ Frame(p) /\ Kept(p)' /\ There(p)' /\ LifeStep
    BY Zenon, <1>1, <1>4, <2>1, LeavingShrinks
  <2>3. ctl.pc \in Uninstalling /\ leave \in {"letgo", "check"}
        /\ leave \notin Installing \cup Upgrading
    BY <1>1 DEF Uninstalling, Installing, Upgrading
  <2>4. Unheld(p)' = Unheld(p) BY Zenon, <1>1 DEF Unheld
  <2>5. CopyOf(p)' /\ ctl'.pc = leave /\ ctl'.p = p
    <3> HIDE DEF leave
    <3> QED BY ZenonT(60), <1>1, <1>2, <1>6, <2>3, <2>4, CopyGoes
  <2>6. ctl'.cr = ctl.cr BY Zenon, <1>2, <1>6 DEF Goto, Reconciles
  <2>7. ProgressOf(p)' BY Zenon, <2>1, <2>5, <2>6, NamesEmpty DEF ProgressOf
  <2>8. PkgInv(p)' BY Zenon, <2>2, <2>5, <2>7 DEF PkgInv
  <2> QED BY Zenon, <2>2, <2>5, <2>8, OnePackage
<1> QED BY Zenon, <1>5, <1>6 DEF UninstallRelease

\* What the status names is looked for.
LEMMA CheckRemovedStep ==
  ASSUME TypeOK, HelmInv, NEW p, p = ctl.p, CheckRemoved, UNCHANGED world
  PROVE  HelmInv' /\ LifeStep
<1> DEFINE left == FilterManifestsToKeep(Names(ctl.cr.dep)) \cap Names(objs[p])
<1>1. /\ ctl.pc = "check" /\ crs' = crs /\ rel' = rel /\ orphans' = orphans /\ parent' = parent
      /\ lost' = lost /\ world' = world
  BY DEF CheckRemoved
<1>2. /\ p \in Pkgs /\ CopyOf(p) /\ ProgressOf(p) /\ ctl \in Reconciles
      /\ objs \in [Pkgs -> SUBSET Rendering]
  BY Zenon, <1>1, Reconciled
<1>3. rel[p] = NoRelease BY Zenon, <1>1, <1>2 DEF ProgressOf
<1>4. CASE left = {} /\ Goto("letgo") /\ objs' = objs
  <2>1. p \in Pkgs /\ Frame(p) /\ Kept(p)' /\ There(p)' /\ LifeStep
    BY Zenon, <1>1, <1>3, <1>4, LeavingShrinks
  <2>2. /\ ctl.pc \in Uninstalling /\ "letgo" \notin Installing \cup Upgrading
    BY <1>1 DEF Uninstalling, Installing, Upgrading
  <2>3. Unheld(p)' = Unheld(p) BY <1>1 DEF Unheld
  <2>4. CopyOf(p)' /\ ctl'.pc = "letgo" /\ ctl'.p = p
    BY ZenonT(60), <1>1, <1>2, <1>4, <2>2, <2>3, CopyGoes
  <2>5. ctl'.cr = ctl.cr BY Zenon, <1>2, <1>4 DEF Goto, Reconciles
  <2>6. Names(ctl.cr.dep) \cap Names(objs[p]) \subseteq Keep
    BY <1>4 DEF FilterManifestsToKeep
  <2>7. ProgressOf(p)' BY ZenonT(60), <1>1, <1>3, <1>4, <2>4, <2>5, <2>6 DEF ProgressOf
  <2>8. PkgInv(p)' BY Zenon, <2>1, <2>4, <2>7 DEF PkgInv
  <2> QED BY ZenonT(60), <2>1, <2>4, <2>8, OnePackage
<1>5. CASE objs' = [objs EXCEPT ![p] = Without(@, left)] /\ Requeue
  <2> HIDE DEF left
  <2>1. objs'[p] \subseteq objs[p] /\ \A q \in Pkgs \ {p} : objs'[q] = objs[q]
    BY Zenon, <1>2, <1>5, NamesWithout
  <2>2. p \in Pkgs /\ Frame(p) /\ Kept(p)' /\ There(p)' /\ LifeStep
    BY Zenon, <1>1, <1>3, <2>1, LeavingShrinks
  <2>3. ctl' = Idle BY <1>5 DEF Requeue
  <2>4. PkgInv(p)' BY Zenon, <2>2, <2>3, EndsWell
  <2> QED BY Zenon, <2>2, <2>3, <2>4, OnePackage DEF Idle
<1> QED BY Zenon, <1>4, <1>5 DEF CheckRemoved

\* The HelmRelease is let go: nothing of what its status names is left.
LEMMA RemoveFinalizerStep ==
  ASSUME TypeOK, HelmInv, NEW p, p = ctl.p, RemoveFinalizer, UNCHANGED world
  PROVE  HelmInv' /\ LifeStep
<1>1. /\ ctl.pc = "letgo" /\ rel' = rel /\ objs' = objs /\ parent' = parent
      /\ lost' = lost /\ world' = world /\ ctl' = Idle
  BY DEF RemoveFinalizer, Requeue
<1>2. /\ p \in Pkgs /\ CopyOf(p) /\ ProgressOf(p) /\ ctl \in Reconciles
      /\ crs \in [Pkgs -> HelmReleases] /\ orphans \in [Pkgs -> SUBSET Ownable(Objects)]
  BY Zenon, <1>1, Reconciled
<1>3. CASE crs' = crs /\ orphans' = orphans BY Zenon, <1>1, <1>3, GivesUp
<1>4. CASE /\ ctl.fresh # "no" /\ crs' = [crs EXCEPT ![p] = NoCR]
           /\ orphans' = [orphans EXCEPT ![p] = Ownable(Names(objs[p]))]
  <2>1. /\ crs'[p].st = "none" /\ crs'[p].dep = {} /\ rel'[p] = NoRelease
        /\ NoRelease.cur = {} /\ NoRelease.new = {}
    BY Zenon, <1>1, <1>2, <1>4 DEF NoCR, NoRelease, ProgressOf
  <2>2. Frame(p) BY Zenon, <1>1, <1>2, <1>4 DEF Frame, Unheld, Unknown
  <2>3. Kept(p)' BY ZenonT(60), <2>1, NamesEmpty DEF Kept
  <2>4. There(p)'
    <3>1. StripCRDs({}) = {} BY DEF StripCRDs, Without
    <3> QED BY Zenon, <2>1, <3>1, NamesEmpty DEF There
  <2>5. PkgInv(p)' BY Zenon, <1>1, <2>3, <2>4, EndsWell
  <2>6. ctl.fresh = "yes" BY <1>2, <1>4 DEF Reconciles, Flags
  <2>7. crs[p].st = "leaving" /\ Names(crs[p].dep) \cap Names(objs[p]) \subseteq Keep
    BY Zenon, <1>1, <1>2, <2>6 DEF CopyOf, ProgressOf, Uninstalling
  <2>8. Elsewhere(p) BY <2>2 DEF Elsewhere, Frame
  <2>9. LifeStep BY Zenon, <1>1, <1>2, <2>1, <2>7, <2>8, StepDrop
  <2> QED BY Zenon, <1>1, <1>2, <2>2, <2>5, <2>9, OnePackage DEF Idle
<1> QED BY Zenon, <1>3, <1>4 DEF RemoveFinalizer

\* The garbage collector takes what has no owner, which nobody claims.
LEMMA CollectStep ==
  ASSUME TypeOK, HelmInv, NEW p \in Pkgs, Collect(p), UNCHANGED world
  PROVE  HelmInv' /\ LifeStep
<1>1. /\ crs' = crs /\ rel' = rel /\ ctl' = ctl /\ parent' = parent /\ lost' = lost
      /\ world' = world
  BY DEF Collect
<1>2. /\ objs'[p] = Without(objs[p], orphans[p]) /\ orphans'[p] = {}
      /\ \A q \in Pkgs \ {p} : objs'[q] = objs[q] /\ orphans'[q] = orphans[q]
  BY Zenon DEF Collect, TypeOK
<1>3. Names(objs'[p]) = Names(objs[p]) \ orphans[p] /\ objs'[p] \subseteq objs[p]
  <2>1. Without(objs[p], orphans[p]) \subseteq objs[p]
        /\ Names(Without(objs[p], orphans[p])) = Names(objs[p]) \ orphans[p]
    BY Zenon, NamesWithout
  <2>2. objs'[p] = Without(objs[p], orphans[p]) BY Zenon, <1>2
  <2> QED BY Zenon, <2>1, <2>2
<1>4. \A q \in Pkgs : Unheld(q)' = Unheld(q) /\ Unknown(q)' = Unknown(q)
  BY ZenonT(60), <1>1 DEF Unheld, Unknown
<1>5. PkgInv(p) BY DEF HelmInv
<1>6. Unheld(p) \/ /\ orphans[p] \cap Names(crs[p].dep) = {}
                   /\ orphans[p] \cap Names(rel[p].cur) = {}
  BY <1>5 DEF PkgInv, Kept
<1>7. LifeStep
  <2>1. Elsewhere(p) BY <1>1, <1>2 DEF Elsewhere
  <2> QED BY ZenonT(60), <1>1, <1>3, <1>6, <2>1, StepShrink DEF Unheld
<1>8. Kept(p)' BY ZenonT(60), <1>1, <1>2, <1>4, <1>5 DEF PkgInv, Kept
<1>9. IsMultiClusterHubOwned' <=> IsMultiClusterHubOwned BY <1>1 DEF IsMultiClusterHubOwned
<1>10. There(p)' BY ZenonT(60), <1>1, <1>3, <1>4, <1>5, <1>6, <1>9 DEF PkgInv, There, Unknown
<1>11. ASSUME At(p)' PROVE CopyOf(p)' /\ ProgressOf(p)'
  <2>1. CopyOf(p) /\ ProgressOf(p) BY <1>1, <1>5, <1>11 DEF PkgInv, At
  <2>2. CopyOf(p)' BY Zenon, <1>1, <1>4, <1>9, <2>1 DEF CopyOf
  <2>3. ProgressOf(p)' BY ZenonT(60), <1>1, <1>2, <1>3, <1>4, <1>6, <2>1 DEF ProgressOf
  <2> QED BY <2>2, <2>3
<1>12. PkgInv(p)' BY <1>8, <1>10, <1>11 DEF PkgInv
<1>13. ASSUME NEW q \in Pkgs, q # p PROVE PkgInv(q)'
  <2>1. PkgInv(q) BY DEF HelmInv
  <2>2. ~At(q)' \/ (At(q) /\ ctl' = ctl) BY Zenon, <1>1 DEF At
  <2> QED BY ZenonT(60), <1>1, <1>2, <1>4, <1>13, <2>1, <2>2, OtherPackage
<1> QED BY Zenon, <1>7, <1>12, <1>13 DEF HelmInv

----------------------------------------------------------------------------
(* The writes of the others.                                                 *)

\* What another writer than the controller may do to a HelmRelease.
Rewritten(q, cr) ==
  \/ /\ cr.dep = crs[q].dep
     /\ \/ cr.st = crs[q].st
        \/ crs[q].st = "held" /\ cr.st = "leaving"
        \/ crs[q].st \in {"none", "open"} /\ cr.st \in {"open", "held"}
  \/ cr.dep = {} /\ cr.st = "none" /\ crs[q].st = "open"
  \/ /\ Unheld(q)'
     /\ \/ crs[q].st = "held" /\ cr.st = "open" /\ cr.dep = crs[q].dep
        \/ crs[q].st = "leaving" /\ cr.st = "none" /\ cr.dep = {}

\* A write by another than the controller leaves the copy of the reconcile stale,
\* and what it knew true as far as the finalizer is respected.
LEMMA WriteStep ==
  ASSUME TypeOK, HelmInv, NEW new, Write(new), \A q \in Pkgs : Rewritten(q, new[q]),
         rel' = rel, objs' = objs, world' = world, parent' = parent,
         \A q \in Pkgs : (Unheld(q) => Unheld(q)') /\ (Unknown(q) => Unknown(q)')
  PROVE  HelmInv'
<1> SUFFICES ASSUME NEW q \in Pkgs PROVE PkgInv(q)' BY DEF HelmInv
<1>1. PkgInv(q) /\ Rewritten(q, new[q]) BY DEF HelmInv
<1>2. /\ crs'[q] = new[q]
      /\ orphans'[q] = IF crs[q].st # "none" /\ new[q].st = "none"
                       THEN Ownable(Names(objs[q])) ELSE orphans[q]
  BY DEF Write
<1>3. (Unheld(q) => Unheld(q)') /\ (Unknown(q) => Unknown(q)') OBVIOUS
<1>4. ~Unheld(q)' =>
        /\ crs'[q].st \in {"none", "open"} => crs[q].st \in {"none", "open"}
        /\ crs[q].st \in {"held", "leaving"} =>
             crs'[q].st \in {"held", "leaving"} /\ orphans'[q] = orphans[q]
        /\ crs[q].st = "leaving" => crs'[q].st = "leaving"
        /\ orphans'[q] = orphans[q]
             \/ (crs[q].st = "open" /\ crs'[q].st = "none" /\ crs'[q].dep = {})
  BY Zenon, <1>1, <1>2 DEF Rewritten
<1>5. crs'[q].dep \in {crs[q].dep, {}} BY Zenon, <1>1, <1>2 DEF Rewritten
<1>6. Kept(q)'
  <2>1. NoRelease.cur = {} BY DEF NoRelease
  <2> QED BY ZenonT(60), <1>1, <1>3, <1>4, <1>5, <2>1, NamesEmpty DEF PkgInv, Kept
<1>7. IsMultiClusterHubOwned' <=> IsMultiClusterHubOwned BY DEF IsMultiClusterHubOwned
<1>8. There(q)'
  <2>1. StripCRDs({}) = {} BY DEF StripCRDs, Without
  <2> QED BY Zenon, <1>1, <1>3, <1>5, <1>7, <2>1 DEF PkgInv, There
<1>9. ASSUME At(q)' PROVE CopyOf(q)' /\ ProgressOf(q)'
  <2>1. /\ ctl'.pc = ctl.pc /\ ctl'.p = ctl.p /\ ctl'.cr = ctl.cr
        /\ ctl' = ctl \/ ctl'.fresh = "no"
        /\ ctl.pc # "idle" /\ new[ctl.p] # crs[ctl.p] => ctl'.fresh = "no"
        /\ ctl.fresh = "no" => ctl'.fresh = "no"
        /\ ctl'.owner = "gone" => \/ ctl.owner = "gone"
                                  \/ /\ ctl.pc # "idle" /\ ctl'.fresh = "no"
                                     /\ crs[ctl.p].st # "none" /\ new[ctl.p].st = "none"
    <3>1. ctl \in Reconciles BY ZenonT(60) DEF TypeOK
    <3>2. CASE ctl' = ctl /\ (ctl.pc = "idle" \/ new[ctl.p] = crs[ctl.p]) BY <3>2
    <3>3. CASE /\ ctl.pc # "idle"
               /\ ctl' = [ctl EXCEPT !.fresh = "no",
                            !.owner = IF crs[ctl.p].st # "none" /\ new[ctl.p].st = "none"
                                      THEN "gone" ELSE @]
      BY ZenonT(60), <3>1, <3>3 DEF Reconciles
    <3> QED BY Zenon, <3>2, <3>3, CopyType DEF Write
  <2>2. q = ctl.p /\ ctl.pc # "idle" BY <1>9, <2>1 DEF At
  <2>3. CopyOf(q) /\ ProgressOf(q) BY ZenonT(60), <1>1, <2>2 DEF PkgInv, At
  <2>4. ctl.cr.st \in {"open", "held", "leaving"}
    BY <2>2 DEF TypeOK, Reconciles, HelmReleases, Phases
  <2>5. /\ crs'[q].dep \in {ctl.cr.dep, {}}
        /\ ctl'.fresh = "yes" => crs'[q].dep = ctl.cr.dep /\ crs'[q].st = ctl.cr.st
    BY Zenon, <1>2, <1>5, <2>1, <2>2, <2>3 DEF CopyOf
  <2>6. /\ ctl.cr.st = "leaving" => Unheld(q)' \/ crs'[q].st = "leaving"
        /\ ctl.cr.st = "held" => Unheld(q)' \/ crs'[q].st \in {"held", "leaving"}
    BY Zenon, <1>3, <1>4, <2>3 DEF CopyOf
  <2>7. ctl'.owner = "gone" => ctl'.fresh = "no" /\ (Unheld(q)' \/ ctl.cr.st = "open")
    <3>1. CASE ctl.owner = "gone" BY Zenon, <1>3, <2>1, <2>3, <3>1 DEF CopyOf
    <3>2. CASE ctl'.fresh = "no" /\ new[q].st = "none" BY ZenonT(60), <1>2, <2>4, <2>6, <3>2
    <3> QED BY Zenon, <2>1, <2>2, <3>1, <3>2
  <2>8. CopyOf(q)'
    BY ZenonT(60), <1>7, <2>1, <2>3, <2>5, <2>6, <2>7 DEF CopyOf
  <2>9. ctl.cr.st = "held" => Unheld(q)' \/ orphans'[q] = orphans[q]
    BY Zenon, <1>3, <1>4, <2>3 DEF CopyOf
  <2>10. ProgressOf(q)'
    <3>1. ctl.pc \in {"installed", "upgraded", "superseded"} => ctl.cr.st = "held"
      BY Zenon, <2>3 DEF CopyOf, Installing, Upgrading
    <3> QED BY ZenonT(60), <1>3, <2>1, <2>3, <2>9, <3>1 DEF ProgressOf
  <2> QED BY Zenon, <2>8, <2>10
<1> QED BY Zenon, <1>6, <1>8, <1>9 DEF PkgInv

\* HelmReleases are deleted.
LEMMA DeletedStep ==
  ASSUME TypeOK, HelmInv, NEW ps, Write(Deleted(ps)),
         rel' = rel, objs' = objs, world' = world, parent' = parent, lost' = lost
  PROVE  HelmInv' /\ LifeStep
<1>1. ASSUME NEW q \in Pkgs
      PROVE  \/ Deleted(ps)[q].st = crs[q].st /\ Deleted(ps)[q].dep = crs[q].dep
             \/ crs[q].st = "held" /\ Deleted(ps)[q].st = "leaving" /\ Deleted(ps)[q].dep = crs[q].dep
             \/ crs[q].st = "open" /\ Deleted(ps)[q].st = "none" /\ Deleted(ps)[q].dep = {}
  <2>1. crs[q] \in HelmReleases BY Zenon DEF TypeOK
  <2> QED BY <2>1 DEF Deleted, NoCR, HelmReleases
<1>2. \A q \in Pkgs : Rewritten(q, Deleted(ps)[q]) BY Zenon, <1>1 DEF Rewritten
<1>3. \A q \in Pkgs : (Unheld(q) => Unheld(q)') /\ (Unknown(q) => Unknown(q)')
  BY DEF Unheld, Unknown
<1>4. HelmInv' BY Zenon, <1>2, <1>3, WriteStep
<1>5. LifeStep
  <2>1. crs' = Deleted(ps) BY DEF Write
  <2> QED BY Zenon, <1>1, <2>1, StepWithdraw
<1> QED BY <1>4, <1>5

\* The HelmReleases of the record are deleted, or some of them.
LEMMA PurgeStep ==
  ASSUME TypeOK, HelmInv, Purge,
         rel' = rel, objs' = objs, world' = world, parent' = parent, lost' = lost
  PROVE  HelmInv' /\ LifeStep
<1>1. PICK ps : Write(Deleted(ps)) BY DEF Purge
<1> QED BY Zenon, <1>1, DeletedStep

\* A step of the item alone, an edit, or the deletion of the Subscription.
LEMMA StillStep ==
  ASSUME HelmInv, crs' = crs, rel' = rel, objs' = objs, orphans' = orphans, lost' = lost,
         world' = world, parent' = parent \/ parent' # "yes", ctl' = ctl \/ ctl' = Idle
  PROVE  HelmInv' /\ LifeStep
<1>1. LifeStep BY StepNone
<1>2. ASSUME NEW q \in Pkgs PROVE PkgInv(q)'
  <2>1. PkgInv(q) BY Zenon DEF HelmInv
  <2>2. ~At(q)' \/ (At(q) /\ ctl' = ctl) BY DEF At, Idle
  <2>3. Unheld(q)' = Unheld(q) /\ Unknown(q)' = Unknown(q) BY DEF Unheld, Unknown
  <2> QED BY ZenonT(60), <2>1, <2>2, <2>3, OtherPackage
<1> QED BY Zenon, <1>1, <1>2 DEF HelmInv

\* A HelmRelease that is not there has no status; ReleaseLifecycle keeps it so.
NoStatus == \A p \in Pkgs : crs[p].st = "none" => crs[p].dep = {}

\* No step of ReleaseLifecycle gives a status to a HelmRelease that is not there.
LEMMA NoStatusStep ==
  ASSUME NoStatus, LifeStep
  PROVE  NoStatus'
<1> SUFFICES ASSUME NEW q \in Pkgs, crs'[q].st = "none" PROVE crs'[q].dep = {} BY Zenon DEF NoStatus
<1>1. crs[q].st = "none" => crs[q].dep = {} BY DEF NoStatus
<1>2. ASSUME crs'[q].st = crs[q].st, crs'[q].dep = crs[q].dep PROVE crs'[q].dep = {}
  BY Zenon, <1>1, <1>2
<1>3. CASE UNCHANGED L!vars
  <2>1. [p \in Pkgs |-> crs[p].st]'[q] = [p \in Pkgs |-> crs[p].st][q]
        /\ [p \in Pkgs |-> crs[p].dep]'[q] = [p \in Pkgs |-> crs[p].dep][q]
    BY <1>3 DEF L!vars
  <2> QED BY ZenonT(60), <1>2, <2>1
<1>4. CASE L!Withdraw BY Zenon, <1>1, <1>4 DEF L!Withdraw
<1>5. ASSUME NEW p \in Pkgs,
             L!Only([r \in Pkgs |-> crs[r].st], p), L!Only([r \in Pkgs |-> crs[r].dep], p),
             \/ L!Ask(p) \/ L!Hold(p) \/ L!Overwrite(p) \/ L!GiveUp(p)
             \/ L!Deploy(p) \/ L!Claim(p) \/ L!Shrink(p) \/ L!Drop(p)
      PROVE  crs'[q].dep = {}
  <2>1. CASE q # p BY Zenon, <1>2, <1>5, <2>1 DEF L!Only
  <2>2. CASE q = p
    <3>1. CASE L!Ask(p) BY Zenon, <2>2, <3>1 DEF L!Ask
    <3>2. CASE L!Hold(p) BY Zenon, <2>2, <3>2 DEF L!Hold
    <3>3. CASE L!Overwrite(p) BY Zenon, <2>2, <3>3 DEF L!Overwrite
    <3>4. CASE L!GiveUp(p) \/ L!Deploy(p) \/ L!Shrink(p)
      <4>1. [r \in Pkgs |-> crs[r].st]'[q] = [r \in Pkgs |-> crs[r].st][q]
            /\ [r \in Pkgs |-> crs[r].dep]'[q] = [r \in Pkgs |-> crs[r].dep][q]
        BY Zenon, <3>4 DEF L!GiveUp, L!Deploy, L!Shrink
      <4> QED BY <1>2, <4>1
    <3>5. CASE L!Claim(p)
      <4>1. [r \in Pkgs |-> crs[r].st]'[q] = [r \in Pkgs |-> crs[r].st][q]
            /\ [r \in Pkgs |-> crs[r].st][p] # "none"
        BY <3>5 DEF L!Claim
      <4> QED BY ZenonT(60), <2>2, <4>1
    <3>6. CASE L!Drop(p) BY Zenon, <2>2, <3>6 DEF L!Drop
    <3> QED BY ZenonT(60), <1>5, <3>1, <3>2, <3>3, <3>4, <3>5, <3>6
  <2> QED BY Zenon, <2>1, <2>2
<1>6. CASE L!Next BY Zenon, <1>4, <1>5, <1>6 DEF L!Next
<1> QED BY ZenonT(60), <1>3, <1>6 DEF LifeStep

\* The template of a package is written, with the finalizer of the HelmRelease it
\* was made from.
LEMMA ApplyTemplateStep ==
  ASSUME TypeOK, HelmInv, NoStatus, NEW p \in Pkgs, ApplyTemplate(p), UNCHANGED world
  PROVE  HelmInv' /\ LifeStep
<1>1. rel' = rel /\ objs' = objs /\ parent' = parent /\ world' = world BY DEF ApplyTemplate
<1>2. CASE crs' = crs /\ orphans' = orphans /\ ctl' = ctl /\ lost' = lost
  BY Zenon, <1>1, <1>2, StillStep
<1>3. CASE /\ Write([crs EXCEPT ![p] = Updated(@, p)])
           /\ lost' = IF HasFinalizer(crs[p].st) /\ ~HasFinalizer(item.tpl[p])
                      THEN lost \cup {<<p, "finalizer">>} ELSE lost
  <2> DEFINE new == [crs EXCEPT ![p] = Updated(@, p)]
             over == HasFinalizer(crs[p].st) /\ ~HasFinalizer(item.tpl[p])
  <2>1. crs \in [Pkgs -> HelmReleases] /\ crs[p] \in HelmReleases BY Zenon DEF TypeOK
  <2>2. new[p] = Updated(crs[p], p) /\ \A q \in Pkgs \ {p} : new[q] = crs[q] BY ZenonT(60), <2>1
  <2>3. /\ over <=> /\ crs[p].st \in {"held", "leaving"}
                    /\ item.tpl[p] \notin {"held", "leaving"}
        /\ lost' = IF over THEN lost \cup {<<p, "finalizer">>} ELSE lost
    BY <1>3 DEF HasFinalizer
  <2>4. /\ crs[p].st = "leaving" /\ over => new[p].st = "none" /\ new[p].dep = {}
        /\ ~(crs[p].st = "leaving" /\ over) => new[p].dep = crs[p].dep
        /\ crs[p].st = "leaving" /\ ~over => new[p].st = "leaving"
        /\ crs[p].st = "held" => new[p].st = IF over THEN "open" ELSE "held"
        /\ crs[p].st \in {"none", "open"} => new[p].st \in {"open", "held"}
    <3>1. CASE crs[p].st = "leaving" /\ over
      BY Zenon, <2>1, <2>2, <2>3, <3>1 DEF Updated, HasFinalizer, NoCR
    <3>2. CASE ~(crs[p].st = "leaving" /\ over)
      <4>1. new[p] = [crs[p] EXCEPT !.v = item.list[p],
                        !.st = IF crs[p].st = "leaving" THEN @
                               ELSE IF HasFinalizer(item.tpl[p]) THEN "held" ELSE "open"]
        BY Zenon, <2>2, <2>3, <3>2 DEF Updated, HasFinalizer
      <4>2. /\ new[p].dep = crs[p].dep
            /\ new[p].st = IF crs[p].st = "leaving" THEN "leaving"
                           ELSE IF HasFinalizer(item.tpl[p]) THEN "held" ELSE "open"
        <5> HIDE DEF new, over
        <5> QED BY <2>1, <4>1 DEF HelmReleases
      <4> HIDE DEF new
      <4> QED BY Zenon, <2>3, <3>2, <4>2 DEF HasFinalizer
    <3> QED BY Zenon, <3>1, <3>2
  <2>5. crs' = new /\ Write(new) BY <1>3 DEF Write
  <2> HIDE DEF new, over
  <2>6. /\ \A q \in Pkgs : (Unheld(q) => Unheld(q)') /\ (Unknown(q) => Unknown(q)')
        /\ over => Unheld(p)'
    BY Zenon, <2>3 DEF Unheld, Unknown
  <2>7. crs[p].st \in Phases BY <2>1 DEF HelmReleases
  <2>8. Rewritten(p, new[p]) BY Zenon, <2>3, <2>4, <2>6, <2>7 DEF Rewritten, Phases
  <2>9. \A q \in Pkgs : Rewritten(q, new[q]) BY Zenon, <2>2, <2>8 DEF Rewritten
  <2>10. HelmInv' BY Zenon, <1>1, <2>5, <2>6, <2>9, WriteStep
  <2>11. Elsewhere(p) BY Zenon, <1>1, <2>2, <2>5 DEF Elsewhere
  <2>12. LifeStep
    <3>1. CASE over BY ZenonT(60), <1>1, <2>3, <2>4, <2>5, <2>11, <3>1, StepOverwrite
    <3>2. CASE ~over /\ crs[p].st = "none"
      <4>1. crs[p].dep = {} BY Zenon, <3>2 DEF NoStatus
      <4> QED BY ZenonT(60), <1>1, <2>3, <2>4, <2>5, <2>11, <3>2, <4>1, StepAsk
    <3>3. CASE ~over /\ crs[p].st = "open" /\ new[p].st = "held"
      BY ZenonT(60), <1>1, <2>3, <2>4, <2>5, <2>11, <3>3, StepHold
    <3>4. CASE ~over /\ new[p].st = crs[p].st
      <4>1. \A q \in Pkgs : crs'[q].st = crs[q].st /\ crs'[q].dep = crs[q].dep
        BY Zenon, <2>2, <2>4, <2>5, <3>4
      <4> QED BY ZenonT(60), <1>1, <2>3, <3>4, <4>1, StepNone
    <3> QED BY Zenon, <2>4, <2>7, <3>1, <3>2, <3>3, <3>4 DEF Phases
  <2> QED BY Zenon, <2>10, <2>12
<1> QED BY <1>2, <1>3 DEF ApplyTemplate

----------------------------------------------------------------------------
(* The specification.                                                        *)

\* The inductive invariant.
HelmIInv == TypeOK /\ NoStatus /\ HelmInv

\* The steps of the controller.
LEMMA ControlledStep ==
  ASSUME HelmIInv, Controlled
  PROVE  TypeOK' /\ HelmInv' /\ LifeStep
<1>0. TypeOK /\ HelmInv BY DEF HelmIInv
<1>1. UNCHANGED world BY DEF Controlled
<1>2. ctl.pc # "idle" /\ ctl.fresh = "yes" => crs[ctl.p].st = ctl.cr.st
  BY Zenon, <1>0, Reconciled DEF CopyOf
<1>3. TypeOK' BY Zenon, <1>0, <1>2, ControlledType
<1> SUFFICES HelmInv' /\ LifeStep BY <1>3
<1>4. PICK p : p = ctl.p OBVIOUS
<1>5. ASSUME NEW q \in Pkgs, Reconcile(q) PROVE HelmInv' /\ LifeStep
  BY <1>0, <1>1, <1>5, ReconcileStep
<1>6. CASE NewManager BY <1>0, <1>1, <1>4, <1>6, NewManagerStep
<1>7. CASE Sync BY ZenonT(60), <1>0, <1>1, <1>4, <1>7, SyncStep
<1>8. CASE InstallRelease BY <1>0, <1>1, <1>4, <1>8, InstallReleaseStep
<1>9. CASE InstallFailed BY <1>0, <1>1, <1>4, <1>9, InstallFailedStep
<1>10. CASE Installed BY <1>0, <1>1, <1>4, <1>10, InstalledStep
<1>11. CASE UpgradeRelease BY <1>0, <1>1, <1>4, <1>11, UpgradeReleaseStep
<1>12. CASE UpgradeFailed BY <1>0, <1>1, <1>4, <1>12, UpgradeFailedStep
<1>13. CASE Upgraded BY <1>0, <1>1, <1>4, <1>13, UpgradedStep
<1>14. CASE Ensure BY <1>0, <1>1, <1>4, <1>14, EnsureStep
<1>15. CASE UninstallRelease BY <1>0, <1>1, <1>4, <1>15, UninstallReleaseStep
<1>16. CASE CheckRemoved BY <1>0, <1>1, <1>4, <1>16, CheckRemovedStep
<1>17. CASE RemoveFinalizer BY <1>0, <1>1, <1>4, <1>17, RemoveFinalizerStep
<1> QED BY ZenonT(60), <1>3, <1>5, <1>6, <1>7, <1>8, <1>9, <1>10, <1>11, <1>12, <1>13, <1>14, <1>15,
          <1>16, <1>17 DEF Controlled, Controller, Released

\* The steps of the item.
LEMMA SubscribedStep ==
  ASSUME HelmIInv, Subscribed
  PROVE  TypeOK' /\ HelmInv' /\ LifeStep
<1>0. TypeOK /\ HelmInv /\ NoStatus BY DEF HelmIInv
<1>1. UNCHANGED world BY DEF Subscribed
<1>2. TypeOK' BY <1>0, SubscribedType
<1> SUFFICES HelmInv' /\ LifeStep BY <1>2
<1>3. CASE Start BY Zenon, <1>0, <1>1, <1>3, StillStep DEF Start
<1>4. CASE DoSubscription
  <2>1. rel' = rel /\ objs' = objs /\ parent' = parent /\ lost' = lost BY <1>4 DEF DoSubscription
  <2>2. (crs' = crs /\ orphans' = orphans /\ ctl' = ctl) \/ Purge BY Zenon, <1>4 DEF DoSubscription
  <2> QED BY ZenonT(60), <1>0, <1>1, <2>1, <2>2, StillStep, PurgeStep
<1>5. CASE SyncRecord
  <2>1. rel' = rel /\ objs' = objs /\ parent' = parent /\ lost' = lost BY Zenon, <1>5 DEF SyncRecord
  <2>2. (crs' = crs /\ orphans' = orphans /\ ctl' = ctl) \/ \E ps : Write(Deleted(ps))
    BY Zenon, <1>5 DEF SyncRecord
  <2> QED BY Zenon, <1>0, <1>1, <2>1, <2>2, StillStep, DeletedStep
<1>6. CASE UnsubscribeItem
  <2>1. rel' = rel /\ objs' = objs /\ parent' = parent /\ lost' = lost /\ Purge
    BY <1>6 DEF UnsubscribeItem
  <2> QED BY Zenon, <1>0, <1>1, <2>1, PurgeStep
<1>7. ASSUME NEW p \in Pkgs, ApplyTemplate(p) PROVE HelmInv' /\ LifeStep
  BY Zenon, <1>0, <1>1, <1>7, ApplyTemplateStep
<1> QED BY Zenon, <1>2, <1>3, <1>4, <1>5, <1>6, <1>7 DEF Subscribed, Subscriber

\* The garbage collector, the edits and the restarts.
LEMMA OtherStep ==
  ASSUME HelmIInv,
         \/ \E p \in Pkgs : Cleaned(p)
         \/ (PublishIndex \/ SubscribeItem \/ DeleteSubscription) /\ UNCHANGED <<world, broken>>
         \/ Restart /\ UNCHANGED world
  PROVE  TypeOK' /\ HelmInv' /\ LifeStep
<1>0. TypeOK /\ HelmInv BY DEF HelmIInv
<1>1. TypeOK' BY Zenon, <1>0, SubscribedType, OutsideType
<1> SUFFICES HelmInv' /\ LifeStep BY Zenon, <1>1
<1>2. ASSUME NEW p \in Pkgs, CollectRelease(p), UNCHANGED world PROVE HelmInv' /\ LifeStep
  BY Zenon, <1>0, <1>2, DeletedStep DEF CollectRelease
<1>3. ASSUME NEW p \in Pkgs, Collect(p), UNCHANGED world PROVE HelmInv' /\ LifeStep
  BY Zenon, <1>0, <1>3, CollectStep
<1>4. CASE (PublishIndex \/ SubscribeItem \/ DeleteSubscription) /\ UNCHANGED <<world, broken>>
  <2>1. /\ crs' = crs /\ rel' = rel /\ objs' = objs /\ orphans' = orphans /\ lost' = lost
        /\ world' = world /\ ctl' = ctl /\ (parent' = parent \/ parent' # "yes")
    BY <1>4 DEF PublishIndex, SubscribeItem, DeleteSubscription
  <2> QED BY Zenon, <1>0, <2>1, StillStep
<1>5. CASE Restart /\ UNCHANGED world BY Zenon, <1>0, <1>5, StillStep DEF Restart
<1> QED BY Zenon, <1>1, <1>2, <1>3, <1>4, <1>5 DEF Cleaned

\* Every step keeps the invariant and is a step of ReleaseLifecycle, or none.
LEMMA HelmStep ==
  ASSUME HelmIInv, [Next]_vars
  PROVE  HelmIInv' /\ LifeStep
<1>1. TypeOK' /\ HelmInv' /\ LifeStep
  <2>1. CASE Controlled BY <2>1, ControlledStep
  <2>2. CASE Subscribed BY <2>2, SubscribedStep
  <2>3. CASE \/ \E p \in Pkgs : Cleaned(p)
             \/ (PublishIndex \/ SubscribeItem \/ DeleteSubscription) /\ UNCHANGED <<world, broken>>
             \/ Restart /\ UNCHANGED world
    BY Zenon, <2>3, OtherStep
  <2>4. CASE UNCHANGED vars
    <3>1. TypeOK /\ HelmInv BY DEF HelmIInv
    <3>2. TypeOK' BY ZenonT(60), <2>4, <3>1 DEF vars, TypeOK
    <3> QED BY Zenon, <2>4, <3>1, <3>2, StillStep DEF vars
  <2> QED BY Zenon, <2>1, <2>2, <2>3, <2>4 DEF Next
<1>2. NoStatus' BY <1>1, NoStatusStep DEF HelmIInv
<1> QED BY Zenon, <1>1, <1>2 DEF HelmIInv

\* The initial states have the invariant and are initial states of ReleaseLifecycle.
LEMMA HelmInit ==
  ASSUME Init
  PROVE  HelmIInv /\ L!Init
<1>1. TypeOK
  <2>1. Idle \in Reconciles /\ Idle.pc = "idle"
    BY Zenon DEF Idle, Reconciles, NoCR, HelmReleases, Labels, Flags, Phases
  <2>2. NoCR \in HelmReleases /\ Versioned(NoCR)
    BY Zenon DEF NoCR, HelmReleases, Phases, Versioned
  <2>3. NoRelease \in Releases BY DEF NoRelease, Releases, Recorded
  <2>4. NoRecord \in Records BY ZenonT(60) DEF NoRecord, Records
  <2>5. ItemTyped
    <3>1. item = [pc |-> "idle", left |-> 0, list |-> NoList, tpl |-> NoTemplate, todo |-> {},
                  named |-> {}, failed |-> {}, error |-> "no", restart |-> "yes"]
      BY Zenon DEF Init, Resting
    <3> QED BY <3>1 DEF ItemTyped, Items, NoList, NoTemplate, Phases, Flags
  <2>6. sub \in [filter : world.filters, rate : {"on", "off"}, paused : Flags]
    BY DEF Init, Flags
  <2>7. ReleaseTyped
    BY Zenon, <2>1, <2>2, <2>3, <2>4 DEF Init, ReleaseTyped, Working, Unique
  <2>8. OutsideTyped BY <2>6 DEF Init, OutsideTyped, Flags
  <2> QED BY Zenon, <2>5, <2>7, <2>8, TypeParts
<1>2. \A p \in Pkgs : crs[p] = NoCR /\ rel[p] = NoRelease /\ objs[p] = {} /\ orphans[p] = {}
  BY DEF Init
<1>3. NoCR.st = "none" /\ NoCR.dep = {} /\ NoRelease.cur = {} BY Zenon DEF NoCR, NoRelease
<1>4. NoStatus BY Zenon, <1>2, <1>3 DEF NoStatus
<1>5. ASSUME NEW p \in Pkgs PROVE PkgInv(p)
  <2>1. Kept(p) BY Zenon, <1>2, <1>3 DEF Kept
  <2>2. There(p) BY Zenon, <1>2, <1>3, NamesEmpty DEF There
  <2>3. ~At(p) BY DEF At, Init, Idle
  <2> QED BY <2>1, <2>2, <2>3 DEF PkgInv
<1>6. L!Init BY <1>2, <1>3 DEF Init, L!Init
<1> QED BY Zenon, <1>1, <1>4, <1>5, <1>6 DEF HelmIInv, HelmInv

\* The types, that a HelmRelease that is not there has no status, and the
\* invariant of every package, are invariant.
LEMMA HelmInvariant == Spec => []HelmIInv
<1>1. Init => HelmIInv BY HelmInit
<1>2. HelmIInv /\ [Next]_vars => HelmIInv' BY HelmStep
<1> QED BY <1>1, <1>2, PTL DEF Spec

\* The subscriber, the HelmRelease controller and the garbage collector, with
\* failures, conflicts and restarts anywhere, implement ReleaseLifecycle: what a
\* status names is there when it is claimed, is taken away only for a complete
\* version or from a HelmRelease that leaves, and is gone when that is let go.
THEOREM ImplementsLifecycle == Spec => Lifecycle
<1>1. Init => L!Init BY HelmInit
<1>2. HelmIInv /\ [Next]_vars => [L!Next]_(L!vars) BY HelmStep DEF LifeStep
<1>3. Spec => []HelmIInv BY HelmInvariant
<1> QED BY <1>1, <1>2, <1>3, PTL DEF Spec, Lifecycle, L!Spec

\* The state always has its types.
THEOREM TypeCorrect == Spec => []TypeOK
<1>1. HelmIInv => TypeOK BY DEF HelmIInv
<1> QED BY <1>1, HelmInvariant, PTL

\* A release record of Helm never outlives the HelmRelease that would uninstall
\* it, nor has it before the finalizer is on: unless another writer removed that.
ReleasesHeld ==
  \A p \in Pkgs : rel[p] # NoRelease => crs[p].st \in {"held", "leaving"} \/ Unheld(p)

\* The finalizer is on before Helm installs anything (Sync, then InstallRelease),
\* and comes off when the records are deleted (UninstallRelease, RemoveFinalizer),
\* wherever a restart, a conflict or a deletion falls.
THEOREM ReleasesAreHeld == Spec => []ReleasesHeld
<1>1. HelmIInv => ReleasesHeld
  <2> SUFFICES ASSUME HelmIInv, NEW p \in Pkgs, rel[p] # NoRelease, ~Unheld(p)
               PROVE  crs[p].st \in {"held", "leaving"}
    BY DEF ReleasesHeld
  <2>1. crs[p].st \notin {"none", "open"} BY Zenon DEF HelmIInv, HelmInv, PkgInv, Kept
  <2>2. crs[p].st \in Phases BY ZenonT(60) DEF HelmIInv, TypeOK, HelmReleases
  <2> QED BY Zenon, <2>1, <2>2 DEF Phases
<1> QED BY <1>1, HelmInvariant, PTL

\* The garbage collector never has an object to collect that the status of a
\* HelmRelease or its deployed record names, unless the finalizer was removed.
NothingCollected ==
  \A p \in Pkgs : Unheld(p) \/ orphans[p] \cap (Names(crs[p].dep) \cup Names(rel[p].cur)) = {}

\* The owner references that the ownerRefInjectingClient sets are those of the
\* HelmRelease the objects belong to: also when it was deleted and written again
\* while its predecessor was reconciled.
THEOREM NothingIsCollected == Spec => []NothingCollected
<1>1. HelmIInv => NothingCollected
  <2> SUFFICES ASSUME HelmIInv, NEW p \in Pkgs, ~Unheld(p)
               PROVE  orphans[p] \cap (Names(crs[p].dep) \cup Names(rel[p].cur)) = {}
    BY Zenon DEF NothingCollected
  <2> QED BY Zenon DEF HelmIInv, HelmInv, PkgInv, Kept
<1> QED BY <1>1, HelmInvariant, PTL

\* A HelmRelease that goes leaves nothing behind of what its status names, but what
\* is to be kept: a deletion that waits for the finalizer is a complete one.
GoesClean ==
  \A p \in Pkgs : crs[p].st = "leaving" /\ crs'[p].st = "none" =>
                    Names(crs[p].dep) \cap Names(objs[p]) \subseteq Keep \/ Unheld(p)'

\* CheckRemoved looks at the copy's status and RemoveFinalizer writes the copy: it
\* conflicts if the status is another by then.
THEOREM LetGoIsClean == Spec => [][GoesClean]_vars
<1>1. HelmIInv /\ [Next]_vars => [GoesClean]_vars
  <2> SUFFICES ASSUME LifeStep, NEW p \in Pkgs, crs[p].st = "leaving", crs'[p].st = "none",
                      ~Unheld(p)'
               PROVE  Names(crs[p].dep) \cap Names(objs[p]) \subseteq Keep
    BY Zenon, HelmStep DEF GoesClean
  <2>1. [r \in Pkgs |-> crs[r].st][p] = "leaving" /\ [r \in Pkgs |-> crs[r].st]'[p] = "none"
    BY Zenon
  <2>2. CASE UNCHANGED L!vars BY Zenon, <2>1, <2>2 DEF L!vars
  <2>3. CASE L!Withdraw BY Zenon, <2>1, <2>3 DEF L!Withdraw
  <2>4. ASSUME NEW q \in Pkgs, L!Only([r \in Pkgs |-> crs[r].st], q),
               \/ L!Ask(q) \/ L!Hold(q) \/ L!Overwrite(q) \/ L!GiveUp(q)
               \/ L!Deploy(q) \/ L!Claim(q) \/ L!Shrink(q) \/ L!Drop(q)
        PROVE  Names(crs[p].dep) \cap Names(objs[p]) \subseteq Keep
    <3>1. q = p BY Zenon, <2>1, <2>4 DEF L!Only
    <3>2. CASE L!Overwrite(q) BY Zenon, <3>1, <3>2 DEF L!Overwrite, Unheld
    <3>3. CASE L!Drop(q)
      <4>1. <<p, "finalizer">> \notin lost BY ZenonT(60), <3>3 DEF L!Drop, Unheld
      <4> QED BY ZenonT(60), <3>1, <3>3, <4>1 DEF L!Drop, L!Names, Names
    <3>4. CASE L!Ask(q) BY Zenon, <2>1, <3>1, <3>4 DEF L!Ask
    <3>5. CASE L!Hold(q) BY Zenon, <2>1, <3>1, <3>5 DEF L!Hold
    <3>6. CASE L!GiveUp(q) \/ L!Deploy(q) \/ L!Claim(q) \/ L!Shrink(q)
      BY Zenon, <2>1, <3>6 DEF L!GiveUp, L!Deploy, L!Claim, L!Shrink
    <3> QED BY ZenonT(60), <2>4, <3>2, <3>3, <3>4, <3>5, <3>6
  <2> QED BY ZenonT(60), <2>2, <2>3, <2>4 DEF LifeStep, L!Next
<1> QED BY <1>1, HelmInvariant, PTL DEF Spec
=============================================================================
