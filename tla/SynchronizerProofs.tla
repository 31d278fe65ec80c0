------------------------- MODULE SynchronizerProofs -------------------------
(* Theorems about Synchronizer, for every set of subscriptions and objects, *)
(* every reconcile option, every allow and deny list and every bound.       *)
EXTENDS Synchronizer, TLAPS

\* A new call and a new round of cleanup are well typed.
LEMMA CallType ==
    ASSUME NEW s \in Subs \cup {"none"}, NEW L \in SUBSET Resources,
           NEW label \in {"idle", "next", "purge"}
    PROVE  /\ Call(s, L, label) \in ProcType
           /\ Call(s, L, label).sub = s /\ Call(s, L, label).pc = label
BY DEF Call, ProcType, Units

\* The idle lock and the idle cleanup are well typed.
LEMMA IdleType ==
    IdleProc \in ProcType /\ IdleProc.pc = "idle" /\ IdleClean \in CleanType
<1>1. IdleProc \in ProcType /\ IdleProc.pc = "idle" BY CallType DEF IdleProc
<1>2. IdleClean \in CleanType BY DEF IdleClean, Round, CleanType, Units
<1> QED BY <1>1, <1>2

\* The initial state is well typed.
LEMMA InitType == Init => TypeOK
BY IdleType DEF Init, TypeOK

\* A call that fails or succeeds leaves the fault counter a number.
LEMMA FaultType ==
    ASSUME faults \in Nat, NEW f, Fail(f) \/ Ok
    PROVE  faults' \in Nat
BY DEF Fail, Ok

\* What users, the source and the controller do keeps the types.
LEMMA OutsideType ==
    ASSUME TypeOK,
           \/ \E s \in Subs : EditSub(s) \/ EditSource(s)
           \/ \E r \in Resources : Foreign(r)
           \/ Restart
           \/ \E s \in Subs : Subscribe(s) \/ Unsubscribe(s) \/ ProcessSubResources(s)
    PROVE  TypeOK'
<1> USE DEF TypeOK
<1>0. Edit => edits' \in Nat BY DEF Edit
<1>1. CASE \E s \in Subs : EditSub(s)
  <2>1. sub' \in [Subs -> {"none", "active", "paused", "deleted"}] BY <1>1 DEF EditSub, Exists
  <2> QED BY <1>0, <1>1, <2>1 DEF EditSub
<1>2. CASE \E s \in Subs : EditSource(s) BY <1>0, <1>2 DEF EditSource
<1>3. CASE \E r \in Resources : Foreign(r) BY <1>0, <1>3 DEF Foreign
<1>4. CASE Restart BY <1>0, <1>4, IdleType DEF Restart
<1>5. CASE \E s \in Subs : Subscribe(s) BY <1>5 DEF Subscribe
<1>6. CASE \E s \in Subs : Unsubscribe(s) BY <1>6, CallType DEF Unsubscribe
<1>7. CASE \E s \in Subs : ProcessSubResources(s)
  <2>1. PICK s \in Subs : ProcessSubResources(s) BY <1>7
  <2>2. want[s] \in SUBSET Resources OBVIOUS
  <2>3. proc' \in ProcType /\ proc'.sub = s
    BY <2>1, <2>2, CallType DEF ProcessSubResources
  <2> QED BY <2>1, <2>3 DEF ProcessSubResources, Outside
<1> QED BY <1>1, <1>2, <1>3, <1>4, <1>5, <1>6, <1>7

\* DeleteSingleSubscribedResource only removes objects.
LEMMA DeleteEffect ==
    ASSUME TypeOK, NEW s, NEW u \in Units, NEW f,
           DeleteDone(s, u) \/ DeleteError(s, u, f)
    PROVE  /\ host' \in [Resources -> Subs \cup {Absent, Nobody}]
           /\ faults' \in Nat
           /\ \A r \in Resources : host'[r] # host[r] =>
                 r = u /\ host[r] = s /\ host'[r] = Absent /\ r \notin Keep
<1>1. host \in [Resources -> Subs \cup {Absent, Nobody}] /\ faults \in Nat BY DEF TypeOK
<1>2. faults' \in Nat BY <1>1, FaultType DEF DeleteDone, DeleteError
<1>3. host' = host \/ (Deletes(s, u) /\ host' = [host EXCEPT ![u] = Absent])
  BY DEF DeleteDone, DeleteError, AfterDelete
<1> QED BY <1>1, <1>2, <1>3 DEF Deletes

\* The ways in which a step under the lock rewrites its call keep its type and
\* the subscription it works for: a unit is dealt with, or a phase begins.
LEMMA UnitUpdate ==
    ASSUME NEW p \in ProcType, NEW u \in Units
    PROVE  \A q : \/ q = [p EXCEPT !.pc = "apply", !.cur = u, !.todo = @ \ {u}]
                  \/ q = [p EXCEPT !.todo = @ \ {u}, !.units = @ \cup {Blank}, !.failed = @ \cup {Blank}]
                  \/ q = [p EXCEPT !.todo = @ \ {u}]
                  \/ q = [p EXCEPT !.todo = @ \ {u}, !.units = @ \cup {u}]
                  \/ q = [p EXCEPT !.todo = @ \ {u}, !.failed = @ \cup {u}]
                => q \in ProcType /\ q.sub = p.sub
<1> Blank \in Units BY DEF Units
<1> USE DEF ProcType
<1>1. ASSUME NEW q, q = [p EXCEPT !.pc = "apply", !.cur = u, !.todo = @ \ {u}]
      PROVE  q \in ProcType /\ q.sub = p.sub BY Zenon, <1>1
<1>2. ASSUME NEW q, q = [p EXCEPT !.todo = @ \ {u}, !.units = @ \cup {Blank}, !.failed = @ \cup {Blank}]
      PROVE  q \in ProcType /\ q.sub = p.sub BY Zenon, <1>2
<1>3. ASSUME NEW q, q = [p EXCEPT !.todo = @ \ {u}]
      PROVE  q \in ProcType /\ q.sub = p.sub BY <1>3
<1>4. ASSUME NEW q, q = [p EXCEPT !.todo = @ \ {u}, !.units = @ \cup {u}]
      PROVE  q \in ProcType /\ q.sub = p.sub BY Zenon, <1>4
<1>5. ASSUME NEW q, q = [p EXCEPT !.todo = @ \ {u}, !.failed = @ \cup {u}]
      PROVE  q \in ProcType /\ q.sub = p.sub BY Zenon, <1>5
<1> HIDE DEF ProcType
<1> QED BY <1>1, <1>2, <1>3, <1>4, <1>5

\* The same where a call enters its next phase.
LEMMA PhaseUpdate ==
    ASSUME NEW p \in ProcType, NEW T \in SUBSET Units
    PROVE  \A q : \/ q = [p EXCEPT !.pc = "create"]
                  \/ q = [p EXCEPT !.pc = "prune", !.todo = T \ p.units]
                  \/ q = [p EXCEPT !.pc = "purging", !.list = {}, !.todo = T]
                => q \in ProcType /\ q.sub = p.sub
<1> Blank \in Units BY DEF Units
<1> USE DEF ProcType
<1>1. ASSUME NEW q, q = [p EXCEPT !.pc = "create"]
      PROVE  q \in ProcType /\ q.sub = p.sub BY <1>1
<1>2. ASSUME NEW q, q = [p EXCEPT !.pc = "prune", !.todo = T \ p.units]
      PROVE  q \in ProcType /\ q.sub = p.sub BY Zenon, <1>2
<1>3. ASSUME NEW q, q = [p EXCEPT !.pc = "purging", !.list = {}, !.todo = T]
      PROVE  q \in ProcType /\ q.sub = p.sub BY Zenon, <1>3
<1> HIDE DEF ProcType
<1> QED BY <1>1, <1>2, <1>3

\* The same for the rounds of cleanup.
LEMMA RoundUnitUpdate ==
    ASSUME NEW c \in CleanType, NEW u \in Units
    PROVE  \A q : \/ q = [c EXCEPT !.pc = "delete", !.cur = u, !.todo = @ \ {u}]
                  \/ q = [c EXCEPT !.todo = @ \ {u}]
                  \/ q = [c EXCEPT !.todo = @ \ {u}, !.err = "yes"]
                  \/ q = [c EXCEPT !.pc = "units", !.cur = Blank]
                  \/ q = [c EXCEPT !.pc = "units", !.cur = Blank, !.err = "yes"]
                => q \in CleanType
<1> Blank \in Units BY DEF Units
<1> USE DEF CleanType
<1>1. ASSUME NEW q, q = [c EXCEPT !.pc = "delete", !.cur = u, !.todo = @ \ {u}]
      PROVE  q \in CleanType BY Zenon, <1>1
<1>2. ASSUME NEW q, q = [c EXCEPT !.todo = @ \ {u}]
      PROVE  q \in CleanType BY <1>2
<1>3. ASSUME NEW q, q = [c EXCEPT !.todo = @ \ {u}, !.err = "yes"]
      PROVE  q \in CleanType BY Zenon, <1>3
<1>4. ASSUME NEW q, q = [c EXCEPT !.pc = "units", !.cur = Blank]
      PROVE  q \in CleanType BY Zenon, <1>4
<1>5. ASSUME NEW q, q = [c EXCEPT !.pc = "units", !.cur = Blank, !.err = "yes"]
      PROVE  q \in CleanType BY Zenon, <1>5
<1> HIDE DEF CleanType
<1> QED BY <1>1, <1>2, <1>3, <1>4, <1>5

\* The same where cleanup takes the next subscription.
LEMMA RoundSubUpdate ==
    ASSUME NEW c \in CleanType, NEW s \in Subs
    PROVE  \A q : \/ q = [c EXCEPT !.pc = "units", !.left = @ \ {s}, !.sub = s, !.todo = c.snap[s], !.err = "no"]
                  \/ q = [c EXCEPT !.left = @ \ {s}]
                => q \in CleanType
<1> Blank \in Units BY DEF Units
<1> USE DEF CleanType
<1>1. ASSUME NEW q, q = [c EXCEPT !.pc = "units", !.left = @ \ {s}, !.sub = s, !.todo = c.snap[s], !.err = "no"]
      PROVE  q \in CleanType BY Zenon, <1>1
<1>2. ASSUME NEW q, q = [c EXCEPT !.left = @ \ {s}]
      PROVE  q \in CleanType BY Zenon, <1>2
<1> HIDE DEF CleanType
<1> QED BY <1>1, <1>2

\* The steps made under the lock keep the types.
LEMMA LockedType ==
    ASSUME TypeOK, Locked
    PROVE  TypeOK'
<1> USE DEF TypeOK
<1>0. /\ proc \in ProcType /\ faults \in Nat /\ proc.todo \in SUBSET Units
      /\ Resources \subseteq Units /\ Blank \in Units
  BY DEF ProcType, Units
<1>1. CASE OverrideResource
  <2>1. PICK r \in proc.todo :
          \/ proc' = [proc EXCEPT !.pc = "apply", !.cur = r, !.todo = @ \ {r}]
          \/ proc' = [proc EXCEPT !.todo = @ \ {r}, !.units = @ \cup {Blank},
                                  !.failed = @ \cup {Blank}]
    BY Zenon, <1>1 DEF OverrideResource
  <2>2. proc' \in ProcType /\ proc'.sub = proc.sub /\ proc.pc = "next"
    <3>1. r \in Units BY <1>0, <2>1
    <3>2. proc.pc = "next" BY <1>1 DEF OverrideResource
    <3> QED BY Zenon, <1>0, <2>1, <3>1, <3>2, UnitUpdate
  <2>3. faults' \in Nat BY <1>1, FaultType DEF OverrideResource
  <2> QED BY <1>1, <2>2, <2>3 DEF OverrideResource, Outside
<1>2. CASE ApplyTemplate
  <2>1. PICK bad \in BOOLEAN : Applied(bad) BY Zenon, <1>2 DEF ApplyTemplate
  <2>2. proc' \in ProcType /\ proc'.sub = proc.sub /\ proc.pc = "apply"
    BY ZenonT(30), <1>0, <1>2, <2>1 DEF ProcType, Applied, ApplyTemplate
  <2>3. faults' \in Nat BY Zenon, <1>2, FaultType DEF ApplyTemplate
  <2>4. host' \in [Resources -> Subs \cup {Absent, Nobody}]
    <3>1. proc.sub \in Subs BY <2>2
    <3>2. host' = host \/ host' = [host EXCEPT ![proc.cur] = NewHost(proc.sub, proc.cur)]
      BY Zenon, <1>2 DEF ApplyTemplate
    <3>3. proc.cur \in Resources => NewHost(proc.sub, proc.cur) \in Subs \cup {Absent, Nobody}
      BY <3>1 DEF NewHost
    <3> QED BY <3>2, <3>3
  <2> QED BY <1>2, <2>2, <2>3, <2>4 DEF ApplyTemplate, Outside
<1>3. CASE ReadStatus
  <2>1. faults' \in Nat BY <1>3, FaultType DEF ReadStatus
  <2>2. \/ proc' = IdleProc
        \/ proc' = [proc EXCEPT !.pc = "create"]
        \/ proc' = [proc EXCEPT !.pc = "prune", !.todo = rec[proc.sub] \ proc.units]
    BY <1>3 DEF ReadStatus, Return, Stale
  <2>3. proc' \in ProcType /\ (proc'.pc # "idle" => proc'.sub \in Subs)
    <3>1. proc.sub \in Subs /\ rec[proc.sub] \in SUBSET Units BY <1>3 DEF ReadStatus
    <3>2. CASE proc' = IdleProc BY <3>2, IdleType
    <3>3. CASE proc' # IdleProc
      <4>1. proc' \in ProcType /\ proc'.sub = proc.sub BY Zenon, <1>0, <2>2, <3>1, <3>3, PhaseUpdate
      <4> QED BY <3>1, <4>1
    <3> QED BY <3>2, <3>3
  <2> QED BY <1>3, <2>1, <2>3 DEF ReadStatus, Outside
<1>4. CASE Prune
  <2>1. PICK u \in proc.todo :
          /\ DeleteDone(proc.sub, u) \/ DeleteError(proc.sub, u, "prune")
          /\ \/ proc' = [proc EXCEPT !.todo = @ \ {u}]
             \/ proc' = [proc EXCEPT !.todo = @ \ {u}, !.units = @ \cup {u}]
    BY Zenon, <1>4 DEF Prune
  <2>2. u \in Units BY <1>0, <2>1
  <2>3. proc' \in ProcType /\ proc'.sub = proc.sub /\ proc.pc = "prune"
    <3>1. proc.pc = "prune" BY <1>4 DEF Prune
    <3> QED BY Zenon, <1>0, <2>1, <2>2, <3>1, UnitUpdate
  <2> QED BY Zenon, <1>4, <2>1, <2>2, <2>3, DeleteEffect DEF Prune, Outside
<1>5. CASE WriteStatus
  <2>1. faults' \in Nat BY <1>5, FaultType DEF WriteStatus
  <2>2. proc.pc # "idle" /\ (proc' = IdleProc \/ proc' = [proc EXCEPT !.pc = "report"])
    BY <1>5 DEF WriteStatus, Return
  <2>3. proc' \in ProcType /\ (proc'.pc # "idle" => proc'.sub \in Subs)
    BY <1>0, <2>2, IdleType DEF ProcType
  <2>4. /\ rec' \in [Subs -> SUBSET Units]
        /\ phase' \in [Subs -> {"none", "Deployed", "Failed"}]
    <3>1. proc.units \in SUBSET Units BY <1>0 DEF ProcType
    <3> QED BY <1>5, <3>1 DEF WriteStatus, Written
  <2> QED BY <1>5, <2>1, <2>3, <2>4 DEF WriteStatus, Outside
<1>6. CASE ReportResult
  <2>1. faults' \in Nat BY <1>6, FaultType DEF ReportResult
  <2>2. report' \in [Subs -> {"none", "deployed", "failed"}] BY <1>6 DEF ReportResult
  <2> QED BY <1>6, <2>1, <2>2, IdleType DEF ReportResult, Return, Outside
<1>7. CASE PurgeRead
  <2>1. faults' \in Nat BY <1>7, FaultType DEF PurgeRead
  <2>2. proc.pc = "purge" /\ (\/ proc' = IdleProc
           \/ proc' = [proc EXCEPT !.pc = "purging", !.list = {}, !.todo = rec[proc.sub]])
    BY <1>7 DEF PurgeRead, Return
  <2>3. proc' \in ProcType /\ (proc'.pc # "idle" => proc'.sub \in Subs)
    <3>1. proc.sub \in Subs /\ rec[proc.sub] \in SUBSET Units BY <2>2
    <3>2. CASE proc' = IdleProc BY <3>2, IdleType
    <3>3. CASE proc' # IdleProc
      <4>1. proc' \in ProcType /\ proc'.sub = proc.sub BY Zenon, <1>0, <2>2, <3>1, <3>3, PhaseUpdate
      <4> QED BY <3>1, <4>1
    <3> QED BY <3>2, <3>3
  <2> QED BY <1>7, <2>1, <2>3 DEF PurgeRead, Outside
<1>8. CASE PurgeOne
  <2>1. PICK u \in proc.todo :
          /\ DeleteDone(proc.sub, u) \/ DeleteError(proc.sub, u, "purge")
          /\ \/ proc' = [proc EXCEPT !.todo = @ \ {u}]
             \/ proc' = [proc EXCEPT !.todo = @ \ {u}, !.failed = @ \cup {u}]
    BY Zenon, <1>8 DEF PurgeOne
  <2>2. u \in Units BY <1>0, <2>1
  <2>3. proc' \in ProcType /\ proc'.sub = proc.sub /\ proc.pc = "purging"
    <3>1. proc.pc = "purging" BY <1>8 DEF PurgeOne
    <3> QED BY Zenon, <1>0, <2>1, <2>2, <3>1, UnitUpdate
  <2> QED BY <1>8, <2>1, <2>2, <2>3, DeleteEffect DEF PurgeOne, Outside
<1>9. CASE PurgeStatus
  <2>1. faults' \in Nat BY Zenon, <1>9, FaultType DEF PurgeStatus
  <2>2. proc.pc # "idle" /\ (\/ proc' = IdleProc \/ proc' = [proc EXCEPT !.pc = "report"]
                             \/ proc' = [proc EXCEPT !.pc = "unreport"])
    BY <1>9 DEF PurgeStatus, Return
  <2>3. proc' \in ProcType /\ (proc'.pc # "idle" => proc'.sub \in Subs)
    BY <1>0, <2>2, IdleType DEF ProcType
  <2>4. /\ rec' \in [Subs -> SUBSET Units]
        /\ phase' \in [Subs -> {"none", "Deployed", "Failed"}]
    BY <1>0, <1>9 DEF PurgeStatus
  <2> QED BY <1>9, <2>1, <2>3, <2>4 DEF PurgeStatus, Outside
<1>10. CASE PurgeReport
  <2>1. faults' \in Nat BY <1>10, FaultType DEF PurgeReport
  <2>2. report' \in [Subs -> {"none", "deployed", "failed"}] BY <1>10 DEF PurgeReport
  <2> QED BY <1>10, <2>1, <2>2, IdleType DEF PurgeReport, Return, Outside
<1> QED BY <1>1, <1>2, <1>3, <1>4, <1>5, <1>6, <1>7, <1>8, <1>9, <1>10 DEF Locked

\* The steps of cleanup keep the types.
LEMMA CleanupType ==
    ASSUME TypeOK, Cleanup
    PROVE  TypeOK'
<1> USE DEF TypeOK
<1>0. clean \in CleanType /\ faults \in Nat /\ Blank \in Units BY DEF Units
<1>1. CASE CleanList
  <2>1. clean' \in CleanType
    BY <1>0, <1>1 DEF CleanList, Round, CleanType
  <2> QED BY <1>1, <2>1 DEF CleanList, InClean
<1>2. CASE CleanPick
  <2>1. faults' \in Nat BY Zenon, <1>2, FaultType DEF CleanPick
  <2>2. \/ clean' = IdleClean
        \/ \E s \in clean.left :
              \/ clean' = [clean EXCEPT !.pc = "units", !.left = @ \ {s}, !.sub = s,
                                        !.todo = clean.snap[s], !.err = "no"]
              \/ clean' = [clean EXCEPT !.left = @ \ {s}]
    BY Zenon, <1>2 DEF CleanPick
  <2>3. clean.left \in SUBSET Subs BY <1>0 DEF CleanType
  <2>4. clean' \in CleanType BY Zenon, <1>0, <2>2, <2>3, IdleType, RoundSubUpdate
  <2> QED BY Zenon, <1>2, <2>1, <2>4 DEF CleanPick, InClean
<1>3. CASE CleanGet
  <2>1. faults' \in Nat BY <1>3, FaultType DEF CleanGet
  <2>2. \E u \in clean.todo :
           \/ clean' = [clean EXCEPT !.pc = "delete", !.cur = u, !.todo = @ \ {u}]
           \/ clean' = [clean EXCEPT !.todo = @ \ {u}]
           \/ clean' = [clean EXCEPT !.todo = @ \ {u}, !.err = "yes"]
    BY Zenon, <1>3 DEF CleanGet
  <2>3. clean.todo \in SUBSET Units BY <1>0 DEF CleanType
  <2>4. clean' \in CleanType BY Zenon, <1>0, <2>2, <2>3, RoundUnitUpdate
  <2> QED BY <1>3, <2>1, <2>4 DEF CleanGet, InClean
<1>4. CASE CleanDelete
  <2>1. faults' \in Nat BY <1>4, FaultType DEF CleanDelete
  <2>2. clean' \in CleanType BY Zenon, <1>0, <1>4, RoundUnitUpdate DEF CleanDelete
  <2>3. host' \in [Resources -> Subs \cup {Absent, Nobody}] BY <1>4 DEF CleanDelete
  <2> QED BY <1>4, <2>1, <2>2, <2>3 DEF CleanDelete, InClean
<1>5. CASE CleanStatus
  <2>1. faults' \in Nat BY <1>5, FaultType DEF CleanStatus
  <2>2. clean' \in CleanType BY Zenon, <1>0, <1>5 DEF CleanStatus, CleanType
  <2>3. /\ rec' \in [Subs -> SUBSET Units]
        /\ phase' \in [Subs -> {"none", "Deployed", "Failed"}]
    BY <1>5 DEF CleanStatus
  <2> QED BY <1>5, <2>1, <2>2, <2>3 DEF CleanStatus, InClean
<1> QED BY <1>1, <1>2, <1>3, <1>4, <1>5 DEF Cleanup

\* Type correctness: objects, records, reports, the lock and cleanup keep
\* their types in every behaviour, with every fault and feature.
THEOREM TypeCorrect == Spec => []TypeOK
<1>1. TypeOK /\ [Next]_vars => TypeOK'
  <2> SUFFICES ASSUME TypeOK, [Next]_vars PROVE TypeOK' OBVIOUS
  <2>1. CASE UNCHANGED vars BY <2>1 DEF vars, TypeOK
  <2>2. CASE Next BY <2>2, OutsideType, LockedType, CleanupType DEF Next
  <2> QED BY <2>1, <2>2
<1> QED BY <1>1, InitType, PTL DEF Spec

-----------------------------------------------------------------------------
(* Records.  The calls that read or delete, and the process itself, can be   *)
(* relied on; applying, overriding, pruning and reporting may still fail.    *)
Dependable == /\ Faults \cap {"get", "purge", "subget", "write"} = {}
              /\ Features \cap {"restart", "cleanup"} = {}

\* What the steps outside the lock leave alone.
LEMMA OutsideRecord ==
    ASSUME TypeOK, RecordInv, Dependable,
           \/ \E s \in Subs : EditSub(s) \/ EditSource(s)
           \/ \E r \in Resources : Foreign(r)
           \/ Restart
           \/ \E s \in Subs : Subscribe(s) \/ Unsubscribe(s) \/ ProcessSubResources(s)
    PROVE  RecordInv'
<1>1. CASE \/ \E s \in Subs : EditSub(s) \/ EditSource(s) \/ Subscribe(s)
  <2>1. UNCHANGED <<host, rec, phase, proc, clean>>
    BY <1>1 DEF EditSub, EditSource, Subscribe
  <2> QED BY <2>1 DEF RecordInv, Owned, Covered, Busy
<1>2. CASE \E r \in Resources : Foreign(r)
  <2>1. UNCHANGED <<rec, phase, proc, clean>> BY <1>2 DEF Foreign
  <2>2. \A s \in Subs : Owned(s)' \subseteq Owned(s)
    BY <1>2, NamesAssumption DEF Foreign, Owned, TypeOK
  <2> QED BY <2>1, <2>2 DEF RecordInv, Covered, Busy
<1>3. CASE Restart BY Zenon, <1>3 DEF Restart, Dependable
<1>4. ASSUME NEW s \in Subs, Unsubscribe(s) \/ ProcessSubResources(s)
      PROVE  RecordInv'
  <2>1. /\ UNCHANGED <<host, rec, phase, clean>> /\ proc.pc = "idle"
        /\ proc'.sub = s /\ proc'.pc \in {"purge", "next"}
    BY SMTT(60), <1>4 DEF Unsubscribe, ProcessSubResources, Outside, Call
  <2>2. \A x \in Subs : Owned(x)' = Owned(x) /\ Owned(x) \subseteq rec[x]
    BY <2>1 DEF RecordInv, Owned, Busy
  <2>3. Busy(s)' => rec[s] \subseteq Covered'
    BY <2>1 DEF Covered
  <2>4. \A x \in Subs : Busy(x)' => x = s BY <2>1 DEF Busy
  <2> QED BY SMTT(60), <2>1, <2>2, <2>3, <2>4 DEF RecordInv
<1> QED BY <1>1, <1>2, <1>3, <1>4

\* A step for subscription s keeps RecordInv when it leaves the others alone
\* and knows, afterwards, where to look for what s hosts.
LEMMA RecordFrame ==
    ASSUME RecordInv, NEW s \in Subs, proc.pc # "idle", proc.sub = s,
           UNCHANGED clean,
           \A x \in Subs \ {s} : /\ Owned(x)' \subseteq Owned(x)
                                 /\ rec'[x] = rec[x] /\ phase'[x] = phase[x],
           phase'[s] = "none" => rec'[s] = {},
           \/ proc'.pc = "idle" /\ Owned(s)' \subseteq rec'[s]
           \/ proc'.sub = s /\ proc'.pc # "idle" /\ Owned(s)' \subseteq Covered',
           proc'.pc = "prune" => phase'[proc'.sub] # "none",
           proc'.pc \in {"prune", "purging"} => proc'.todo \subseteq rec'[proc'.sub]
    PROVE  RecordInv'
<1>1. \A x \in Subs \ {s} : Owned(x)' \subseteq rec'[x] /\ ~Busy(x)'
  BY DEF RecordInv, Busy
<1>2. Owned(s)' \subseteq IF Busy(s)' THEN Covered' ELSE rec'[s]
  BY DEF Busy
<1> QED BY <1>1, <1>2 DEF RecordInv

\* The steps under the lock.
LEMMA LockedRecord ==
    ASSUME TypeOK, RecordInv, Dependable, Locked
    PROVE  RecordInv'
<1> DEFINE s == proc.sub
<1>0. /\ proc.pc # "idle" => s \in Subs
      /\ proc.pc # "idle" => Owned(s) \subseteq Covered
      /\ rec \in [Subs -> SUBSET Units] /\ phase \in [Subs -> {"none", "Deployed", "Failed"}]
      /\ proc \in ProcType /\ host \in [Resources -> Subs \cup {Absent, Nobody}]
  BY DEF TypeOK, RecordInv, Busy
<1>f. ~Fail("get") /\ ~Fail("write") /\ ~Fail("purge") /\ ~Fail("subget")
  BY DEF Dependable, Fail
<1>1. CASE OverrideResource
  <2>1. /\ proc.pc = "next" /\ proc'.sub = s /\ proc'.pc \in {"next", "apply"}
        /\ proc.units \subseteq proc'.units
    BY ZenonT(30), <1>0, <1>1 DEF OverrideResource, ProcType
  <2>2. UNCHANGED <<host, rec, phase, clean>> BY <1>1 DEF OverrideResource, Outside
  <2>3. Covered \subseteq Covered' BY <2>1, <2>2 DEF Covered
  <2> QED BY <1>0, <2>1, <2>2, <2>3, RecordFrame DEF RecordInv, Owned
<1>2. CASE ApplyTemplate
  <2>1. /\ proc.pc = "apply" /\ proc'.sub = s /\ proc'.pc = "next"
        /\ proc'.units = proc.units \cup {proc.cur}
    BY Zenon, <1>0, <1>2 DEF ApplyTemplate, Applied, ProcType
  <2>2. UNCHANGED <<rec, phase, clean>> BY <1>2 DEF ApplyTemplate, Outside
  <2>3. Covered' = Covered \cup {proc.cur} BY <2>1, <2>2 DEF Covered
  <2>4. host' = host \/ host' = [host EXCEPT ![proc.cur] = NewHost(s, proc.cur)]
    BY Zenon, <1>2 DEF ApplyTemplate
  <2>a. \A r \in Resources : host'[r] # host[r] => r = proc.cur /\ host'[r] = s
    BY <1>0, <2>4 DEF NewHost
  <2>5. ASSUME NEW x \in Subs \ {s}, NEW r \in Owned(x)' PROVE r \in Owned(x)
    <3>1. r \in Resources \ Keep /\ host'[r] = x /\ x # s BY <2>5 DEF Owned
    <3>2. host[r] = x BY <2>a, <3>1
    <3> QED BY <3>1, <3>2 DEF Owned
  <2>6. Owned(s)' \subseteq Owned(s) \cup {proc.cur}
    BY <2>1, <2>a DEF Owned
  <2> QED BY <1>0, <2>1, <2>2, <2>3, <2>5, <2>6, RecordFrame DEF RecordInv
<1>3. CASE ReadStatus
  <2>1. /\ proc.pc = "next" /\ UNCHANGED <<host, rec, phase, clean>>
        /\ \/ proc' = [proc EXCEPT !.pc = "create"] /\ phase[s] = "none"
           \/ /\ proc' = [proc EXCEPT !.pc = "prune", !.todo = rec[s] \ proc.units]
              /\ phase[s] # "none"
    BY <1>3, <1>f DEF ReadStatus, Outside, Stale
  <2>2. /\ proc'.sub = s /\ proc'.pc \in {"create", "prune"}
        /\ proc'.pc = "prune" => proc'.todo \subseteq rec[s] /\ phase[s] # "none"
    BY Zenon, <1>0, <2>1 DEF ProcType
  <2>3. Covered \subseteq Covered'
    <3>1. phase[s] = "none" => rec[s] = {} BY <1>0, <2>1 DEF RecordInv
    <3> QED BY ZenonT(60), <1>0, <2>1, <3>1 DEF Covered, ProcType
  <2> QED BY <1>0, <2>1, <2>2, <2>3, RecordFrame DEF RecordInv, Owned
<1>4. CASE Prune
  <2>1. PICK u \in proc.todo :
          \/ DeleteDone(s, u) /\ proc' = [proc EXCEPT !.todo = @ \ {u}]
          \/ /\ DeleteError(s, u, "prune")
             /\ proc' = [proc EXCEPT !.todo = @ \ {u}, !.units = @ \cup {u}]
    BY Zenon, <1>4 DEF Prune
  <2>2. /\ proc.pc = "prune" /\ UNCHANGED <<rec, phase, clean>>
        /\ proc'.pc = "prune" /\ proc'.sub = s /\ proc'.todo = proc.todo \ {u}
        /\ u \in Units
    BY Zenon, <1>0, <1>4, <2>1 DEF Prune, Outside, ProcType
  <2>3. \A r \in Resources : host'[r] # host[r] => r = u /\ host'[r] = Absent
    BY ZenonT(30), <2>1, <2>2, DeleteEffect
  <2>4. \A x \in Subs : Owned(x)' \subseteq Owned(x)
    BY <2>3, NamesAssumption DEF Owned
  <2>5. Owned(s)' \subseteq Covered'
    <3>1. CASE proc' = [proc EXCEPT !.todo = @ \ {u}, !.units = @ \cup {u}]
      <4>1. Covered \subseteq Covered' BY <1>0, <2>2, <3>1 DEF Covered, ProcType
      <4> QED BY <1>0, <2>2, <2>4, <4>1
    <3>2. CASE DeleteDone(s, u) /\ proc' = [proc EXCEPT !.todo = @ \ {u}]
      <4>1. host' = AfterDelete(s, u) BY <1>f, <3>2 DEF DeleteDone
      <4>2. u \notin Owned(s)'
        BY <1>0, <2>2, <4>1, NamesAssumption DEF AfterDelete, Deletes, Owned, Units
      <4>3. Covered \subseteq Covered' \cup {u} BY <1>0, <2>2, <3>2 DEF Covered, ProcType
      <4> QED BY <1>0, <2>2, <2>4, <4>2, <4>3
    <3> QED BY <2>1, <3>1, <3>2
  <2> QED BY Zenon, <1>0, <2>2, <2>4, <2>5, RecordFrame DEF RecordInv
<1>5. CASE WriteStatus
  <2>1. /\ proc.pc \in {"create", "prune"} /\ UNCHANGED <<host, clean>>
        /\ proc.pc = "prune" => proc.todo = {} /\ phase[s] # "none"
        /\ rec' = [rec EXCEPT ![s] = proc.units]
        /\ phase' = [phase EXCEPT ![s] = IF proc.failed = {} THEN "Deployed" ELSE "Failed"]
        /\ proc' = [proc EXCEPT !.pc = "report"]
    BY <1>f, <1>5 DEF WriteStatus, Written, Outside, RecordInv
  <2>2. Covered = proc.units BY Zenon, <2>1 DEF Covered
  <2>3. /\ proc'.pc = "report" /\ proc'.sub = s /\ phase'[s] # "none" /\ rec'[s] = proc.units
        /\ \A x \in Subs \ {s} : rec'[x] = rec[x] /\ phase'[x] = phase[x]
    BY <1>0, <2>1 DEF ProcType
  <2>4. Covered' = rec'[s] BY <2>3 DEF Covered
  <2>5. \A x \in Subs : Owned(x)' = Owned(x) BY <2>1 DEF Owned
  <2> QED BY <1>0, <2>1, <2>2, <2>3, <2>4, <2>5, RecordFrame
<1>6. CASE ReportResult \/ PurgeReport
  <2>1. /\ proc.pc \in {"report", "unreport"} /\ UNCHANGED <<host, rec, phase, clean>>
        /\ proc' = IdleProc
    BY <1>6 DEF ReportResult, PurgeReport, Return, Outside
  <2>2. Covered = rec[s] BY <2>1 DEF Covered
  <2> QED BY Zenon, <1>0, <2>1, <2>2, IdleType, RecordFrame DEF RecordInv, Owned
<1>7. CASE PurgeRead
  <2>1. /\ proc.pc = "purge" /\ UNCHANGED <<host, rec, phase, clean>>
        /\ proc' = [proc EXCEPT !.pc = "purging", !.list = {}, !.todo = rec[s]]
    BY <1>f, <1>7 DEF PurgeRead, Outside
  <2>2. proc'.pc = "purging" /\ proc'.sub = s /\ proc'.todo = rec[s]
    BY <1>0, <2>1 DEF ProcType
  <2>3. Covered = rec[s] /\ Covered' = rec[s] BY Zenon, <2>1, <2>2 DEF Covered
  <2> QED BY <1>0, <2>1, <2>2, <2>3, RecordFrame DEF RecordInv, Owned
<1>8. CASE PurgeOne
  <2>1. PICK u \in proc.todo : DeleteDone(s, u) /\ proc' = [proc EXCEPT !.todo = @ \ {u}]
    BY <1>f, <1>8 DEF PurgeOne, DeleteError
  <2>2. /\ proc.pc = "purging" /\ UNCHANGED <<rec, phase, clean>>
        /\ proc'.pc = "purging" /\ proc'.sub = s /\ proc'.todo = proc.todo \ {u}
        /\ u \in Units
    BY <1>0, <1>8, <2>1 DEF PurgeOne, Outside, ProcType
  <2>3. \A r \in Resources : host'[r] # host[r] => r = u /\ host'[r] = Absent
    BY SMTT(60), <2>1, <2>2, DeleteEffect
  <2>4. \A x \in Subs : Owned(x)' \subseteq Owned(x)
    BY <2>3, NamesAssumption DEF Owned
  <2>5. host' = AfterDelete(s, u) BY <1>f, <2>1 DEF DeleteDone
  <2>6. u \notin Owned(s)'
    BY <1>0, <2>2, <2>5, NamesAssumption DEF AfterDelete, Deletes, Owned, Units
  <2>7. Covered = proc.todo /\ Covered' = proc.todo \ {u} BY <2>2 DEF Covered
  <2> QED BY <1>0, <2>2, <2>4, <2>6, <2>7, RecordFrame DEF RecordInv
<1>9. CASE PurgeStatus
  <2>1. /\ proc.pc = "purging" /\ proc.todo = {} /\ UNCHANGED <<host, clean>>
        /\ rec' = [rec EXCEPT ![s] = {}] /\ phase' = [phase EXCEPT ![s] = "none"]
        /\ proc' = [proc EXCEPT !.pc = "unreport"]
    BY <1>f, <1>9 DEF PurgeStatus, Outside
  <2>2. Covered = {} BY <2>1 DEF Covered
  <2>3. /\ proc'.pc = "unreport" /\ proc'.sub = s /\ rec'[s] = {}
        /\ \A x \in Subs \ {s} : rec'[x] = rec[x] /\ phase'[x] = phase[x]
    BY <1>0, <2>1 DEF ProcType
  <2>4. \A x \in Subs : Owned(x)' = Owned(x) BY <2>1 DEF Owned
  <2> QED BY <1>0, <2>1, <2>2, <2>3, <2>4, RecordFrame
<1> QED BY <1>1, <1>2, <1>3, <1>4, <1>5, <1>6, <1>7, <1>8, <1>9 DEF Locked

\* RecordInv is inductive, relative to the types.
LEMMA NextRecord ==
    ASSUME TypeOK, RecordInv, Dependable, [Next]_vars
    PROVE  RecordInv'
<1>1. CASE UNCHANGED vars BY <1>1 DEF vars, RecordInv, Owned, Covered, Busy
<1>2. CASE Cleanup
  BY <1>2 DEF Cleanup, CleanList, CleanPick, CleanGet, CleanDelete, CleanStatus,
              RecordInv, Dependable
<1>3. CASE Next /\ ~Cleanup BY <1>3, OutsideRecord, LockedRecord DEF Next
<1> QED BY <1>1, <1>2, <1>3

\* The invariant holds in every behaviour.
LEMMA RecordInvariant ==
    ASSUME Dependable
    PROVE  Spec => [](TypeOK /\ RecordInv)
<1>1. Init => RecordInv
  BY NamesAssumption DEF Init, RecordInv, Owned, Busy, IdleProc, IdleClean, Call, Round
<1>2. TypeOK /\ RecordInv /\ [Next]_vars => RecordInv' BY NextRecord
<1> QED BY <1>1, <1>2, TypeCorrect, PTL DEF Spec

\* The invariant that accounts for every hosted object, at each step of the
\* call that holds the lock.
THEOREM RecordsAreComplete ==
    ASSUME Dependable
    PROVE  Spec => []RecordInv
  BY RecordInvariant, PTL

\* No orphans: as long as statuses can be read and written, deletions carried
\* out and the process not killed, whatever a subscription hosts is listed in
\* its SubscriptionStatus or about to be written there.
THEOREM NoOrphans ==
    ASSUME Dependable
    PROVE  Spec => []Accounted
<1>1. TypeOK /\ RecordInv => Accounted
  BY DEF TypeOK, RecordInv, Accounted, Busy, Covered
<1> QED BY <1>1, RecordInvariant, PTL

\* Only the end of an APPLY or DELETE call rewrites a record, and it is the
\* record of the subscription that the call is for.
LEMMA RecordWrites ==
    ASSUME TypeOK, RecordInv, Dependable, [Next]_vars
    PROVE  \/ rec' = rec
           \/ /\ proc'.pc \in {"report", "unreport"} /\ proc'.sub = proc.sub
              /\ \A x \in Subs \ {proc.sub} : rec'[x] = rec[x]
<1>1. CASE UNCHANGED vars BY <1>1 DEF vars
<1>2. CASE Locked
  <2>1. proc \in ProcType /\ rec \in [Subs -> SUBSET Units] BY DEF TypeOK
  <2>2. CASE WriteStatus BY <2>1, <2>2 DEF WriteStatus, ProcType
  <2>3. CASE PurgeStatus BY <2>1, <2>3 DEF PurgeStatus, ProcType
  <2> QED BY Zenon, <1>2, <2>2, <2>3 DEF Locked, OverrideResource, ApplyTemplate, ReadStatus, Prune,
                ReportResult, PurgeRead, PurgeOne, PurgeReport
<1>3. CASE Cleanup
  BY <1>3 DEF Cleanup, CleanList, CleanPick, CleanGet, CleanDelete, CleanStatus, RecordInv,
              Dependable
<1>4. CASE Next /\ ~Locked /\ ~Cleanup
  BY Zenon, <1>4 DEF Next, EditSub, EditSource, Foreign, Restart, Subscribe, Unsubscribe,
              ProcessSubResources
<1> QED BY <1>1, <1>2, <1>3, <1>4

\* What fails to be deleted stays on record: SyncAppsubClusterStatus drops a
\* unit only when the subscription does not host the object any more.
THEOREM RecordsAreKept ==
    ASSUME Dependable
    PROVE  Spec => RecordKept
<1>1. TypeOK /\ RecordInv /\ (TypeOK /\ RecordInv)' /\ [Next]_vars
        => [\A s \in Subs : \A r \in Resources \ Keep :
                r \in rec[s] /\ host'[r] = s => r \in rec'[s]]_vars
  <2> SUFFICES ASSUME TypeOK, RecordInv, TypeOK', RecordInv', [Next]_vars,
                      NEW s \in Subs, NEW r \in Resources \ Keep, r \in rec[s], host'[r] = s
               PROVE  r \in rec'[s]
    BY Zenon
  <2>1. r \in Owned(s)' BY DEF Owned
  <2>2. CASE rec' = rec BY Zenon, <2>2
  <2>3. CASE proc'.pc \in {"report", "unreport"} /\ proc'.sub = s
    <3>1. Covered' = rec'[s] /\ Busy(s)' BY <2>3 DEF Covered, Busy
    <3> QED BY <2>1, <3>1 DEF RecordInv
  <2> QED BY <2>2, <2>3, RecordWrites
<1> QED BY <1>1, RecordInvariant, PTL DEF Spec, RecordKept

-----------------------------------------------------------------------------
\* Without the cleanup goroutine there is no step of cleanup.
LEMMA NoCleanup ==
    ASSUME "cleanup" \notin Features
    PROVE  Spec => [](clean.pc = "idle")
<1>1. Init => clean.pc = "idle" BY DEF Init, IdleClean, Round
<1>2. clean.pc = "idle" /\ [Next]_vars => (clean.pc = "idle")'
  <2> SUFFICES ASSUME clean.pc = "idle", [Next]_vars PROVE (clean.pc = "idle")' OBVIOUS
  <2>1. CASE UNCHANGED vars BY <2>1 DEF vars
  <2>2. CASE Cleanup
    BY <2>2 DEF Cleanup, CleanList, CleanPick, CleanGet, CleanDelete, CleanStatus
  <2>3. CASE Restart BY <2>3 DEF Restart, IdleClean, Round
  <2>4. CASE Locked
    BY Zenon, <2>4 DEF Locked, OverrideResource, ApplyTemplate, ReadStatus, Prune, WriteStatus,
                ReportResult, PurgeRead, PurgeOne, PurgeStatus, PurgeReport, Outside
  <2>5. CASE Next /\ ~Cleanup /\ ~Restart /\ ~Locked
    BY Zenon, <2>5 DEF Next, EditSub, EditSource, Foreign, Subscribe, Unsubscribe,
                ProcessSubResources, Outside
  <2> QED BY <2>1, <2>2, <2>3, <2>4, <2>5
<1> QED BY <1>1, <1>2, PTL DEF Spec

\* Ownership, under every fault and across restarts: an object goes away or
\* changes hands only in a call made for its own subscription, or in one whose
\* cluster-admin reconcile option is "own" (stated without the goroutine that
\* works outside the lock).
THEOREM OwnershipIsKept ==
    ASSUME "cleanup" \notin Features
    PROVE  Spec => NotTaken
<1>1. TypeOK /\ clean.pc = "idle" /\ [Next]_vars
      => [\A r \in Resources : host'[r] # host[r] /\ host[r] # Absent =>
            \/ proc.sub = host[r] /\ proc.pc \in {"prune", "purging"}
            \/ proc.pc = "apply" /\ Option[proc.sub] = "own" /\ host'[r] = proc.sub
            \/ clean.pc = "delete" /\ clean.sub = host[r] /\ r \notin Keep]_vars
  <2> SUFFICES ASSUME TypeOK, clean.pc = "idle", [Next]_vars, NEW r \in Resources,
                      host'[r] # host[r], host[r] # Absent
               PROVE  \/ proc.sub = host[r] /\ proc.pc \in {"prune", "purging"}
                      \/ proc.pc = "apply" /\ Option[proc.sub] = "own" /\ host'[r] = proc.sub
    OBVIOUS
  <2>1. CASE UNCHANGED vars BY Zenon, <2>1 DEF vars
  <2>2. CASE Cleanup
    BY <2>2 DEF Cleanup, CleanList, CleanPick, CleanGet, CleanDelete, CleanStatus
  <2>3. CASE ApplyTemplate
    <3>1. \/ host' = host
          \/ host' = [host EXCEPT ![proc.cur] = NewHost(proc.sub, proc.cur)]
      BY Zenon, <2>3 DEF ApplyTemplate
    <3>2. r = proc.cur /\ host'[r] = NewHost(proc.sub, r) BY <3>1 DEF TypeOK
    <3> QED BY Zenon, <2>3, <3>2 DEF ApplyTemplate, NewHost
  <2>4. CASE Prune \/ PurgeOne
    <3>1. PICK u \in proc.todo, f \in {"prune", "purge"} :
             DeleteDone(proc.sub, u) \/ DeleteError(proc.sub, u, f)
      BY Zenon, <2>4 DEF Prune, PurgeOne
    <3>2. u \in Units BY DEF TypeOK, ProcType
    <3>3. host[r] = proc.sub BY Zenon, <3>1, <3>2, DeleteEffect
    <3> QED BY Zenon, <2>4, <3>3 DEF Prune, PurgeOne
  <2>5. CASE \E x \in Resources : Foreign(x) BY <2>5 DEF Foreign, TypeOK
  <2>6. CASE Next /\ ~Cleanup /\ ~ApplyTemplate /\ ~Prune /\ ~PurgeOne
              /\ ~(\E x \in Resources : Foreign(x))
    BY Zenon, <2>6 DEF Next, EditSub, EditSource, Restart, Subscribe, Unsubscribe, ProcessSubResources,
                Locked, OverrideResource, ReadStatus, WriteStatus, ReportResult, PurgeRead,
                PurgeStatus, PurgeReport
  <2> QED BY <2>1, <2>2, <2>3, <2>4, <2>5, <2>6
<1> QED BY <1>1, TypeCorrect, NoCleanup, PTL DEF Spec, NotTaken
-----------------------------------------------------------------------------
(* Lists.  Where the objects of the list are in the course of a call.        *)
Applying == {"next", "apply", "create", "prune"}
Waiting == IF proc.pc = "next" THEN proc.todo
           ELSE IF proc.pc = "apply" THEN proc.todo \cup {proc.cur} ELSE {}

\* Until a resource has lost its name in a failed override, every object of the
\* list is waiting or among the units, and no unit of the list is pruned.
ListInv ==
    /\ Waiting \subseteq Resources
    /\ proc.pc = "prune" => proc.todo \cap proc.units = {}
    /\ proc.pc = "purging" => proc.list = {}
    /\ proc.pc \in Applying /\ Blank \notin proc.failed
         => proc.list \subseteq Waiting \cup proc.units

\* What a step under the lock makes of its call.
LEMMA CallStep ==
    ASSUME TypeOK, ListInv, Locked
    PROVE  /\ ListInv'
           /\ proc.pc # "idle"
           /\ \/ proc'.pc \notin Applying
              \/ /\ proc.pc \in Applying /\ proc'.sub = proc.sub /\ proc'.list = proc.list
                 /\ proc.failed \subseteq proc'.failed
<1>0. proc \in ProcType /\ Resources \subseteq Units /\ Blank \in Units
      /\ Blank \notin Resources /\ IdleProc.pc = "idle" /\ rec \in [Subs -> SUBSET Units]
  BY Zenon, NamesAssumption DEF TypeOK, Units, IdleProc, Call
<1>i. ASSUME proc' = IdleProc PROVE ListInv' /\ proc'.pc \notin Applying
  BY <1>0, <1>i DEF ListInv, Waiting, Applying
<1>1. CASE OverrideResource
  <2>1. PICK r \in proc.todo :
          \/ proc' = [proc EXCEPT !.pc = "apply", !.cur = r, !.todo = @ \ {r}]
          \/ proc' = [proc EXCEPT !.todo = @ \ {r}, !.units = @ \cup {Blank},
                                  !.failed = @ \cup {Blank}]
    BY Zenon, <1>1 DEF OverrideResource
  <2>2. proc.pc = "next" BY <1>1 DEF OverrideResource
  <2>3. CASE proc' = [proc EXCEPT !.pc = "apply", !.cur = r, !.todo = @ \ {r}]
    <3>1. /\ proc'.pc = "apply" /\ proc'.cur = r /\ proc'.todo = proc.todo \ {r}
          /\ proc'.units = proc.units /\ proc'.failed = proc.failed /\ proc'.list = proc.list
          /\ proc'.sub = proc.sub
      BY <1>0, <2>3 DEF ProcType
    <3>2. Waiting' = Waiting BY <2>1, <2>2, <3>1 DEF Waiting
    <3> QED BY <2>2, <3>1, <3>2 DEF ListInv, Applying
  <2>4. CASE proc' = [proc EXCEPT !.todo = @ \ {r}, !.units = @ \cup {Blank},
                                  !.failed = @ \cup {Blank}]
    <3>1. /\ proc'.pc = "next" /\ proc'.todo = proc.todo \ {r}
          /\ proc'.failed = proc.failed \cup {Blank} /\ proc'.list = proc.list
          /\ proc'.sub = proc.sub
      BY <1>0, <2>2, <2>4 DEF ProcType
    <3>2. Waiting' \subseteq Waiting BY <2>2, <3>1 DEF Waiting
    <3> QED BY <2>2, <3>1, <3>2 DEF ListInv, Applying
  <2> QED BY <2>1, <2>3, <2>4
<1>2. CASE ApplyTemplate
  <2>1. /\ proc.pc = "apply" /\ proc'.pc = "next" /\ proc'.todo = proc.todo
        /\ proc'.units = proc.units \cup {proc.cur} /\ proc.failed \subseteq proc'.failed
        /\ proc'.failed \subseteq proc.failed \cup {proc.cur}
        /\ proc'.list = proc.list /\ proc'.sub = proc.sub
    <3>1. PICK bad \in BOOLEAN : Applied(bad) BY Zenon, <1>2 DEF ApplyTemplate
    <3>2. proc.pc = "apply" BY <1>2 DEF ApplyTemplate
    <3> QED BY <1>0, <3>1, <3>2 DEF Applied, ProcType
  <2>2. Waiting = proc.todo \cup {proc.cur} /\ Waiting' = proc.todo BY <2>1 DEF Waiting
  <2>3. proc.cur # Blank BY <1>0, <2>2 DEF ListInv
  <2> QED BY <2>1, <2>2, <2>3 DEF ListInv, Applying
<1>3. CASE ReadStatus
  <2>1. CASE proc' # IdleProc
    <3>1. /\ proc.pc = "next" /\ proc.todo = {}
          /\ \/ proc' = [proc EXCEPT !.pc = "create"]
             \/ proc' = [proc EXCEPT !.pc = "prune", !.todo = rec[proc.sub] \ proc.units]
      BY <1>3, <2>1 DEF ReadStatus, Return, Stale
    <3>2. /\ proc'.pc \in {"create", "prune"} /\ proc'.units = proc.units
          /\ proc'.failed = proc.failed /\ proc'.list = proc.list /\ proc'.sub = proc.sub
          /\ proc'.pc = "prune" => proc'.todo = rec[proc.sub] \ proc.units
      BY Zenon, <1>0, <3>1 DEF ProcType
    <3>3. Waiting = {} /\ Waiting' = {} BY <3>1, <3>2 DEF Waiting
    <3> QED BY <3>1, <3>2, <3>3 DEF ListInv, Applying
  <2> QED BY <1>3, <1>i, <2>1 DEF ReadStatus
<1>4. CASE Prune
  <2>1. PICK u \in proc.todo :
          \/ proc' = [proc EXCEPT !.todo = @ \ {u}]
          \/ proc' = [proc EXCEPT !.todo = @ \ {u}, !.units = @ \cup {u}]
    BY Zenon, <1>4 DEF Prune
  <2>2. proc.pc = "prune" BY <1>4 DEF Prune
  <2>3. /\ proc'.pc = "prune" /\ proc'.todo = proc.todo \ {u}
        /\ proc.units \subseteq proc'.units /\ proc'.units \subseteq proc.units \cup {u}
        /\ proc'.failed = proc.failed /\ proc'.list = proc.list /\ proc'.sub = proc.sub
    BY Zenon, <1>0, <2>1, <2>2 DEF ProcType
  <2>4. Waiting = {} /\ Waiting' = {} BY <2>2, <2>3 DEF Waiting
  <2> QED BY <2>2, <2>3, <2>4 DEF ListInv, Applying
<1>5. CASE WriteStatus \/ PurgeStatus \/ ReportResult \/ PurgeReport
  <2>1. /\ proc.pc # "idle"
        /\ \/ proc' = IdleProc \/ proc' = [proc EXCEPT !.pc = "report"]
           \/ proc' = [proc EXCEPT !.pc = "unreport"]
    BY <1>5 DEF WriteStatus, PurgeStatus, ReportResult, PurgeReport, Return
  <2>2. CASE proc' # IdleProc
    <3>1. proc'.pc \in {"report", "unreport"} BY <1>0, <2>1, <2>2 DEF ProcType
    <3> QED BY <2>1, <3>1 DEF ListInv, Waiting, Applying
  <2> QED BY <1>i, <2>1, <2>2
<1>6. CASE PurgeRead
  <2>1. CASE proc' # IdleProc
    <3>1. proc' = [proc EXCEPT !.pc = "purging", !.list = {}, !.todo = rec[proc.sub]]
      BY <1>6, <2>1 DEF PurgeRead, Return
    <3>2. proc'.pc = "purging" /\ proc'.list = {} BY <1>0, <3>1 DEF ProcType
    <3> QED BY <1>6, <3>2 DEF PurgeRead, ListInv, Waiting, Applying
  <2> QED BY <1>6, <1>i, <2>1 DEF PurgeRead
<1>7. CASE PurgeOne
  <2>1. \E u \in proc.todo : \/ proc' = [proc EXCEPT !.todo = @ \ {u}]
                            \/ proc' = [proc EXCEPT !.todo = @ \ {u}, !.failed = @ \cup {u}]
    BY Zenon, <1>7 DEF PurgeOne
  <2>2. proc.pc = "purging" BY <1>7 DEF PurgeOne
  <2>3. proc'.pc = "purging" /\ proc'.list = proc.list BY Zenon, <1>0, <2>1, <2>2 DEF ProcType
  <2> QED BY <2>2, <2>3 DEF ListInv, Waiting, Applying
<1> QED BY <1>1, <1>2, <1>3, <1>4, <1>5, <1>6, <1>7 DEF Locked

\* Outside the lock a call is begun, forgotten in a restart, or left alone.
LEMMA CallBegins ==
    ASSUME TypeOK, [Next]_vars, ~Locked
    PROVE  \/ proc' = proc
           \/ proc' = IdleProc
           \/ /\ proc.pc = "idle"
              /\ \E s \in Subs : \/ item[s] = "held" /\ proc' = Call(s, want[s], "next") /\ sub' = sub
                                 \/ proc' = Call(s, {}, "purge")
<1>1. CASE UNCHANGED vars BY <1>1 DEF vars
<1>2. CASE Cleanup
  BY Zenon, <1>2 DEF Cleanup, CleanList, CleanPick, CleanGet, CleanDelete, CleanStatus, InClean
<1>3. CASE Next /\ ~Cleanup
  BY Zenon, <1>3 DEF Next, EditSub, EditSource, Foreign, Restart, Subscribe, Unsubscribe,
              ProcessSubResources, Outside
<1> QED BY <1>1, <1>2, <1>3

\* ListInv holds in every behaviour, whatever fails.
LEMMA ListInvariant == Spec => [](TypeOK /\ ListInv)
<1>1. Init => ListInv
  BY DEF Init, ListInv, Waiting, Applying, IdleProc, Call
<1>2. TypeOK /\ ListInv /\ [Next]_vars => ListInv'
  <2> SUFFICES ASSUME TypeOK, ListInv, [Next]_vars, ~Locked PROVE ListInv' BY CallStep
  <2>1. CASE proc' = proc BY <2>1 DEF ListInv, Waiting
  <2>2. CASE proc' = IdleProc BY Zenon, <2>2 DEF ListInv, Waiting, Applying, IdleProc, Call
  <2>3. ASSUME NEW s \in Subs, proc' = Call(s, want[s], "next") \/ proc' = Call(s, {}, "purge")
        PROVE  ListInv'
    <3>1. want[s] \subseteq Resources BY Zenon DEF TypeOK
    <3> QED BY SMTT(60), <2>3, <3>1 DEF ListInv, Waiting, Applying, Call
  <2> QED BY <2>1, <2>2, <2>3, CallBegins
<1> QED BY <1>1, <1>2, TypeCorrect, PTL DEF Spec

\* What changes an object while cleanup rests.
LEMMA HostStep ==
    ASSUME TypeOK, clean.pc = "idle", [Next]_vars, NEW r \in Resources, host'[r] # host[r]
    PROVE  \/ ApplyTemplate /\ r = proc.cur
           \/ Prune /\ r \in proc.todo
           \/ PurgeOne
           \/ host[r] = Absent /\ proc' = proc /\ sub' = sub
<1>1. CASE UNCHANGED vars BY <1>1 DEF vars
<1>2. CASE Cleanup
  BY <1>2 DEF Cleanup, CleanList, CleanPick, CleanGet, CleanDelete, CleanStatus
<1>3. CASE ApplyTemplate
  <2>1. host' = host \/ host' = [host EXCEPT ![proc.cur] = NewHost(proc.sub, proc.cur)]
    BY Zenon, <1>3 DEF ApplyTemplate
  <2> QED BY <1>3, <2>1 DEF TypeOK
<1>4. CASE Prune
  <2>1. PICK u \in proc.todo : DeleteDone(proc.sub, u) \/ DeleteError(proc.sub, u, "prune")
    BY <1>4 DEF Prune
  <2>2. u \in Units BY DEF TypeOK, ProcType
  <2>3. r = u BY Zenon, <2>1, <2>2, DeleteEffect
  <2> QED BY <1>4, <2>3
<1>5. CASE \E x \in Resources : Foreign(x) BY <1>5 DEF Foreign, TypeOK
<1>6. CASE Next /\ ~Cleanup /\ ~ApplyTemplate /\ ~Prune /\ ~PurgeOne
            /\ ~(\E x \in Resources : Foreign(x))
  BY Zenon, <1>6 DEF Next, EditSub, EditSource, Restart, Subscribe, Unsubscribe, ProcessSubResources,
              Locked, OverrideResource, ReadStatus, WriteStatus, ReportResult, PurgeRead,
              PurgeStatus, PurgeReport
<1> QED BY <1>1, <1>2, <1>3, <1>4, <1>5, <1>6

\* As long as nothing has failed the listed units are on the cluster.
PresentInv ==
    /\ \A s \in Subs : sub[s] # "paused"
    /\ proc.pc \in Applying /\ proc.failed = {}
         => \A r \in proc.list \cap proc.units : host[r] # Absent

\* A step keeps PresentInv where nobody pauses and cleanup rests.
LEMMA PresentStep ==
    ASSUME "pause" \notin Features, TypeOK, ListInv, PresentInv, clean.pc = "idle", [Next]_vars
    PROVE  PresentInv'
<1>0. proc \in ProcType /\ proc.list \subseteq Resources
      /\ host \in [Resources -> Subs \cup {Absent, Nobody}]
  BY DEF TypeOK, ProcType
<1>1. \A s \in Subs : sub'[s] # "paused"
  <2>1. CASE \E s \in Subs : EditSub(s) BY <2>1 DEF EditSub, PresentInv, TypeOK
  <2>2. CASE sub' = sub BY <2>2 DEF PresentInv
  <2>3. CASE [Next]_vars /\ ~(\E s \in Subs : EditSub(s))
    BY ZenonT(60), <2>2, <2>3 DEF vars, Next, EditSource, Foreign, Restart, Subscribe, Unsubscribe,
      ProcessSubResources, Locked, OverrideResource, ApplyTemplate, ReadStatus, Prune,
      WriteStatus, ReportResult, PurgeRead, PurgeOne, PurgeStatus, PurgeReport, Outside,
      Cleanup, CleanList, CleanPick, CleanGet, CleanDelete, CleanStatus, InClean
  <2> QED BY Zenon, <2>1, <2>3
<1>2. ASSUME proc'.pc \in Applying, proc'.failed = {}, NEW r \in proc'.list \cap proc'.units
      PROVE  host'[r] # Absent
  <2>1. CASE ~Locked
    <3>1. proc' = proc
      BY <1>2, <2>1, CallBegins DEF IdleProc, Call, Applying
    <3>2. host[r] # Absent BY <1>2, <3>1 DEF PresentInv
    <3> QED BY Zenon, <1>0, <1>2, <2>1, <3>1, <3>2, HostStep DEF Locked
  <2>2. CASE Locked
    <3>1. /\ proc.pc \in Applying /\ proc'.list = proc.list /\ proc.failed = {} /\ r \in Resources
          /\ Blank \notin proc.failed
      BY <1>0, <1>2, <2>2, CallStep
    <3>2. CASE ApplyTemplate
      <4>1. PICK bad \in BOOLEAN :
              /\ Applied(bad)
              /\ ~bad => sub[proc.sub] = "paused"
                      \/ host' = [host EXCEPT ![proc.cur] = NewHost(proc.sub, proc.cur)]
        BY Zenon, <3>2 DEF ApplyTemplate
      <4>2. /\ proc.pc = "apply" /\ proc.sub \in Subs
            /\ proc'.units = proc.units \cup {proc.cur} /\ (bad => proc.cur \in proc'.failed)
        BY Zenon, <1>0, <3>2, <4>1 DEF ApplyTemplate, Applied, ProcType, TypeOK
      <4>3. host' = [host EXCEPT ![proc.cur] = NewHost(proc.sub, proc.cur)]
        BY <1>2, <4>1, <4>2 DEF PresentInv
      <4>4. CASE r = proc.cur
        <5>1. NewHost(proc.sub, r) # Absent BY Zenon, <4>2, NamesAssumption DEF NewHost
        <5> QED BY <1>0, <3>1, <4>3, <4>4, <5>1
      <4>5. CASE r # proc.cur
        BY Zenon, <1>0, <1>2, <3>1, <4>2, <4>3, <4>5 DEF PresentInv
      <4> QED BY <4>4, <4>5
    <3>3. CASE Prune
      <4>1. PICK u \in proc.todo :
              \/ proc' = [proc EXCEPT !.todo = @ \ {u}]
              \/ proc' = [proc EXCEPT !.todo = @ \ {u}, !.units = @ \cup {u}]
        BY Zenon, <3>3 DEF Prune
      <4>2. proc.pc = "prune" BY <3>3 DEF Prune
      <4>3. Waiting = {} BY <4>2 DEF Waiting
      <4>4. r \in proc.units /\ r \notin proc.todo
        BY <1>2, <3>1, <4>2, <4>3 DEF ListInv
      <4>5. host[r] # Absent BY <1>2, <3>1, <4>4 DEF PresentInv
      <4>6. ~ApplyTemplate /\ ~PurgeOne BY <4>2 DEF ApplyTemplate, PurgeOne
      <4> QED BY <3>1, <4>4, <4>5, <4>6, HostStep
    <3>4. CASE ~ApplyTemplate /\ ~Prune
      <4>1. ~PurgeOne BY Zenon, <3>1 DEF PurgeOne, Applying
      <4>2. r \in proc.units
        <5>1. CASE OverrideResource
          <6>1. PICK x \in proc.todo :
              \/ proc' = [proc EXCEPT !.pc = "apply", !.cur = x, !.todo = @ \ {x}]
              \/ proc' = [proc EXCEPT !.todo = @ \ {x}, !.units = @ \cup {Blank},
                                      !.failed = @ \cup {Blank}]
            BY Zenon, <5>1 DEF OverrideResource
          <6> QED BY ZenonT(60), <1>0, <1>2, <6>1 DEF ProcType
        <5>2. CASE ReadStatus
          <6>1. \/ proc' = IdleProc
                \/ proc' = [proc EXCEPT !.pc = "create"]
                \/ proc' = [proc EXCEPT !.pc = "prune", !.todo = Stale]
            BY <5>2 DEF ReadStatus, Return
          <6>2. proc' # IdleProc BY <1>2 DEF IdleProc, Call, Applying
          <6> QED BY Zenon, <1>0, <1>2, <6>1, <6>2 DEF ProcType, Applying
        <5>3. CASE WriteStatus \/ PurgeStatus \/ ReportResult \/ PurgeReport \/ PurgeRead
          <6>1. \/ proc' = IdleProc
                \/ proc' = [proc EXCEPT !.pc = "report"]
                \/ proc' = [proc EXCEPT !.pc = "unreport"]
                \/ proc' = [proc EXCEPT !.pc = "purging", !.list = {}, !.todo = rec[proc.sub]]
            BY <5>3 DEF WriteStatus, PurgeStatus, ReportResult, PurgeReport, PurgeRead, Return
          <6>2. proc' # IdleProc BY <1>2 DEF IdleProc, Call, Applying
          <6> QED BY Zenon, <1>0, <1>2, <6>1, <6>2 DEF ProcType, Applying
        <5> QED BY <2>2, <3>4, <4>1, <5>1, <5>2, <5>3 DEF Locked
      <4>3. host[r] # Absent BY <1>2, <3>1, <4>2 DEF PresentInv
      <4> QED BY <3>1, <3>4, <4>1, <4>3, HostStep
    <3> QED BY <3>2, <3>3, <3>4
  <2> QED BY <2>1, <2>2
<1> QED BY <1>1, <1>2 DEF PresentInv

\* A SubscriptionStatus that says Deployed tells the truth about every object
\* of the list it was written for, where nobody pauses and without the goroutine
\* that works outside the lock, whatever fails and whenever the pod restarts.
THEOREM DeployedIsTrue ==
    ASSUME "pause" \notin Features, "cleanup" \notin Features
    PROVE  Spec => DeployedIsThere
<1>1. Init => PresentInv
  BY DEF Init, PresentInv, Applying, IdleProc, Call
<1>2. TypeOK /\ ListInv /\ PresentInv /\ clean.pc = "idle" /\ [Next]_vars => PresentInv'
  BY PresentStep
<1>3. TypeOK /\ ListInv /\ PresentInv /\ [Next]_vars
      => [\A s \in Subs : proc.sub = s /\ proc'.pc = "report" /\ proc.pc # "report"
                       /\ Exists(s) /\ phase'[s] = "Deployed"
            => \A r \in proc.list : host[r] # Absent]_vars
  <2> SUFFICES ASSUME TypeOK, ListInv, PresentInv, [Next]_vars, NEW s \in Subs, proc.sub = s,
                      proc'.pc = "report", proc.pc # "report", phase'[s] = "Deployed",
                      NEW r \in proc.list
               PROVE  host[r] # Absent
    BY Zenon
  <2>0. proc \in ProcType /\ phase \in [Subs -> {"none", "Deployed", "Failed"}] BY DEF TypeOK
  <2>1. Locked BY CallBegins DEF IdleProc, Call
  <2>2. CASE WriteStatus
    <3>1. /\ proc.pc = "create" \/ (proc.pc = "prune" /\ proc.todo = {})
          /\ \/ phase' = [phase EXCEPT ![proc.sub] = IF proc.failed = {} THEN "Deployed" ELSE "Failed"]
             \/ proc' = IdleProc
      BY Zenon, <2>2 DEF WriteStatus, Return
    <3>2. proc.failed = {} BY <2>0, <3>1 DEF IdleProc, Call
    <3>3. Waiting = {} BY Zenon, <3>1 DEF Waiting
    <3>4. r \in proc.units BY <3>1, <3>2, <3>3 DEF ListInv, Applying
    <3> QED BY <3>1, <3>2, <3>4 DEF PresentInv, Applying
  <2>3. CASE PurgeStatus BY <2>3 DEF PurgeStatus, ListInv
  <2>4. CASE ~WriteStatus /\ ~PurgeStatus
    <3>1. CASE ReportResult \/ PurgeReport \/ ReadStatus \/ PurgeRead
      <4>1. \/ proc' = IdleProc
            \/ proc' = [proc EXCEPT !.pc = "create"]
            \/ proc' = [proc EXCEPT !.pc = "prune", !.todo = Stale]
            \/ proc' = [proc EXCEPT !.pc = "purging", !.list = {}, !.todo = rec[proc.sub]]
        BY Zenon, <3>1 DEF ReportResult, PurgeReport, ReadStatus, PurgeRead, Return
      <4>2. proc' # IdleProc BY DEF IdleProc, Call
      <4> QED BY Zenon, <2>0, <4>1, <4>2 DEF ProcType
    <3>2. CASE OverrideResource \/ ApplyTemplate
      <4>1. proc'.pc \in {"next", "apply"}
        BY Zenon, <2>0, <3>2 DEF OverrideResource, ApplyTemplate, Applied, ProcType
      <4> QED BY <4>1
    <3>3. CASE Prune \/ PurgeOne
      <4>1. proc'.pc = proc.pc BY Zenon, <2>0, <3>3 DEF Prune, PurgeOne, ProcType
      <4> QED BY <4>1
    <3> QED BY <2>1, <2>4, <3>1, <3>2, <3>3 DEF Locked
  <2> QED BY <2>2, <2>3, <2>4
<1> QED BY <1>1, <1>2, <1>3, ListInvariant, NoCleanup, PTL DEF Spec, DeployedIsThere

\* A call begins for a Subscription that has existed, and a resource loses its
\* name only when that Subscription is gone.
SubInv ==
    /\ \A s \in Subs : item[s] = "held" => sub[s] # "none"
    /\ proc.pc \in Applying => sub[proc.sub] # "none"
    /\ proc.pc \in Applying /\ Exists(proc.sub) => Blank \notin proc.failed

\* A step keeps SubInv where reads of the Subscription do not fail and none is
\* created again.
LEMMA SubStep ==
    ASSUME "override" \notin Faults, "recreate" \notin Features, TypeOK, ListInv, SubInv, [Next]_vars
    PROVE  SubInv'
<1>0. /\ proc \in ProcType /\ (proc.pc \in Applying => proc.sub \in Subs)
      /\ sub \in [Subs -> {"none", "active", "paused", "deleted"}]
  BY Zenon DEF TypeOK, Applying
<1>1. CASE \E s \in Subs : EditSub(s)
  <2>1. PICK s \in Subs : EditSub(s) BY <1>1
  <2>2. item' = item /\ proc' = proc BY <2>1 DEF EditSub
  <2>3. \A x \in Subs : sub[x] # "none" => sub'[x] # "none" /\ (Exists(x)' => Exists(x))
    BY <1>0, <2>1 DEF EditSub, Exists
  <2> QED BY <1>0, <2>2, <2>3 DEF SubInv
<1>2. CASE ~(\E s \in Subs : EditSub(s))
  <2>1. sub' = sub
    BY Zenon, <1>2 DEF vars, Next, EditSource, Foreign, Restart, Subscribe, Unsubscribe,
      ProcessSubResources, Locked, OverrideResource, ApplyTemplate, ReadStatus, Prune,
      WriteStatus, ReportResult, PurgeRead, PurgeOne, PurgeStatus, PurgeReport, Outside,
      Cleanup, CleanList, CleanPick, CleanGet, CleanDelete, CleanStatus, InClean
  <2>2. \A s \in Subs : item'[s] = "held" => sub'[s] # "none"
    <3>1. CASE \E s \in Subs : Subscribe(s) BY <2>1, <3>1 DEF Subscribe, Exists, SubInv, TypeOK
    <3>2. CASE \E s \in Subs : Unsubscribe(s) BY ZenonT(60), <2>1, <3>2 DEF Unsubscribe, SubInv, TypeOK
    <3>3. CASE Restart BY <3>3 DEF Restart
    <3>4. CASE item' = item BY <2>1, <3>4 DEF SubInv
    <3>5. CASE ~(\E s \in Subs : Subscribe(s) \/ Unsubscribe(s)) /\ ~Restart
      BY ZenonT(60), <1>2, <3>4, <3>5 DEF vars, Next, EditSource, Foreign,
        ProcessSubResources, Locked, OverrideResource, ApplyTemplate, ReadStatus, Prune,
        WriteStatus, ReportResult, PurgeRead, PurgeOne, PurgeStatus, PurgeReport, Outside,
        Cleanup, CleanList, CleanPick, CleanGet, CleanDelete, CleanStatus, InClean
    <3> QED BY ZenonT(60), <3>1, <3>2, <3>3, <3>5
  <2>3. ASSUME proc'.pc \in Applying
        PROVE  sub[proc'.sub] # "none" /\ (Exists(proc'.sub) => Blank \notin proc'.failed)
    <3>1. CASE ~Locked
      <4>1. CASE proc' = proc BY Zenon, <2>3, <4>1 DEF SubInv
      <4>2. CASE \E s \in Subs : item[s] = "held" /\ proc' = Call(s, want[s], "next")
        BY SMTT(60), <4>2 DEF SubInv, Call
      <4> QED BY SMTT(60), <2>3, <3>1, <4>1, <4>2, CallBegins DEF IdleProc, Call, Applying
    <3>2. CASE Locked
      <4>1. proc.pc \in Applying /\ proc'.sub = proc.sub BY Zenon, <2>3, <3>2, CallStep
      <4>2. sub[proc.sub] # "none" BY <4>1 DEF SubInv
      <4>3. ASSUME Exists(proc.sub) PROVE Blank \notin proc'.failed
        <5>1. Blank \notin proc.failed BY <4>1, <4>3 DEF SubInv
        <5>2. CASE OverrideResource
          <6>1. \E r \in proc.todo :
                  proc' = [proc EXCEPT !.pc = "apply", !.cur = r, !.todo = @ \ {r}]
            BY Zenon, <4>3, <5>2 DEF OverrideResource, Fail
          <6> QED BY <1>0, <5>1, <6>1 DEF ProcType
        <5>3. CASE ApplyTemplate
          <6>1. PICK bad \in BOOLEAN : Applied(bad) BY Zenon, <5>3 DEF ApplyTemplate
          <6>2. proc'.failed \subseteq proc.failed \cup {proc.cur}
            BY Zenon, <1>0, <6>1 DEF Applied, ProcType
          <6>3. proc.pc = "apply" BY <5>3 DEF ApplyTemplate
          <6>4. proc.cur # Blank BY Zenon, <6>3, NamesAssumption DEF ListInv, Waiting
          <6> QED BY <5>1, <6>2, <6>4
        <5>4. CASE ~OverrideResource /\ ~ApplyTemplate
          <6>1. ~PurgeOne BY Zenon, <4>1 DEF PurgeOne, Applying
          <6>2. proc' # IdleProc BY <2>3 DEF IdleProc, Call, Applying
          <6>3. proc'.failed = proc.failed
            <7>1. CASE Prune BY Zenon, <1>0, <7>1 DEF Prune, ProcType
            <7>2. CASE ~Prune
              <8>1. \/ proc' = [proc EXCEPT !.pc = "create"]
                    \/ proc' = [proc EXCEPT !.pc = "prune", !.todo = Stale]
                    \/ proc' = [proc EXCEPT !.pc = "report"]
                    \/ proc' = [proc EXCEPT !.pc = "unreport"]
                    \/ proc' = [proc EXCEPT !.pc = "purging", !.list = {}, !.todo = rec[proc.sub]]
                BY <3>2, <5>4, <6>1, <6>2, <7>2 DEF Locked, ReadStatus, WriteStatus, ReportResult,
                   PurgeRead, PurgeStatus, PurgeReport, Return
              <8> QED BY Zenon, <1>0, <8>1 DEF ProcType
            <7> QED BY <7>1, <7>2
          <6> QED BY <5>1, <6>3
        <5> QED BY <5>2, <5>3, <5>4
      <4> QED BY <4>1, <4>2, <4>3
    <3> QED BY Zenon, <3>1, <3>2
  <2> QED BY Zenon, <2>1, <2>2, <2>3 DEF SubInv, Exists
<1> QED BY <1>1, <1>2

\* The prune of a list never deletes what is on it, for every schedule and
\* fault but a failed read of the Subscription, which makes a resource lose its
\* name, and where a deleted Subscription is not created again meanwhile.
THEOREM ListedIsKept ==
    ASSUME "override" \notin Faults, Features \cap {"recreate", "cleanup"} = {}
    PROVE  Spec => KeepsListed
<1>1. Init => SubInv
  BY DEF Init, SubInv, Applying, IdleProc, Call
<1>2. TypeOK /\ ListInv /\ SubInv /\ [Next]_vars => SubInv'
  BY Zenon, SubStep
<1>3. TypeOK /\ ListInv /\ SubInv /\ clean.pc = "idle" /\ [Next]_vars
      => [proc.pc = "prune" /\ Exists(proc.sub)
            => \A r \in proc.list : host[r] = proc.sub => host'[r] = proc.sub]_vars
  <2> SUFFICES ASSUME TypeOK, ListInv, SubInv, clean.pc = "idle", [Next]_vars, proc.pc = "prune",
                      Exists(proc.sub), NEW r \in proc.list, host[r] = proc.sub,
                      host'[r] # host[r]
               PROVE  FALSE
    BY Zenon
  <2>1. r \in Resources /\ proc.sub \in Subs BY DEF TypeOK, ProcType
  <2>2. Blank \notin proc.failed BY Zenon DEF SubInv, Applying
  <2>3. r \in proc.units /\ r \notin proc.todo BY <2>2 DEF ListInv, Waiting, Applying
  <2>4. ~ApplyTemplate /\ ~PurgeOne BY DEF ApplyTemplate, PurgeOne
  <2> QED BY <2>1, <2>3, <2>4, HostStep, NamesAssumption
<1>4. "cleanup" \notin Features /\ "recreate" \notin Features OBVIOUS
<1> QED BY <1>1, <1>2, <1>3, <1>4, ListInvariant, NoCleanup, PTL DEF Spec, KeepsListed
=============================================================================
