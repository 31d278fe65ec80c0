-------------------------- MODULE ReleaseLifecycle --------------------------
(***************************************************************************)
(* What the HelmRelease controller promises the owner of a HelmRelease,     *)
(* whatever charts, versions, failures and restarts lie behind it: what the *)
(* status says is deployed is in the cluster, it is taken away only when    *)
(* the HelmRelease is deleted or every object of another version is in      *)
(* place, and a HelmRelease that is deleted is let go when none of it is    *)
(* left.  A HelmRelease whose finalizer another writer removed promises     *)
(* nothing any more, and one that gave up an interrupted upgrade does not   *)
(* know what is there until every object of a version is in place again.    *)
(***************************************************************************)
CONSTANTS
    Pkgs,       \* the packages, one HelmRelease each
    Keep,       \* the objects with the resource policy "keep"
    Manifests   \* what the versions of a chart render to

VARIABLES
    phase,   \* phase[p]: "none", "open" (no finalizer), "held" or "leaving" (deleted, held)
    dep,     \* dep[p]: the manifest in Status.DeployedRelease, {} when there is none
    objs,    \* objs[p]: the objects of p in the cluster, <<name, version>>
    lost     \* <<p, "finalizer">>: another writer removed it; <<p, "upgrade">>: given up

vars == <<phase, dep, objs, lost>>

Names(m) == {x[1] : x \in m}
Removed(p) == Names(objs[p]) \ Names(objs'[p])
Only(f, p) == \A q \in Pkgs \ {p} : f'[q] = f[q]

Lost(p) == \E why \in {"finalizer", "upgrade"} : <<p, why>> \in lost

Init ==
    /\ phase = [p \in Pkgs |-> "none"] /\ dep = [p \in Pkgs |-> {}]
    /\ objs = [p \in Pkgs |-> {}] /\ lost = {}

\* The HelmRelease is created, with the finalizer of the one it was made from.
Ask(p) ==
    /\ phase[p] = "none" /\ phase'[p] \in {"open", "held"} /\ dep'[p] = {}
    /\ UNCHANGED <<objs, lost>>

Hold(p) ==
    /\ phase[p] = "open" /\ phase'[p] = "held"
    /\ lost' \in {lost, lost \cup {<<p, "upgrade">>}}
    /\ UNCHANGED <<dep, objs>>

\* An update written over the finalizer.
Overwrite(p) ==
    /\ \/ phase[p] = "held" /\ phase'[p] = "open" /\ UNCHANGED dep
       \/ phase[p] = "leaving" /\ phase'[p] = "none" /\ dep'[p] = {}
    /\ lost' = lost \cup {<<p, "finalizer">>}
    /\ UNCHANGED objs

GiveUp(p) ==
    /\ lost' = lost \cup {<<p, "upgrade">>}
    /\ UNCHANGED <<phase, dep, objs>>

\* Any of them are deleted; one without a finalizer is gone at once.
Withdraw ==
    /\ \A p \in Pkgs :
         \/ phase'[p] = phase[p] /\ dep'[p] = dep[p]
         \/ phase[p] = "held" /\ phase'[p] = "leaving" /\ dep'[p] = dep[p]
         \/ phase[p] = "open" /\ phase'[p] = "none" /\ dep'[p] = {}
    /\ UNCHANGED <<objs, lost>>

\* Objects are created and changed, and none is removed; or every object of a
\* version is in place and objects that are not its own are removed.
Rendered(p) == objs'[p] \subseteq objs[p] \cup UNION Manifests
Deploy(p) ==
    /\ Rendered(p)
    /\ \/ Removed(p) = {} /\ UNCHANGED lost
       \/ /\ \E m \in Manifests : m \subseteq objs'[p] /\ Removed(p) \cap Names(m) = {}
          /\ lost' = lost \ {<<p, "upgrade">>}
    /\ UNCHANGED <<phase, dep>>

\* The status claims what is there, what has just been reapplied included.
Claim(p) ==
    /\ phase[p] # "none"
    /\ Rendered(p) /\ Removed(p) = {}
    /\ Names(dep'[p]) \subseteq Names(objs'[p]) \/ Lost(p)
    /\ UNCHANGED <<phase, lost>>

\* What is claimed stays until the HelmRelease leaves.
Shrink(p) ==
    /\ objs'[p] \subseteq objs[p]
    /\ \/ phase[p] \in {"none", "leaving"}
       \/ Removed(p) \cap Names(dep[p]) = {}
       \/ <<p, "finalizer">> \in lost
    /\ UNCHANGED <<phase, dep, lost>>

Drop(p) ==
    /\ phase[p] = "leaving" /\ phase'[p] = "none" /\ dep'[p] = {}
    /\ Names(dep[p]) \cap Names(objs[p]) \subseteq Keep \/ <<p, "finalizer">> \in lost
    /\ UNCHANGED <<objs, lost>>

Next ==
    \/ Withdraw
    \/ \E p \in Pkgs :
         /\ Only(phase, p) /\ Only(dep, p) /\ Only(objs, p)
         /\ \/ Ask(p) \/ Hold(p) \/ Overwrite(p) \/ GiveUp(p)
            \/ Deploy(p) \/ Claim(p) \/ Shrink(p) \/ Drop(p)

Spec == Init /\ [][Next]_vars
=============================================================================
