--------------------------- MODULE MCHelmSubscriber ---------------------------
(* Three versions of a chart: the second drops an object to keep and brings  *)
(* a CRD.  The worlds differ in what can go wrong and in what is edited.     *)
EXTENDS HelmSubscriber, TLC

MCChart == 1 :> {"app", "claim"} @@ 2 :> {"app", "crd"} @@ 3 :> {"app"}

Everything == [name |-> "any", versions |-> Versions]
Repo(ps, qs) == {"p" :> vs @@ "q" :> ws : vs \in ps, ws \in qs}

\* One release, upgrades and downgrades, and the failures of Helm.
Plain == [admin |-> "yes", mch |-> "no", watch |-> "no", first |-> "object",
          indexes |-> Repo({{1}, {2}}, {{}}), filters |-> {Everything},
          edits |-> {"index", "delete"}, maxEdits |-> 2,
          faults |-> {"sync", "install", "rollback", "upgrade", "uninstall", "linger",
                      "status", "restart"}, maxFaults |-> 1]
\* An install that fails, and its rollback too.
Failing == [Plain EXCEPT !.indexes = Repo({{1}}, {{}}), !.edits = {},
          !.faults = {"install", "rollback"}, !.maxFaults = 2]
\* Owned by a MultiClusterHub, which may offer nothing for a while.
Hub == [Plain EXCEPT !.mch = "yes", !.first = "release",
          !.indexes = Repo({{2}, {}}, {{}}), !.maxEdits = 1,
          !.faults = FaultKinds]
\* Upgraded while it is started again.
Hub3 == [Hub EXCEPT !.indexes = Repo({{2}, {3}}, {{}}), !.edits = {"index"}, !.faults = {"restart"}]
\* A purge fails.
Emptied == [Plain EXCEPT !.indexes = Repo({{1}, {}}, {{}}), !.edits = {"index"}, !.maxEdits = 1,
          !.faults = {"purge"}]
\* Not an admin's, and watched: version 2 is blocked.
Watched == [Plain EXCEPT !.admin = "no", !.watch = "yes",
          !.indexes = Repo({{1}, {2}, {3}}, {{}}), !.maxEdits = 1,
          !.faults = {"apply", "linger", "sync", "render", "purge", "restart"}]
\* Two releases, one of which is withdrawn, or not made.
Pair == [Plain EXCEPT !.indexes = Repo({{1}}, {{1}, {}}), !.edits = {"index"},
          !.maxEdits = 1, !.faults = {}]
Unmade == [Pair EXCEPT !.edits = {}, !.faults = {"manifest"}]
\* Rates, filters, pauses, manual syncs, and versions that cannot be chosen.
Edited == [Plain EXCEPT !.indexes = Repo({{1, 2}, {2, 3}}, {{}}),
          !.filters = {Everything, [name |-> "p", versions |-> {2}], [name |-> "q", versions |-> {1}]},
          !.edits = {"index", "filter", "rate", "sync", "pause"},
          !.faults = {}]
\* The download of a chart is cut short.
Cut == [Plain EXCEPT !.indexes = Repo({{1}, {3}}, {{}}), !.edits = {"index"}, !.maxEdits = 1,
          !.faults = {"cut", "restart"}, !.maxFaults = 2]
MCWorlds == {Plain, Failing, Cut, Hub, Hub3, Emptied, Watched, Pair, Unmade, Edited}
=============================================================================
