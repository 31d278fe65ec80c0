--------------------------- MODULE MCPlacementRules ---------------------------
(* Two clusters, and decisions of at most one cluster each.                  *)
EXTENDS PlacementRules

State(life, labels, condition, metric) ==
    [life |-> life, labels |-> labels, condition |-> condition, metric |-> metric]
MCClusterStates == {NoCluster, State("ready", "yes", "true", 1), State("ready", "yes", "true", 2),
                    State("ready", "yes", "false", 2), State("leaving", "no", "none", 1)}

\* Every filter, limit and order, of the specs that differ on these clusters.
MCSpecs == {[NoSpec EXCEPT !.conditions = "yes", !.replicas = 1],
            [NoSpec EXCEPT !.replicas = 0],
            [NoSpec EXCEPT !.user = "limited"],
            [NoSpec EXCEPT !.hint = "desc", !.replicas = 1],
            [NoSpec EXCEPT !.hint = "asc", !.names = {1, 2}],
            [NoSpec EXCEPT !.scheduler = "other"]}
=============================================================================
