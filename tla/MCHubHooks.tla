----------------------------- MODULE MCHubHooks -----------------------------
(* Every commit has the same two hooks.                                      *)
EXTENDS HubHooks

MCHooks == [c \in 1..MaxCommits |-> {"pre1", "post1"}]
============================================================================
